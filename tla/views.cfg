\* Two overlapping ticks of the flush timer, three requests for two videos
\* with or without a row, a reader and a crash.
CONSTANTS
  r1 = r1  r2 = r2  r3 = r3  v1 = v1  v2 = v2  alice = alice  bob = bob
  View = {r1, r2, r3}
  Viewer = {alice, bob}
  Video = {v1, v2}
  viewerOf <- TwoViewers
  videoOf <- TwoVideos
  Tick = {t1, t2}
  Reader = {d1}
  None = None
  MaxExpiries = 1
  MaxCrashes = 1
SPECIFICATION MCSpec
INVARIANTS
  NoViewTwice
  NoViewForgotten
  DedupeHolds
  NeverOvercounts
PROPERTIES
  CountersAddUp
  ImplementsLedger
  PendingIsFlushed
