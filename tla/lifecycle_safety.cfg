\* Two uploads and a deletion against one worker of two slots, which dies with
\* both; one fault of each kind, in every combination.
CONSTANTS
  v1 = v1  v2 = v2  s1 = s1  s2 = s2  w1 = w1
  alice = alice  root = root
  Video = {v1, v2}
  User = {root}
  Admin = {root}
  Remover = {d1}
  Worker = {w1}
  Slot = {s1, s2}
  host <- SameWorker
  None = None
  Attempts = 2
  MaxStalled = 1
  FaultBudget <- EachFault
SPECIFICATION Spec
SYMMETRY Symmetry
\* Uploads are used up and then nothing is left to do.
CHECK_DEADLOCK FALSE
INVARIANTS
  TypeOK
  NoDanglingOriginal
  OrphansAreCounted
  PlayableWhenReady
  VerdictMatchesJob
  ProcessingIsPending
PROPERTIES
  ImplementsPromise
