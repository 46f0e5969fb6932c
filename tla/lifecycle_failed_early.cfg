\* No faults but failing attempts.
CONSTANTS
  v1 = v1  v2 = v2  s1 = s1  s2 = s2  w1 = w1
  alice = alice  root = root
  Video = {v1}
  User = {alice, root}
  Admin = {root}
  Remover = {d1}
  Worker = {w1}
  Slot = {s1}
  host <- OneWorker
  None = None
  Attempts = 3
  MaxStalled = 1
  FaultBudget <- NoFault
SPECIFICATION Spec
\* Uploads are used up and then nothing is left to do.
CHECK_DEADLOCK FALSE
INVARIANTS
  FailedMeansAttemptsUsedUp
