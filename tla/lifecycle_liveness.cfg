\* Liveness without api and db faults and with no more dead workers than
\* MaxStalled.
CONSTANTS
  v1 = v1  v2 = v2  s1 = s1  s2 = s2  w1 = w1
  alice = alice  root = root
  Video = {v1, v2}
  User = {root}
  Admin = {root}
  Remover = {d1, d2}
  Worker = {w1}
  Slot = {s1}
  host <- OneWorker
  None = None
  Attempts = 2
  MaxStalled = 1
  FaultBudget <- OneCrash
SPECIFICATION FairSpec
\* Uploads are used up and then nothing is left to do.
CHECK_DEADLOCK FALSE
PROPERTIES
  EveryUploadIsJudged
  DeletedOriginalGoes
  EveryJobRests
