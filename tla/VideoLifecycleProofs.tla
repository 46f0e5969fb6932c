------------------------ MODULE VideoLifecycleProofs ------------------------
(***************************************************************************)
(* Proofs about VideoLifecycle, for any number of uploads, handlers, slots *)
(* and workers, any "attempts" and any number of faults.                   *)
(*                                                                         *)
(* The inductive invariant has three layers, each proved on top of the     *)
(* ones before it: the types with what every actor holds on to, the        *)
(* bookkeeping of rows and objects, and the bookkeeping of jobs and runs.  *)
(***************************************************************************)
EXTENDS VideoLifecycle, FiniteSetTheorems, TLAPS

Published == {"created", "done", "stranded"}

\* Every actor that is not at rest works on a video, a job in flight has an
\* attempt and a stall left, and only an active job is locked,
\* and there is no job before create has added one.
ActorsInv ==
  /\ \A d \in Remover : removing[d].at # "idle" => removing[d].video \in Video
  /\ \A s \in Slot : /\ running[s].at # "idle" => running[s].video \in Video
                     /\ running[s].at = "idle" => running[s].video = None
  /\ \A v \in Video :
       /\ job[v].state \in {"wait", "active", "delayed"} =>
            job[v].attempts < Attempts /\ job[v].stalls <= MaxStalled
       /\ job[v].lock # None => job[v].state = "active"
       /\ creating[v] # "done" => job[v] = NoJob

TypeInv == TypeOK /\ ActorsInv

USE DEF VideoStatus, CreateStage, JobState, RemoveStage, RunStage, Fault,
        videosTable, urlFor

JobType == [state : JobState, attempts : 0..Attempts,
            stalls : 0..(MaxStalled + 1), lock : Slot \union {None}]

\* The four parts of TypeInv: actions seldom touch more than two of them.
RowsTyped ==
  /\ status \in [Video -> VideoStatus \union {"absent"}]
  /\ owner \in [Video -> User]
  /\ playbackUrl \in [Video -> {None} \union {urlFor(v) : v \in Video}]
  /\ bucket \subseteq Video
  /\ creating \in [Video -> CreateStage]
  /\ faults \in [Fault -> Nat]
RemovingTyped ==
  /\ removing \in [Remover -> [at : RemoveStage, video : Video \union {None}]]
  /\ \A d \in Remover : removing[d].at # "idle" => removing[d].video \in Video
RunningTyped ==
  /\ running \in [Slot -> [at : RunStage, video : Video \union {None}]]
  /\ \A s \in Slot : /\ running[s].at # "idle" => running[s].video \in Video
                     /\ running[s].at = "idle" => running[s].video = None
JobsTyped ==
  /\ job \in [Video -> JobType]
  /\ \A v \in Video :
       /\ job[v].state \in {"wait", "active", "delayed"} =>
            job[v].attempts < Attempts /\ job[v].stalls <= MaxStalled
       /\ job[v].lock # None => job[v].state = "active"
       /\ creating[v] # "done" => job[v] = NoJob

LEMMA TypeParts ==
  /\ TypeInv => RowsTyped /\ RemovingTyped /\ RunningTyped /\ JobsTyped
  /\ RowsTyped' /\ RemovingTyped' /\ RunningTyped' /\ JobsTyped' => TypeInv'
  BY DEF TypeInv, TypeOK, ActorsInv, RowsTyped, RemovingTyped, RunningTyped, JobsTyped,
         JobType

\* The initial states are well typed.
LEMMA InitType == Init => TypeInv
  BY AttemptsAssumption DEF Init, TypeInv, TypeOK, ActorsInv, NoJob, AtRest

\* A handler of remove goes on, or comes to rest.
LEMMA RemovingKeeps ==
  ASSUME RemovingTyped, NEW d \in Remover,
         NEW r \in [at : RemoveStage, video : Video \union {None}],
         r.at # "idle" => r.video \in Video,
         removing' = [removing EXCEPT ![d] = r]
  PROVE  RemovingTyped'
<1>1. removing'[d] = r /\ \A e \in Remover : e # d => removing'[e] = removing[e]
  BY DEF RemovingTyped
<1>2. removing' \in [Remover -> [at : RemoveStage, video : Video \union {None}]]
  BY DEF RemovingTyped
<1> QED BY <1>1, <1>2 DEF RemovingTyped

\* A slot takes a job, or comes to rest.
LEMMA RunningKeeps ==
  ASSUME RunningTyped, NEW s \in Slot,
         NEW r \in [at : RunStage, video : Video \union {None}],
         r.at # "idle" => r.video \in Video, r.at = "idle" => r.video = None,
         running' = [running EXCEPT ![s] = r]
  PROVE  RunningTyped'
<1>1. running'[s] = r /\ \A t \in Slot : t # s => running'[t] = running[t]
  BY DEF RunningTyped
<1>2. running' \in [Slot -> [at : RunStage, video : Video \union {None}]]
  BY DEF RunningTyped
<1> QED BY <1>1, <1>2 DEF RunningTyped

\* A slot goes on with its job.
LEMMA RunGoesOn ==
  ASSUME RunningTyped, NEW s \in Slot, running[s].at # "idle",
         NEW x \in RunStage, x # "idle",
         running' = [running EXCEPT ![s].at = x]
  PROVE  RunningTyped'
<1> DEFINE r == [at |-> x, video |-> running[s].video]
<1>1. running[s] \in [at : RunStage, video : Video \union {None}] /\ running[s].video \in Video
  BY DEF RunningTyped
<1>2. [running[s] EXCEPT !.at = x] = r
  BY <1>1
<1>3. running' = [running EXCEPT ![s] = r]
  BY <1>2
<1>4. r \in [at : RunStage, video : Video \union {None}] /\ r.at # "idle" /\ r.video \in Video
  BY <1>1
<1> HIDE DEF r
<1> QED BY <1>3, <1>4, RunningKeeps

LEMMA RunRests ==
  ASSUME RunningTyped, NEW s \in Slot, Rest(s)
  PROVE  RunningTyped'
<1>1. AtRest \in [at : RunStage, video : Video \union {None}] /\ AtRest.at = "idle"
      /\ AtRest.video = None
  BY DEF AtRest
<1>2. running' = [running EXCEPT ![s] = AtRest]
  BY DEF Rest
<1> QED BY <1>1, <1>2, RunningKeeps

\* One job changes.
LEMMA JobsKeep ==
  ASSUME JobsTyped, NEW v \in Video, NEW j \in JobType,
         j.state \in {"wait", "active", "delayed"} =>
           j.attempts < Attempts /\ j.stalls <= MaxStalled,
         j.lock # None => j.state = "active",
         creating'[v] = "done",
         \A w \in Video \ {v} : creating'[w] = creating[w],
         job' = [job EXCEPT ![v] = j]
  PROVE  JobsTyped'
<1>1. job'[v] = j /\ \A w \in Video \ {v} : job'[w] = job[w]
  BY DEF JobsTyped
<1>2. job' \in [Video -> JobType]
  BY DEF JobsTyped
<1> QED BY <1>1, <1>2 DEF JobsTyped

\* The tables and the bucket change, or nothing of a job does.
LEMMA JobsStay ==
  ASSUME JobsTyped, job' = job,
         \A v \in Video : creating[v] = "done" => creating'[v] = "done"
  PROVE  JobsTyped'
  BY DEF JobsTyped

LEMMA Spends ==
  ASSUME RowsTyped, NEW kind \in Fault, Spend(kind)
  PROVE  faults' \in [Fault -> Nat]
  BY DEF RowsTyped, Spend

\* Every step keeps the types.
LEMMA NextType == TypeInv /\ [Next]_vars => TypeInv'
<1> SUFFICES ASSUME TypeInv, [Next]_vars
             PROVE  RowsTyped' /\ RemovingTyped' /\ RunningTyped' /\ JobsTyped'
  BY TypeParts
<1>0. RowsTyped /\ RemovingTyped /\ RunningTyped /\ JobsTyped
  BY TypeParts
<1> DEFINE Typed == RowsTyped' /\ RemovingTyped' /\ RunningTyped' /\ JobsTyped'
<1>1. ASSUME NEW v \in Video, UploadFile(v)
      PROVE  Typed
  <2>1. RowsTyped'
    BY <1>0, <1>1 DEF UploadFile, RowsTyped
  <2>2. RemovingTyped'
    BY <1>0, <1>1 DEF UploadFile, RemovingTyped
  <2>3. RunningTyped'
    BY <1>0, <1>1 DEF UploadFile, RunningTyped
  <2>4. JobsTyped'
    BY <1>0, <1>1, JobsStay DEF UploadFile
  <2> QED BY <2>1, <2>2, <2>3, <2>4
<1>2. ASSUME NEW v \in Video, CreateVideo(v)
      PROVE  Typed
  <2>1. RowsTyped'
    BY <1>0, <1>2 DEF CreateVideo, RowsTyped
  <2>2. RemovingTyped'
    BY <1>0, <1>2 DEF CreateVideo, RemovingTyped
  <2>3. RunningTyped'
    BY <1>0, <1>2 DEF CreateVideo, RunningTyped
  <2>4. JobsTyped'
    BY <1>0, <1>2, JobsStay DEF CreateVideo
  <2> QED BY <2>1, <2>2, <2>3, <2>4
<1>3. ASSUME NEW v \in Video, EndqueueProcessing(v)
      PROVE  Typed
  <2>1. RowsTyped'
    BY <1>0, <1>3 DEF EndqueueProcessing, RowsTyped
  <2>2. RemovingTyped'
    BY <1>0, <1>3 DEF EndqueueProcessing, RemovingTyped
  <2>3. RunningTyped'
    BY <1>0, <1>3 DEF EndqueueProcessing, RunningTyped
  <2>4. JobsTyped'
    <3> DEFINE j == [NoJob EXCEPT !.state = "wait"]
    <3>1. job[v] = NoJob
      BY <1>0, <1>3 DEF EndqueueProcessing, JobsTyped
    <3>2. j \in JobType /\ j.attempts < Attempts /\ j.stalls <= MaxStalled /\ j.lock = None
      BY AttemptsAssumption DEF JobType, NoJob
    <3>3. /\ job' = [job EXCEPT ![v] = j]
          /\ creating'[v] = "done" /\ \A w \in Video \ {v} : creating'[w] = creating[w]
      BY <1>0, <3>1, <1>3 DEF EndqueueProcessing, RowsTyped
    <3> HIDE DEF j
    <3> QED BY <1>0, <3>2, <3>3, JobsKeep
  <2> QED BY <2>1, <2>2, <2>3, <2>4
<1>4. ASSUME NEW v \in Video, CreateInterrupted(v)
      PROVE  Typed
  <2>1. RowsTyped'
    <3>1. faults' \in [Fault -> Nat]
      BY <1>0, <1>4, Spends DEF CreateInterrupted
    <3> QED BY <1>0, <1>4, <3>1 DEF CreateInterrupted, RowsTyped
  <2>2. RemovingTyped'
    BY <1>0, <1>4 DEF CreateInterrupted, RemovingTyped
  <2>3. RunningTyped'
    BY <1>0, <1>4 DEF CreateInterrupted, RunningTyped
  <2>4. JobsTyped'
    <3>1. job' = job /\ \A w \in Video : creating[w] = "done" => creating'[w] = "done"
      BY <1>0, <1>4 DEF CreateInterrupted, RowsTyped
    <3> QED BY <1>0, <3>1, JobsStay
  <2> QED BY <2>1, <2>2, <2>3, <2>4
<1>5. ASSUME NEW d \in Remover, NEW u \in User, NEW v \in Video, FindVideo(d, u, v)
      PROVE  Typed
  <2>1. RowsTyped'
    BY <1>0, <1>5 DEF FindVideo, RowsTyped
  <2>2. RemovingTyped'
    <3> DEFINE r == [at |-> "found", video |-> v]
    <3>1. r \in [at : RemoveStage, video : Video \union {None}] /\ r.video \in Video
      OBVIOUS
    <3>2. removing' = [removing EXCEPT ![d] = r]
      BY <1>5 DEF FindVideo
    <3> HIDE DEF r
    <3> QED BY <1>0, <3>1, <3>2, RemovingKeeps
  <2>3. RunningTyped'
    BY <1>0, <1>5 DEF FindVideo, RunningTyped
  <2>4. JobsTyped'
    BY <1>0, <1>5, JobsStay DEF FindVideo
  <2> QED BY <2>1, <2>2, <2>3, <2>4
<1>6. ASSUME NEW d \in Remover, DeleteVideo(d)
      PROVE  Typed
  <2>1. RowsTyped'
    BY <1>0, <1>6 DEF DeleteVideo, RowsTyped
  <2>2. RemovingTyped'
    <3> DEFINE r == [at |-> "deleted", video |-> removing[d].video]
    <3>1. removing[d] \in [at : RemoveStage, video : Video \union {None}] /\ removing[d].video \in Video
      BY <1>0, <1>6 DEF DeleteVideo, RemovingTyped
    <3>2. r \in [at : RemoveStage, video : Video \union {None}] /\ r.video \in Video
      BY <3>1
    <3>3. [removing[d] EXCEPT !.at = "deleted"] = r
      BY <3>1
    <3>4. removing' = [removing EXCEPT ![d] = r]
      BY <3>3, <1>6 DEF DeleteVideo
    <3> HIDE DEF r
    <3> QED BY <1>0, <3>2, <3>4, RemovingKeeps
  <2>3. RunningTyped'
    BY <1>0, <1>6 DEF DeleteVideo, RunningTyped
  <2>4. JobsTyped'
    BY <1>0, <1>6, JobsStay DEF DeleteVideo
  <2> QED BY <2>1, <2>2, <2>3, <2>4
<1>7. ASSUME NEW d \in Remover, DeleteMissing(d)
      PROVE  Typed
  <2>1. RowsTyped'
    BY <1>0, <1>7 DEF DeleteMissing, RowsTyped
  <2>2. RemovingTyped'
    <3>1. AtRest \in [at : RemoveStage, video : Video \union {None}] /\ AtRest.at = "idle"
      BY DEF AtRest
    <3>2. removing' = [removing EXCEPT ![d] = AtRest]
      BY <1>7 DEF DeleteMissing
    <3> QED BY <1>0, <3>1, <3>2, RemovingKeeps
  <2>3. RunningTyped'
    BY <1>0, <1>7 DEF DeleteMissing, RunningTyped
  <2>4. JobsTyped'
    BY <1>0, <1>7, JobsStay DEF DeleteMissing
  <2> QED BY <2>1, <2>2, <2>3, <2>4
<1>8. ASSUME NEW d \in Remover, RemoveObject(d)
      PROVE  Typed
  <2>1. RowsTyped'
    BY <1>0, <1>8 DEF RemoveObject, RowsTyped
  <2>2. RemovingTyped'
    <3>1. AtRest \in [at : RemoveStage, video : Video \union {None}] /\ AtRest.at = "idle"
      BY DEF AtRest
    <3>2. removing' = [removing EXCEPT ![d] = AtRest]
      BY <1>8 DEF RemoveObject
    <3> QED BY <1>0, <3>1, <3>2, RemovingKeeps
  <2>3. RunningTyped'
    BY <1>0, <1>8 DEF RemoveObject, RunningTyped
  <2>4. JobsTyped'
    BY <1>0, <1>8, JobsStay DEF RemoveObject
  <2> QED BY <2>1, <2>2, <2>3, <2>4
<1>9. ASSUME NEW d \in Remover, RemoveObjectFails(d)
      PROVE  Typed
  <2>1. RowsTyped'
    <3>1. faults' \in [Fault -> Nat]
      BY <1>0, <1>9, Spends DEF RemoveObjectFails
    <3> QED BY <1>0, <1>9, <3>1 DEF RemoveObjectFails, RowsTyped
  <2>2. RemovingTyped'
    <3>1. AtRest \in [at : RemoveStage, video : Video \union {None}] /\ AtRest.at = "idle"
      BY DEF AtRest
    <3>2. removing' = [removing EXCEPT ![d] = AtRest]
      BY <1>9 DEF RemoveObjectFails
    <3> QED BY <1>0, <3>1, <3>2, RemovingKeeps
  <2>3. RunningTyped'
    BY <1>0, <1>9 DEF RemoveObjectFails, RunningTyped
  <2>4. JobsTyped'
    BY <1>0, <1>9, JobsStay DEF RemoveObjectFails
  <2> QED BY <2>1, <2>2, <2>3, <2>4
<1>10. ASSUME NEW d \in Remover, RemoveInterrupted(d)
      PROVE  Typed
  <2>1. RowsTyped'
    <3>1. faults' \in [Fault -> Nat]
      BY <1>0, <1>10, Spends DEF RemoveInterrupted
    <3> QED BY <1>0, <1>10, <3>1 DEF RemoveInterrupted, RowsTyped
  <2>2. RemovingTyped'
    <3>1. AtRest \in [at : RemoveStage, video : Video \union {None}] /\ AtRest.at = "idle"
      BY DEF AtRest
    <3>2. removing' = [removing EXCEPT ![d] = AtRest]
      BY <1>10 DEF RemoveInterrupted
    <3> QED BY <1>0, <3>1, <3>2, RemovingKeeps
  <2>3. RunningTyped'
    BY <1>0, <1>10 DEF RemoveInterrupted, RunningTyped
  <2>4. JobsTyped'
    BY <1>0, <1>10, JobsStay DEF RemoveInterrupted
  <2> QED BY <2>1, <2>2, <2>3, <2>4
<1>11. ASSUME NEW s \in Slot, NEW v \in Video, FetchJob(s, v)
      PROVE  Typed
  <2>1. RowsTyped'
    BY <1>0, <1>11 DEF FetchJob, RowsTyped
  <2>2. RemovingTyped'
    BY <1>0, <1>11 DEF FetchJob, RemovingTyped
  <2>3. RunningTyped'
    <3> DEFINE r == [at |-> "processing", video |-> v]
    <3>1. r \in [at : RunStage, video : Video \union {None}] /\ r.at # "idle" /\ r.video \in Video
      OBVIOUS
    <3>2. running' = [running EXCEPT ![s] = r]
      BY <1>11 DEF FetchJob
    <3> HIDE DEF r
    <3> QED BY <1>0, <3>1, <3>2, RunningKeeps
  <2>4. JobsTyped'
    <3> DEFINE j == [job[v] EXCEPT !.state = "active", !.lock = s]
    <3>1. /\ job[v] \in JobType /\ job[v] # NoJob
          /\ job[v].attempts < Attempts /\ job[v].stalls <= MaxStalled
      BY <1>0, <1>11 DEF FetchJob, JobsTyped, NoJob
    <3>2. /\ j \in JobType /\ j.state = "active"
          /\ j.attempts = job[v].attempts /\ j.stalls = job[v].stalls
      BY <3>1 DEF JobType
    <3>3. job' = [job EXCEPT ![v] = j]
      BY <1>11 DEF FetchJob
    <3>4. creating' = creating /\ creating[v] = "done"
      BY <1>0, <3>1, <1>11 DEF FetchJob, JobsTyped
    <3> HIDE DEF j
    <3> QED BY <1>0, <3>1, <3>2, <3>3, <3>4, JobsKeep
  <2> QED BY <2>1, <2>2, <2>3, <2>4
<1>12. ASSUME NEW s \in Slot, MarkReady(s)
      PROVE  Typed
  <2>1. RowsTyped'
    <3>1. running[s].video \in Video
      BY <1>0, <1>12 DEF MarkReady, RunningTyped
    <3>2. status' \in [Video -> VideoStatus \union {"absent"}]
      BY <1>0, <1>12 DEF MarkReady, RowsTyped
    <3>3. playbackUrl' \in [Video -> {None} \union {urlFor(v) : v \in Video}]
      BY <1>0, <3>1, <1>12 DEF MarkReady, RowsTyped
    <3> QED BY <1>0, <3>2, <3>3, <1>12 DEF MarkReady, RowsTyped
  <2>2. RemovingTyped'
    BY <1>0, <1>12 DEF MarkReady, RemovingTyped
  <2>3. RunningTyped'
    <3>1. running[s].at # "idle" /\ running' = [running EXCEPT ![s].at = "marked"]
      BY <1>12 DEF MarkReady
    <3> QED BY <1>0, <3>1, RunGoesOn
  <2>4. JobsTyped'
    BY <1>0, <1>12, JobsStay DEF MarkReady
  <2> QED BY <2>1, <2>2, <2>3, <2>4
<1>13. ASSUME NEW s \in Slot, ProcessThrows(s)
      PROVE  Typed
  <2>1. RowsTyped'
    BY <1>0, <1>13 DEF ProcessThrows, RowsTyped
  <2>2. RemovingTyped'
    BY <1>0, <1>13 DEF ProcessThrows, RemovingTyped
  <2>3. RunningTyped'
    <3>1. running[s].at # "idle" /\ running' = [running EXCEPT ![s].at = "caught"]
      BY <1>13 DEF ProcessThrows
    <3> QED BY <1>0, <3>1, RunGoesOn
  <2>4. JobsTyped'
    BY <1>0, <1>13, JobsStay DEF ProcessThrows
  <2> QED BY <2>1, <2>2, <2>3, <2>4
<1>14. ASSUME NEW s \in Slot, MarkFailed(s)
      PROVE  Typed
  <2>1. RowsTyped'
    BY <1>0, <1>14 DEF MarkFailed, RowsTyped
  <2>2. RemovingTyped'
    BY <1>0, <1>14 DEF MarkFailed, RemovingTyped
  <2>3. RunningTyped'
    <3>1. running[s].at # "idle" /\ running' = [running EXCEPT ![s].at = "rethrown"]
      BY <1>14 DEF MarkFailed
    <3> QED BY <1>0, <3>1, RunGoesOn
  <2>4. JobsTyped'
    BY <1>0, <1>14, JobsStay DEF MarkFailed
  <2> QED BY <2>1, <2>2, <2>3, <2>4
<1>15. ASSUME NEW s \in Slot, MarkFailedMissing(s)
      PROVE  Typed
  <2>1. RowsTyped'
    BY <1>0, <1>15 DEF MarkFailedMissing, RowsTyped
  <2>2. RemovingTyped'
    BY <1>0, <1>15 DEF MarkFailedMissing, RemovingTyped
  <2>3. RunningTyped'
    <3>1. running[s].at # "idle" /\ running' = [running EXCEPT ![s].at = "rethrown"]
      BY <1>15 DEF MarkFailedMissing
    <3> QED BY <1>0, <3>1, RunGoesOn
  <2>4. JobsTyped'
    BY <1>0, <1>15, JobsStay DEF MarkFailedMissing
  <2> QED BY <2>1, <2>2, <2>3, <2>4
<1>16. ASSUME NEW s \in Slot, MarkFailedRejected(s)
      PROVE  Typed
  <2>1. RowsTyped'
    <3>1. faults' \in [Fault -> Nat]
      BY <1>0, <1>16, Spends DEF MarkFailedRejected
    <3> QED BY <1>0, <1>16, <3>1 DEF MarkFailedRejected, RowsTyped
  <2>2. RemovingTyped'
    BY <1>0, <1>16 DEF MarkFailedRejected, RemovingTyped
  <2>3. RunningTyped'
    <3>1. running[s].at # "idle" /\ running' = [running EXCEPT ![s].at = "rethrown"]
      BY <1>16 DEF MarkFailedRejected
    <3> QED BY <1>0, <3>1, RunGoesOn
  <2>4. JobsTyped'
    BY <1>0, <1>16, JobsStay DEF MarkFailedRejected
  <2> QED BY <2>1, <2>2, <2>3, <2>4
<1>17. ASSUME NEW s \in Slot, CompleteJob(s)
      PROVE  Typed
  <2>1. RowsTyped'
    BY <1>0, <1>17 DEF CompleteJob, RowsTyped
  <2>2. RemovingTyped'
    BY <1>0, <1>17 DEF CompleteJob, RemovingTyped
  <2>3. RunningTyped'
    BY <1>0, <1>17, RunRests DEF CompleteJob
  <2>4. JobsTyped'
    <3> DEFINE v == running[s].video
               j == [job[v] EXCEPT !.state = "completed", !.lock = None]
    <3>1. CASE HoldsLock(s)
      <4>1. v \in Video
        BY <1>0, <3>1 DEF HoldsLock, RunningTyped
      <4>2. /\ job[v] \in JobType /\ job[v].state = "active" /\ job[v] # NoJob
            /\ job[v].attempts < Attempts /\ job[v].stalls <= MaxStalled
        BY <1>0, <3>1, <4>1, NoneAssumption DEF HoldsLock, JobsTyped, NoJob
      <4>3. /\ j \in JobType /\ j.lock = None /\ j.stalls = job[v].stalls
            /\ j.state \in {"wait", "active", "delayed"} => j.attempts < Attempts
        BY <4>2, AttemptsAssumption DEF JobType
      <4>4. job' = [job EXCEPT ![v] = j]
        BY <3>1, <1>17 DEF CompleteJob
      <4>5. creating' = creating /\ creating[v] = "done"
        BY <1>0, <4>1, <4>2, <1>17 DEF CompleteJob, JobsTyped
      <4> HIDE DEF v, j
      <4> QED BY <1>0, <4>1, <4>2, <4>3, <4>4, <4>5, JobsKeep
    <3>2. CASE ~HoldsLock(s)
      BY <1>0, <3>2, <1>17, JobsStay DEF CompleteJob
    <3> QED BY <3>1, <3>2
  <2> QED BY <2>1, <2>2, <2>3, <2>4
<1>18. ASSUME NEW s \in Slot, FailJob(s)
      PROVE  Typed
  <2>1. RowsTyped'
    BY <1>0, <1>18 DEF FailJob, RowsTyped
  <2>2. RemovingTyped'
    BY <1>0, <1>18 DEF FailJob, RemovingTyped
  <2>3. RunningTyped'
    BY <1>0, <1>18, RunRests DEF FailJob
  <2>4. JobsTyped'
    <3> DEFINE v == running[s].video
               j == [job[v] EXCEPT !.attempts = job[v].attempts + 1,
                                 !.state = IF job[v].attempts + 1 < Attempts THEN "delayed"
                                                                             ELSE "failed",
                                 !.lock = None]
    <3>1. CASE HoldsLock(s)
      <4>1. v \in Video
        BY <1>0, <3>1 DEF HoldsLock, RunningTyped
      <4>2. /\ job[v] \in JobType /\ job[v].state = "active" /\ job[v] # NoJob
            /\ job[v].attempts < Attempts /\ job[v].stalls <= MaxStalled
        BY <1>0, <3>1, <4>1, NoneAssumption DEF HoldsLock, JobsTyped, NoJob
      <4>3. /\ j \in JobType /\ j.lock = None /\ j.stalls = job[v].stalls
            /\ j.state \in {"wait", "active", "delayed"} => j.attempts < Attempts
        <5> DEFINE n == job[v].attempts + 1
                   x == IF n < Attempts THEN "delayed" ELSE "failed"
        <5>1. n \in 0..Attempts
          BY <4>2, AttemptsAssumption DEF JobType
        <5>2. x \in JobState /\ (x # "failed" => n < Attempts)
          BY <5>1, AttemptsAssumption
        <5>3. x \in {"wait", "active", "delayed"} => x # "failed"
          OBVIOUS
        <5>4. j = [job[v] EXCEPT !.attempts = n, !.state = x, !.lock = None]
          BY DEF n, x
        <5> HIDE DEF n, x, j
        <5>5. x \in JobState
          BY <5>2
        <5>6. job[v] \in JobType
          BY <4>2
        <5>7. /\ j \in JobType /\ j.state = x /\ j.attempts = n
              /\ j.stalls = job[v].stalls /\ j.lock = None
          BY <5>1, <5>4, <5>5, <5>6 DEF JobType
        <5> QED BY <5>2, <5>3, <5>7
      <4>4. job' = [job EXCEPT ![v] = j]
        BY <3>1, <1>18 DEF FailJob
      <4>5. creating' = creating /\ creating[v] = "done"
        BY <1>0, <4>1, <4>2, <1>18 DEF FailJob, JobsTyped
      <4> HIDE DEF v, j
      <4> QED BY <1>0, <4>1, <4>2, <4>3, <4>4, <4>5, JobsKeep
    <3>2. CASE ~HoldsLock(s)
      BY <1>0, <3>2, <1>18, JobsStay DEF FailJob
    <3> QED BY <3>1, <3>2
  <2> QED BY <2>1, <2>2, <2>3, <2>4
<1>19. ASSUME NEW s \in Slot, LockLost(s)
      PROVE  Typed
  <2>1. RowsTyped'
    <3>1. faults' \in [Fault -> Nat]
      BY <1>0, <1>19, Spends DEF LockLost
    <3> QED BY <1>0, <1>19, <3>1 DEF LockLost, RowsTyped
  <2>2. RemovingTyped'
    BY <1>0, <1>19 DEF LockLost, RemovingTyped
  <2>3. RunningTyped'
    BY <1>0, <1>19 DEF LockLost, RunningTyped
  <2>4. JobsTyped'
    <3> DEFINE v == running[s].video
    <3>0. v \in Video
      BY <1>0, <1>19 DEF LockLost, HoldsLock, RunningTyped
    <3> DEFINE j == [job[v] EXCEPT !.lock = None]
    <3>1. /\ job[v] \in JobType /\ job[v] # NoJob
          /\ job[v].attempts < Attempts /\ job[v].stalls <= MaxStalled
          /\ job[v].state = "active"
      BY <1>0, <3>0, <1>19, NoneAssumption DEF LockLost, HoldsLock, JobsTyped, NoJob
    <3>2. /\ j \in JobType /\ j.lock = None /\ j.attempts = job[v].attempts
          /\ j.state \in {"wait", "active", "delayed"} => j.stalls <= MaxStalled
      BY <3>1, AttemptsAssumption DEF JobType
    <3>3. job' = [job EXCEPT ![v] = j]
      BY <3>1, <1>19 DEF LockLost
    <3>4. creating' = creating /\ creating[v] = "done"
      BY <1>0, <3>0, <3>1, <1>19 DEF LockLost, JobsTyped
    <3> HIDE DEF v, j
    <3> QED BY <1>0, <3>0, <3>1, <3>2, <3>3, <3>4, JobsKeep
  <2> QED BY <2>1, <2>2, <2>3, <2>4
<1>20. ASSUME NEW v \in Video, PromoteDelayed(v)
      PROVE  Typed
  <2>1. RowsTyped'
    BY <1>0, <1>20 DEF PromoteDelayed, RowsTyped
  <2>2. RemovingTyped'
    BY <1>0, <1>20 DEF PromoteDelayed, RemovingTyped
  <2>3. RunningTyped'
    BY <1>0, <1>20 DEF PromoteDelayed, RunningTyped
  <2>4. JobsTyped'
    <3> DEFINE j == [job[v] EXCEPT !.state = "wait"]
    <3>1. /\ job[v] \in JobType /\ job[v] # NoJob
          /\ job[v].attempts < Attempts /\ job[v].stalls <= MaxStalled
          /\ job[v].lock = None
      BY <1>0, <1>20 DEF PromoteDelayed, JobsTyped, NoJob
    <3>2. /\ j \in JobType /\ j.lock = None /\ j.attempts = job[v].attempts
          /\ j.state \in {"wait", "active", "delayed"} => j.stalls <= MaxStalled
      BY <3>1, AttemptsAssumption DEF JobType
    <3>3. job' = [job EXCEPT ![v] = j]
      BY <3>1, <1>20 DEF PromoteDelayed
    <3>4. creating' = creating /\ creating[v] = "done"
      BY <1>0, <3>1, <1>20 DEF PromoteDelayed, JobsTyped
    <3> HIDE DEF j
    <3> QED BY <1>0, <3>1, <3>2, <3>3, <3>4, JobsKeep
  <2> QED BY <2>1, <2>2, <2>3, <2>4
<1>21. ASSUME NEW v \in Video, RequeueStalled(v)
      PROVE  Typed
  <2>1. RowsTyped'
    BY <1>0, <1>21 DEF RequeueStalled, RowsTyped
  <2>2. RemovingTyped'
    BY <1>0, <1>21 DEF RequeueStalled, RemovingTyped
  <2>3. RunningTyped'
    BY <1>0, <1>21 DEF RequeueStalled, RunningTyped
  <2>4. JobsTyped'
    <3> DEFINE j == [job[v] EXCEPT !.stalls = job[v].stalls + 1,
                               !.state = IF job[v].stalls + 1 > MaxStalled THEN "failed"
                                                                           ELSE "wait"]
    <3>1. /\ job[v] \in JobType /\ job[v] # NoJob
          /\ job[v].attempts < Attempts /\ job[v].stalls <= MaxStalled
          /\ job[v].lock = None
      BY <1>0, <1>21 DEF RequeueStalled, JobsTyped, NoJob
    <3>2. /\ j \in JobType /\ j.lock = None /\ j.attempts = job[v].attempts
          /\ j.state \in {"wait", "active", "delayed"} => j.stalls <= MaxStalled
      <4> DEFINE n == job[v].stalls + 1
                 x == IF n > MaxStalled THEN "failed" ELSE "wait"
      <4>1. n \in 0..(MaxStalled + 1)
        BY <3>1, AttemptsAssumption DEF JobType
      <4>2. x \in JobState /\ (x # "failed" => n <= MaxStalled)
        BY <4>1, AttemptsAssumption
      <4>3. x \in {"wait", "active", "delayed"} => x # "failed"
        OBVIOUS
      <4>4. j = [job[v] EXCEPT !.stalls = n, !.state = x]
        BY DEF n, x
      <4> HIDE DEF n, x, j
      <4>5. x \in JobState
        BY <4>2
      <4>6. job[v] \in JobType
        BY <3>1
      <4>7. /\ j \in JobType /\ j.state = x /\ j.stalls = n
            /\ j.attempts = job[v].attempts /\ j.lock = job[v].lock
        BY <4>1, <4>4, <4>5, <4>6 DEF JobType
      <4> QED BY <3>1, <4>2, <4>3, <4>7
    <3>3. job' = [job EXCEPT ![v] = j]
      BY <3>1, <1>21 DEF RequeueStalled
    <3>4. creating' = creating /\ creating[v] = "done"
      BY <1>0, <3>1, <1>21 DEF RequeueStalled, JobsTyped
    <3> HIDE DEF j
    <3> QED BY <1>0, <3>1, <3>2, <3>3, <3>4, JobsKeep
  <2> QED BY <2>1, <2>2, <2>3, <2>4
<1>22. ASSUME NEW w \in Worker, WorkerCrash(w)
      PROVE  Typed
  <2>1. RowsTyped'
    <3>1. faults' \in [Fault -> Nat]
      BY <1>0, <1>22, Spends DEF WorkerCrash
    <3> QED BY <1>0, <1>22, <3>1 DEF WorkerCrash, RowsTyped
  <2>2. RemovingTyped'
    BY <1>0, <1>22 DEF WorkerCrash, RemovingTyped
  <2>3. RunningTyped'
    <3>1. running' = [s \in Slot |-> IF host[s] = w THEN AtRest ELSE running[s]]
      BY <1>22 DEF WorkerCrash
    <3>2. AtRest \in [at : RunStage, video : Video \union {None}] /\ AtRest.at = "idle"
          /\ AtRest.video = None
      BY DEF AtRest
    <3> QED BY <1>0, <3>1, <3>2 DEF RunningTyped
  <2>4. JobsTyped'
    <3>1. job' = [v \in Video |->
                    IF \E s \in Slot : host[s] = w /\ job[v].lock = s
                      THEN [job[v] EXCEPT !.lock = None]
                      ELSE job[v]]
      BY <1>22 DEF WorkerCrash
    <3>2. \A v \in Video :
            LET j == [job[v] EXCEPT !.lock = None]
            IN  /\ j \in JobType /\ j.lock = None /\ j.state = job[v].state
                /\ j.attempts = job[v].attempts /\ j.stalls = job[v].stalls
                /\ job[v] = NoJob => j = NoJob
      BY <1>0 DEF JobsTyped, JobType, NoJob
    <3>3. \A v \in Video : \/ job'[v] = job[v]
                           \/ job'[v] = [job[v] EXCEPT !.lock = None]
      BY <3>1
    <3>4. job' \in [Video -> JobType]
      BY <1>0, <3>1, <3>2 DEF JobsTyped
    <3>5. creating' = creating
      BY <1>22 DEF WorkerCrash
    <3> QED BY <1>0, <3>2, <3>3, <3>4, <3>5 DEF JobsTyped
  <2> QED BY <2>1, <2>2, <2>3, <2>4
<1>23. CASE UNCHANGED vars
  BY <1>0, <1>23 DEF vars, RowsTyped, RemovingTyped, RunningTyped, JobsTyped
<1>q. QED
  BY <1>1, <1>2, <1>3, <1>4, <1>5, <1>6, <1>7, <1>8, <1>9, <1>10, <1>11, <1>12,
     <1>13, <1>14, <1>15, <1>16, <1>17, <1>18, <1>19, <1>20, <1>21, <1>22, <1>23
     DEF Next, CreateStep, QueueStep, RemoveStep, RunStep

\* Type correctness: whatever fails, no job is tried more often than the
\* producer's "attempts" or put back more often than maxStalledCount.
THEOREM TypeCorrect == Spec => []TypeOK
<1>1. TypeInv => TypeOK
  BY DEF TypeInv
<1> QED
  BY <1>1, InitType, NextType, PTL DEF Spec

-----------------------------------------------------------------------------
\* Rows and objects.  A row follows a stored object, a handler of remove works
\* on a video that has been published, and one that has deleted the row is
\* alone with the object.
ObjectsInv ==
  /\ \A v \in Video :
       /\ Exists(v) => creating[v] \in Published /\ v \in bucket
       /\ creating[v] = "uploaded" => v \in bucket
       /\ status[v] = "READY" => playbackUrl[v] = urlFor(v)
  /\ \A d \in Remover :
       /\ removing[d].at # "idle" => creating[removing[d].video] \in Published
       /\ removing[d].at = "deleted" => ~Exists(removing[d].video)

LEMMA InitObjects == Init => ObjectsInv
  BY DEF Init, ObjectsInv, Exists, AtRest

\* Every step keeps rows and objects in step.
LEMMA NextObjects == TypeInv /\ ObjectsInv /\ [Next]_vars => ObjectsInv'
<1> SUFFICES ASSUME TypeInv /\ ObjectsInv, [Next]_vars PROVE ObjectsInv'
  OBVIOUS
<1> USE NoneAssumption
        DEF TypeInv, TypeOK, ActorsInv, ObjectsInv, Exists, Published
<1>1. ASSUME NEW v \in Video, UploadFile(v)
      PROVE  ObjectsInv'
  BY <1>1 DEF UploadFile
<1>2. ASSUME NEW v \in Video, CreateVideo(v)
      PROVE  ObjectsInv'
  BY <1>2 DEF CreateVideo
<1>3. ASSUME NEW v \in Video, EndqueueProcessing(v)
      PROVE  ObjectsInv'
  BY <1>3 DEF EndqueueProcessing
<1>4. ASSUME NEW v \in Video, CreateInterrupted(v)
      PROVE  ObjectsInv'
  BY <1>4 DEF CreateInterrupted, Spend
<1>5. ASSUME NEW d \in Remover, NEW u \in User, NEW v \in Video,
             FindVideo(d, u, v)
      PROVE  ObjectsInv'
  BY <1>5 DEF FindVideo, AtRest
<1>6. ASSUME NEW d \in Remover, DeleteVideo(d)
      PROVE  ObjectsInv'
  BY <1>6 DEF DeleteVideo
<1>7. ASSUME NEW d \in Remover, DeleteMissing(d)
      PROVE  ObjectsInv'
  BY <1>7 DEF DeleteMissing, AtRest
<1>8. ASSUME NEW d \in Remover, RemoveObject(d)
      PROVE  ObjectsInv'
  BY <1>8 DEF RemoveObject, AtRest
<1>9. ASSUME NEW d \in Remover, RemoveObjectFails(d)
      PROVE  ObjectsInv'
  BY <1>9 DEF RemoveObjectFails, AtRest, Spend
<1>10. ASSUME NEW d \in Remover, RemoveInterrupted(d)
      PROVE  ObjectsInv'
  BY <1>10 DEF RemoveInterrupted, AtRest, Spend
<1>11. ASSUME NEW s \in Slot, NEW v \in Video, FetchJob(s, v)
      PROVE  ObjectsInv'
  BY <1>11 DEF FetchJob, AtRest
<1>12. ASSUME NEW s \in Slot, MarkReady(s)
      PROVE  ObjectsInv'
  BY <1>12 DEF MarkReady
<1>13. ASSUME NEW s \in Slot, ProcessThrows(s)
      PROVE  ObjectsInv'
  BY <1>13 DEF ProcessThrows
<1>14. ASSUME NEW s \in Slot, MarkFailed(s)
      PROVE  ObjectsInv'
  BY <1>14 DEF MarkFailed
<1>15. ASSUME NEW s \in Slot, MarkFailedMissing(s)
      PROVE  ObjectsInv'
  BY <1>15 DEF MarkFailedMissing
<1>16. ASSUME NEW s \in Slot, MarkFailedRejected(s)
      PROVE  ObjectsInv'
  BY <1>16 DEF MarkFailedRejected, Spend
<1>17. ASSUME NEW s \in Slot, CompleteJob(s)
      PROVE  ObjectsInv'
  BY <1>17 DEF CompleteJob, HoldsLock, Rest, AtRest
<1>18. ASSUME NEW s \in Slot, FailJob(s)
      PROVE  ObjectsInv'
  BY <1>18 DEF FailJob, HoldsLock, Rest, AtRest
<1>19. ASSUME NEW s \in Slot, LockLost(s)
      PROVE  ObjectsInv'
  BY <1>19 DEF LockLost, HoldsLock, Spend
<1>20. ASSUME NEW v \in Video, PromoteDelayed(v)
      PROVE  ObjectsInv'
  BY <1>20 DEF PromoteDelayed
<1>21. ASSUME NEW v \in Video, RequeueStalled(v)
      PROVE  ObjectsInv'
  BY <1>21 DEF RequeueStalled
<1>22. ASSUME NEW w \in Worker, WorkerCrash(w)
      PROVE  ObjectsInv'
  BY <1>22 DEF WorkerCrash, AtRest, Spend
<1>23. CASE UNCHANGED vars
  BY <1>23 DEF vars
<1>q. QED
  BY <1>1, <1>2, <1>3, <1>4, <1>5, <1>6, <1>7, <1>8, <1>9, <1>10, <1>11, <1>12,
     <1>13, <1>14, <1>15, <1>16, <1>17, <1>18, <1>19, <1>20, <1>21, <1>22, <1>23
     DEF Next, CreateStep, QueueStep, RemoveStep, RunStep

\* The original of every uploaded row is in the bucket, under every fault and race.
THEOREM OriginalsNeverDangle == Spec => []NoDanglingOriginal
<1>1. ObjectsInv => NoDanglingOriginal
  BY DEF ObjectsInv, NoDanglingOriginal
<1> QED
  BY <1>1, InitType, NextType, InitObjects, NextObjects, PTL DEF Spec

\* A READY upload has the address of its own original, and that is stored.
THEOREM ReadyIsPlayable == Spec => []PlayableWhenReady
<1>1. ObjectsInv => PlayableWhenReady
  BY DEF ObjectsInv, PlayableWhenReady, Exists
<1> QED
  BY <1>1, InitType, NextType, InitObjects, NextObjects, PTL DEF Spec

-----------------------------------------------------------------------------
\* Jobs and runs.  Every published video was enqueued or its handler was cut
\* off; nothing runs before; and a run, or a job at rest, that is past the
\* update of the status has left PROCESSING behind.
JobsInv ==
  /\ \A v \in Video :
       /\ creating[v] = "done" => job[v].state # "none"
       /\ creating[v] = "stranded" => faults["api"] > 0
       /\ job[v].state = "completed" => status[v] # "PROCESSING"
       /\ job[v].state = "failed" /\ job[v].stalls <= MaxStalled /\ faults["db"] = 0
            => status[v] # "PROCESSING"
  /\ \A s \in Slot :
       /\ running[s].at # "idle" => creating[running[s].video] = "done"
       /\ running[s].at = "marked" => status[running[s].video] # "PROCESSING"
       /\ running[s].at = "rethrown" /\ faults["db"] = 0
            => status[running[s].video] # "PROCESSING"

LEMMA InitJobs == Init => JobsInv
  BY DEF Init, JobsInv, AtRest, NoJob

\* Every step keeps jobs and runs in step with the rows.
LEMMA NextJobs == TypeInv /\ ObjectsInv /\ JobsInv /\ [Next]_vars => JobsInv'
<1> SUFFICES ASSUME TypeInv /\ ObjectsInv /\ JobsInv, [Next]_vars PROVE JobsInv'
  OBVIOUS
<1> USE NoneAssumption, AttemptsAssumption, BudgetAssumption
        DEF TypeInv, TypeOK, ActorsInv, ObjectsInv, JobsInv, Exists, Published, NoJob
<1>1. ASSUME NEW v \in Video, UploadFile(v)
      PROVE  JobsInv'
  BY <1>1 DEF UploadFile
<1>2. ASSUME NEW v \in Video, CreateVideo(v)
      PROVE  JobsInv'
  BY <1>2 DEF CreateVideo
<1>3. ASSUME NEW v \in Video, EndqueueProcessing(v)
      PROVE  JobsInv'
  BY <1>3 DEF EndqueueProcessing
<1>4. ASSUME NEW v \in Video, CreateInterrupted(v)
      PROVE  JobsInv'
  BY <1>4 DEF CreateInterrupted, Spend
<1>5. ASSUME NEW d \in Remover, NEW u \in User, NEW v \in Video,
             FindVideo(d, u, v)
      PROVE  JobsInv'
  BY <1>5 DEF FindVideo, AtRest
<1>6. ASSUME NEW d \in Remover, DeleteVideo(d)
      PROVE  JobsInv'
  BY <1>6 DEF DeleteVideo
<1>7. ASSUME NEW d \in Remover, DeleteMissing(d)
      PROVE  JobsInv'
  BY <1>7 DEF DeleteMissing, AtRest
<1>8. ASSUME NEW d \in Remover, RemoveObject(d)
      PROVE  JobsInv'
  BY <1>8 DEF RemoveObject, AtRest
<1>9. ASSUME NEW d \in Remover, RemoveObjectFails(d)
      PROVE  JobsInv'
  BY <1>9 DEF RemoveObjectFails, AtRest, Spend
<1>10. ASSUME NEW d \in Remover, RemoveInterrupted(d)
      PROVE  JobsInv'
  BY <1>10 DEF RemoveInterrupted, AtRest, Spend
<1>11. ASSUME NEW s \in Slot, NEW v \in Video, FetchJob(s, v)
      PROVE  JobsInv'
  BY <1>11 DEF FetchJob, AtRest
<1>12. ASSUME NEW s \in Slot, MarkReady(s)
      PROVE  JobsInv'
  BY <1>12 DEF MarkReady
<1>13. ASSUME NEW s \in Slot, ProcessThrows(s)
      PROVE  JobsInv'
  BY <1>13 DEF ProcessThrows
<1>14. ASSUME NEW s \in Slot, MarkFailed(s)
      PROVE  JobsInv'
  BY <1>14 DEF MarkFailed
<1>15. ASSUME NEW s \in Slot, MarkFailedMissing(s)
      PROVE  JobsInv'
  BY <1>15 DEF MarkFailedMissing
<1>16. ASSUME NEW s \in Slot, MarkFailedRejected(s)
      PROVE  JobsInv'
  BY <1>16 DEF MarkFailedRejected, Spend
<1>17. ASSUME NEW s \in Slot, CompleteJob(s)
      PROVE  JobsInv'
  BY <1>17 DEF CompleteJob, HoldsLock, Rest, AtRest
<1>18. ASSUME NEW s \in Slot, FailJob(s)
      PROVE  JobsInv'
  <2>1. UNCHANGED <<status, creating, faults>>
    BY <1>18 DEF FailJob
  <2>2. \A r \in Slot : running'[r] = running[r] \/ running'[r].at = "idle"
    BY <1>18 DEF FailJob, Rest, AtRest
  <2>3. CASE HoldsLock(s)
    <3> DEFINE v == running[s].video
    <3>1. v \in Video
      BY <1>18 DEF FailJob
    <3>2. /\ \A u \in Video : u # v => job'[u] = job[u]
          /\ job'[v].state \in {"delayed", "failed"}
          /\ job'[v].stalls = job[v].stalls
      BY <1>18, <2>3, <3>1 DEF FailJob
    <3>3. faults["db"] = 0 => status[v] # "PROCESSING"
      BY <1>18 DEF FailJob
    <3>4. \A u \in Video :
            /\ creating[u] = "done" => job'[u].state # "none"
            /\ job'[u].state = "completed" => status[u] # "PROCESSING"
            /\ /\ job'[u].state = "failed"
               /\ job'[u].stalls <= MaxStalled
               /\ faults["db"] = 0
               => status[u] # "PROCESSING"
      BY <3>2, <3>3
    <3> QED
      BY <2>1, <2>2, <3>4
  <2>4. CASE ~HoldsLock(s)
    BY <1>18, <2>1, <2>2, <2>4 DEF FailJob
  <2> QED
    BY <2>3, <2>4
<1>19. ASSUME NEW s \in Slot, LockLost(s)
      PROVE  JobsInv'
  BY <1>19 DEF LockLost, HoldsLock, Spend
<1>20. ASSUME NEW v \in Video, PromoteDelayed(v)
      PROVE  JobsInv'
  BY <1>20 DEF PromoteDelayed
<1>21. ASSUME NEW v \in Video, RequeueStalled(v)
      PROVE  JobsInv'
  BY <1>21 DEF RequeueStalled
<1>22. ASSUME NEW w \in Worker, WorkerCrash(w)
      PROVE  JobsInv'
  BY <1>22 DEF WorkerCrash, AtRest, Spend
<1>23. CASE UNCHANGED vars
  BY <1>23 DEF vars
<1>q. QED
  BY <1>1, <1>2, <1>3, <1>4, <1>5, <1>6, <1>7, <1>8, <1>9, <1>10, <1>11, <1>12,
     <1>13, <1>14, <1>15, <1>16, <1>17, <1>18, <1>19, <1>20, <1>21, <1>22, <1>23
     DEF Next, CreateStep, QueueStep, RemoveStep, RunStep

\* No video is left in PROCESSING with nobody to process it, as long as create
\* was not cut off, every markFailed was accepted and the job did not stall
\* too often.
THEOREM ProcessingNeverForgotten == Spec => []ProcessingIsPending
<1>1. TypeInv /\ ObjectsInv /\ JobsInv => ProcessingIsPending
  BY DEF TypeInv, TypeOK, ObjectsInv, JobsInv, ProcessingIsPending, Outstanding,
         Exists, Published
<1> QED
  BY <1>1, InitType, NextType, InitObjects, NextObjects, InitJobs, NextJobs,
     PTL DEF Spec

-----------------------------------------------------------------------------
\* Verdicts.  Until a lock lapses a run holds the lock of its job, so that a
\* job has at most one run and a job at rest has none.
VerdictInv ==
  faults["lock"] = 0 =>
    /\ \A s \in Slot :
         /\ running[s].at # "idle" => job[running[s].video].lock = s
         /\ faults["db"] = 0 /\ Exists(running[s].video) =>
              /\ running[s].at = "marked" => status[running[s].video] = "READY"
              /\ running[s].at = "rethrown" => status[running[s].video] = "FAILED"
    /\ faults["db"] = 0 =>
         \A v \in Video : Exists(v) =>
           /\ job[v].state = "completed" => status[v] = "READY"
           /\ job[v].state = "failed" /\ job[v].attempts = Attempts
                => status[v] = "FAILED"

LEMMA InitVerdict == Init => VerdictInv
  BY DEF Init, VerdictInv, Exists, AtRest, NoJob

\* Every step keeps the verdicts.
LEMMA NextVerdict == TypeInv /\ JobsInv /\ VerdictInv /\ [Next]_vars => VerdictInv'
<1> SUFFICES ASSUME TypeInv /\ JobsInv /\ VerdictInv, [Next]_vars PROVE VerdictInv'
  OBVIOUS
<1> USE NoneAssumption, AttemptsAssumption, BudgetAssumption
        DEF TypeInv, TypeOK, ActorsInv, JobsInv, VerdictInv, Exists, NoJob
<1>1. ASSUME NEW v \in Video, UploadFile(v)
      PROVE  VerdictInv'
  BY <1>1 DEF UploadFile
<1>2. ASSUME NEW v \in Video, CreateVideo(v)
      PROVE  VerdictInv'
  BY <1>2 DEF CreateVideo
<1>3. ASSUME NEW v \in Video, EndqueueProcessing(v)
      PROVE  VerdictInv'
  BY <1>3 DEF EndqueueProcessing
<1>4. ASSUME NEW v \in Video, CreateInterrupted(v)
      PROVE  VerdictInv'
  BY <1>4 DEF CreateInterrupted, Spend
<1>5. ASSUME NEW d \in Remover, NEW u \in User, NEW v \in Video,
             FindVideo(d, u, v)
      PROVE  VerdictInv'
  BY <1>5 DEF FindVideo, AtRest
<1>6. ASSUME NEW d \in Remover, DeleteVideo(d)
      PROVE  VerdictInv'
  BY <1>6 DEF DeleteVideo
<1>7. ASSUME NEW d \in Remover, DeleteMissing(d)
      PROVE  VerdictInv'
  BY <1>7 DEF DeleteMissing, AtRest
<1>8. ASSUME NEW d \in Remover, RemoveObject(d)
      PROVE  VerdictInv'
  BY <1>8 DEF RemoveObject, AtRest
<1>9. ASSUME NEW d \in Remover, RemoveObjectFails(d)
      PROVE  VerdictInv'
  BY <1>9 DEF RemoveObjectFails, AtRest, Spend
<1>10. ASSUME NEW d \in Remover, RemoveInterrupted(d)
      PROVE  VerdictInv'
  BY <1>10 DEF RemoveInterrupted, AtRest, Spend
<1>11. ASSUME NEW s \in Slot, NEW v \in Video, FetchJob(s, v)
      PROVE  VerdictInv'
  BY <1>11 DEF FetchJob, AtRest
<1>12. ASSUME NEW s \in Slot, MarkReady(s)
      PROVE  VerdictInv'
  BY <1>12 DEF MarkReady
<1>13. ASSUME NEW s \in Slot, ProcessThrows(s)
      PROVE  VerdictInv'
  BY <1>13 DEF ProcessThrows
<1>14. ASSUME NEW s \in Slot, MarkFailed(s)
      PROVE  VerdictInv'
  BY <1>14 DEF MarkFailed
<1>15. ASSUME NEW s \in Slot, MarkFailedMissing(s)
      PROVE  VerdictInv'
  BY <1>15 DEF MarkFailedMissing
<1>16. ASSUME NEW s \in Slot, MarkFailedRejected(s)
      PROVE  VerdictInv'
  BY <1>16 DEF MarkFailedRejected, Spend
<1>17. ASSUME NEW s \in Slot, CompleteJob(s)
      PROVE  VerdictInv'
  BY <1>17 DEF CompleteJob, HoldsLock, Rest, AtRest
<1>18. ASSUME NEW s \in Slot, FailJob(s)
      PROVE  VerdictInv'
  <2> SUFFICES ASSUME faults["lock"] = 0 PROVE VerdictInv'
    BY <1>18 DEF FailJob
  <2> DEFINE v == running[s].video
  <2>1. v \in Video /\ job[v].lock = s /\ job[v].state = "active"
    BY <1>18 DEF FailJob
  <2>2. HoldsLock(s)
    BY <1>18, <2>1 DEF FailJob, HoldsLock
  <2>3. \A r \in Slot : running'[r].at # "idle" =>
          /\ running'[r] = running[r]
          /\ running[r].video # v
          /\ job'[running[r].video] = job[running[r].video]
    BY <1>18, <2>1, <2>2 DEF FailJob, Rest, AtRest
  <2>4. \A u \in Video : u # v => job'[u] = job[u]
    BY <1>18, <2>1, <2>2 DEF FailJob
  <2>5. job'[v].state \in {"delayed", "failed"}
    BY <1>18, <2>1, <2>2 DEF FailJob
  <2>6. faults["db"] = 0 /\ Exists(v) => status[v] = "FAILED"
    BY <1>18 DEF FailJob
  <2>7. UNCHANGED <<status, faults>>
    BY <1>18 DEF FailJob
  <2>8. \A r \in Slot :
          /\ running'[r].at # "idle" => job'[running'[r].video].lock = r
          /\ faults["db"] = 0 /\ Exists(running'[r].video) =>
               /\ running'[r].at = "marked" => status[running'[r].video] = "READY"
               /\ running'[r].at = "rethrown" => status[running'[r].video] = "FAILED"
    BY <2>3, <2>7
  <2>9. \A u \in Video : faults["db"] = 0 /\ Exists(u) =>
            /\ job'[u].state = "completed" => status[u] = "READY"
            /\ job'[u].state = "failed" /\ job'[u].attempts = Attempts
                 => status[u] = "FAILED"
    <3> TAKE u \in Video
    <3>1. CASE u = v
      BY <3>1, <2>5, <2>6
    <3>2. CASE u # v
      BY <3>2, <2>4
    <3> QED
      BY <3>1, <3>2
  <2> QED
    BY <2>7, <2>8, <2>9
<1>19. ASSUME NEW s \in Slot, LockLost(s)
      PROVE  VerdictInv'
  BY <1>19 DEF LockLost, HoldsLock, Spend
<1>20. ASSUME NEW v \in Video, PromoteDelayed(v)
      PROVE  VerdictInv'
  BY <1>20 DEF PromoteDelayed
<1>21. ASSUME NEW v \in Video, RequeueStalled(v)
      PROVE  VerdictInv'
  BY <1>21 DEF RequeueStalled
<1>22. ASSUME NEW w \in Worker, WorkerCrash(w)
      PROVE  VerdictInv'
  BY <1>22 DEF WorkerCrash, AtRest, Spend
<1>23. CASE UNCHANGED vars
  BY <1>23 DEF vars
<1>q. QED
  BY <1>1, <1>2, <1>3, <1>4, <1>5, <1>6, <1>7, <1>8, <1>9, <1>10, <1>11, <1>12,
     <1>13, <1>14, <1>15, <1>16, <1>17, <1>18, <1>19, <1>20, <1>21, <1>22, <1>23
     DEF Next, CreateStep, QueueStep, RemoveStep, RunStep

\* BullMQ's verdict on a job and the status of the video agree.
THEOREM VerdictsAgree == Spec => []VerdictMatchesJob
<1>1. VerdictInv => VerdictMatchesJob
  BY DEF VerdictInv, VerdictMatchesJob
<1> QED
  BY <1>1, InitType, NextType, InitObjects, NextObjects, InitJobs, NextJobs,
     InitVerdict, NextVerdict, PTL DEF Spec

-----------------------------------------------------------------------------
\* Orphans.  A step leaks nothing, or it is one of the faults that count and
\* leaks at most the object its handler was about to deal with.
Leaks == faults["api"] + faults["storage"]

LeakStep ==
  \/ Orphans' \subseteq Orphans /\ Leaks' >= Leaks
  \/ \E v \in Video : Orphans' \subseteq Orphans \union {v} /\ Leaks' = Leaks + 1

\* What each action does to the orphans.
LEMMA StepLeaks == TypeInv /\ ObjectsInv /\ [Next]_vars => LeakStep
<1> SUFFICES ASSUME TypeInv, ObjectsInv, [Next]_vars PROVE LeakStep
  OBVIOUS
<1> USE NoneAssumption DEF TypeInv, TypeOK, ActorsInv, ObjectsInv, Exists, Published,
        LeakStep, Leaks, Orphans
<1>1. ASSUME NEW v \in Video, UploadFile(v)
      PROVE  LeakStep
  BY <1>1 DEF UploadFile
<1>2. ASSUME NEW v \in Video, CreateVideo(v)
      PROVE  LeakStep
  BY <1>2 DEF CreateVideo
<1>3. ASSUME NEW v \in Video, EndqueueProcessing(v)
      PROVE  LeakStep
  BY <1>3 DEF EndqueueProcessing
<1>4. ASSUME NEW v \in Video, CreateInterrupted(v)
      PROVE  LeakStep
  BY <1>4 DEF CreateInterrupted, Spend
<1>5. ASSUME NEW d \in Remover, NEW u \in User, NEW v \in Video,
             FindVideo(d, u, v)
      PROVE  LeakStep
  BY <1>5 DEF FindVideo, AtRest
<1>6. ASSUME NEW d \in Remover, DeleteVideo(d)
      PROVE  LeakStep
  BY <1>6 DEF DeleteVideo
<1>7. ASSUME NEW d \in Remover, DeleteMissing(d)
      PROVE  LeakStep
  BY <1>7 DEF DeleteMissing, AtRest
<1>8. ASSUME NEW d \in Remover, RemoveObject(d)
      PROVE  LeakStep
  BY <1>8 DEF RemoveObject, AtRest
<1>9. ASSUME NEW d \in Remover, RemoveObjectFails(d)
      PROVE  LeakStep
  <2> DEFINE v == removing[d].video
  <2>1. v \in Video
    BY <1>9 DEF RemoveObjectFails
  <2>2. Orphans' \subseteq Orphans \union {v}
    BY <1>9, <2>1 DEF RemoveObjectFails, AtRest
  <2>3. Leaks' = Leaks + 1
    BY <1>9 DEF RemoveObjectFails, Spend
  <2> QED
    BY <2>1, <2>2, <2>3
<1>10. ASSUME NEW d \in Remover, RemoveInterrupted(d)
      PROVE  LeakStep
  BY <1>10 DEF RemoveInterrupted, AtRest, Spend
<1>11. ASSUME NEW s \in Slot, NEW v \in Video, FetchJob(s, v)
      PROVE  LeakStep
  BY <1>11 DEF FetchJob, AtRest
<1>12. ASSUME NEW s \in Slot, MarkReady(s)
      PROVE  LeakStep
  BY <1>12 DEF MarkReady
<1>13. ASSUME NEW s \in Slot, ProcessThrows(s)
      PROVE  LeakStep
  BY <1>13 DEF ProcessThrows
<1>14. ASSUME NEW s \in Slot, MarkFailed(s)
      PROVE  LeakStep
  BY <1>14 DEF MarkFailed
<1>15. ASSUME NEW s \in Slot, MarkFailedMissing(s)
      PROVE  LeakStep
  BY <1>15 DEF MarkFailedMissing
<1>16. ASSUME NEW s \in Slot, MarkFailedRejected(s)
      PROVE  LeakStep
  BY <1>16 DEF MarkFailedRejected, Spend
<1>17. ASSUME NEW s \in Slot, CompleteJob(s)
      PROVE  LeakStep
  BY <1>17 DEF CompleteJob, HoldsLock, Rest, AtRest
<1>18. ASSUME NEW s \in Slot, FailJob(s)
      PROVE  LeakStep
  BY <1>18 DEF FailJob, HoldsLock, Rest, AtRest
<1>19. ASSUME NEW s \in Slot, LockLost(s)
      PROVE  LeakStep
  BY <1>19 DEF LockLost, HoldsLock, Spend
<1>20. ASSUME NEW v \in Video, PromoteDelayed(v)
      PROVE  LeakStep
  BY <1>20 DEF PromoteDelayed
<1>21. ASSUME NEW v \in Video, RequeueStalled(v)
      PROVE  LeakStep
  BY <1>21 DEF RequeueStalled
<1>22. ASSUME NEW w \in Worker, WorkerCrash(w)
      PROVE  LeakStep
  BY <1>22 DEF WorkerCrash, AtRest, Spend
<1>23. CASE UNCHANGED vars
  BY <1>23 DEF vars
<1>q. QED
  BY <1>1, <1>2, <1>3, <1>4, <1>5, <1>6, <1>7, <1>8, <1>9, <1>10, <1>11, <1>12,
     <1>13, <1>14, <1>15, <1>16, <1>17, <1>18, <1>19, <1>20, <1>21, <1>22, <1>23
     DEF Next, CreateStep, QueueStep, RemoveStep, RunStep

OrphanInv == IsFiniteSet(Orphans) /\ OrphansAreCounted

LEMMA InitOrphans == Init => OrphanInv
<1> SUFFICES ASSUME Init PROVE OrphanInv
  OBVIOUS
<1>1. Orphans = {} /\ faults["api"] = 0 /\ faults["storage"] = 0
  BY DEF Init, Orphans
<1> QED
  BY <1>1, FS_EmptySet DEF OrphanInv, OrphansAreCounted

\* A step that leaks at most one object, and counts it, keeps the bound.
LEMMA NextOrphans == TypeInv /\ TypeInv' /\ OrphanInv /\ LeakStep => OrphanInv'
<1> SUFFICES ASSUME TypeInv, TypeInv', OrphanInv, LeakStep PROVE OrphanInv'
  OBVIOUS
<1>1. Leaks \in Nat /\ Cardinality(Orphans) \in Nat /\ Cardinality(Orphans) <= Leaks
  BY FS_CardinalityType DEF TypeInv, TypeOK, OrphanInv, OrphansAreCounted, Leaks
<1>2. CASE Orphans' \subseteq Orphans /\ Leaks' >= Leaks
  <2>1. IsFiniteSet(Orphans') /\ Cardinality(Orphans') <= Cardinality(Orphans)
    BY <1>2, FS_Subset DEF OrphanInv
  <2>2. Cardinality(Orphans') \in Nat /\ Leaks' \in Nat
    BY <2>1, FS_CardinalityType DEF TypeInv, TypeOK, Leaks
  <2> QED
    BY <1>1, <1>2, <2>1, <2>2 DEF OrphanInv, OrphansAreCounted, Leaks
<1>3. ASSUME NEW v \in Video,
             Orphans' \subseteq Orphans \union {v}, Leaks' = Leaks + 1
      PROVE  OrphanInv'
  <2>1. /\ IsFiniteSet(Orphans \union {v})
        /\ Cardinality(Orphans \union {v}) <= Cardinality(Orphans) + 1
    <3>1. IsFiniteSet(Orphans)
      BY DEF OrphanInv
    <3>2. /\ IsFiniteSet(Orphans \union {v})
          /\ Cardinality(Orphans \union {v}) =
               IF v \in Orphans THEN Cardinality(Orphans) ELSE Cardinality(Orphans) + 1
      BY <3>1, FS_AddElement
    <3> QED
      BY <1>1, <3>2
  <2>2. /\ IsFiniteSet(Orphans')
        /\ Cardinality(Orphans') <= Cardinality(Orphans \union {v})
    BY <1>3, <2>1, FS_Subset
  <2>3. Cardinality(Orphans') \in Nat /\ Cardinality(Orphans \union {v}) \in Nat
    BY <2>1, <2>2, FS_CardinalityType
  <2> QED
    BY <1>1, <1>3, <2>1, <2>2, <2>3 DEF OrphanInv, OrphansAreCounted, Leaks
<1> QED
  BY <1>2, <1>3 DEF LeakStep

\* create and remove leak at most one object per fault, for any number of
\* concurrent uploads and deletions.
THEOREM OrphansBounded == Spec => []OrphansAreCounted
<1>1. OrphanInv => OrphansAreCounted
  BY DEF OrphanInv
<1> QED
  BY <1>1, InitType, NextType, InitObjects, NextObjects, InitOrphans, StepLeaks,
     NextOrphans, PTL DEF Spec

-----------------------------------------------------------------------------
\* Refinement.  A step of the code is seen by the client as a step of
\* VideoPromise: it publishes, settles or removes one video, or it changes no
\* phase and opens the processing of no video.

\* A step that the client does not see closes what it leaves without a worker.
LEMMA StepCloses ==
  ASSUME \A v \in Video :
           /\ status'[v] = status[v]
           /\ creating'[v] \in Unpublished <=> creating[v] \in Unpublished
           /\ Outstanding(v)' => Outstanding(v)
  PROVE  Promise!Next
<1> DEFINE gone == openBar \ openBar'
<1>1. phaseBar' = phaseBar
  BY DEF phaseBar, Exists
<1>2. openBar' \subseteq openBar
  BY DEF openBar
<1>3. gone \in SUBSET openBar /\ openBar' = openBar \ gone
  BY <1>2
<1> HIDE DEF gone
<1>4. Promise!Close(gone)
  BY <1>1, <1>3 DEF Promise!Close
<1> QED BY <1>3, <1>4 DEF Promise!Next

\* Job and run of every video go on, or come to rest.
LEMMA QueueCloses ==
  ASSUME TypeInv, UNCHANGED <<status, creating>>,
         \A v \in Video :
           job'[v].state \in {"wait", "active", "delayed"} => Outstanding(v),
         \A s \in Slot, v \in Video : running'[s].video = v => Outstanding(v)
  PROVE  Promise!Next
<1>1. \A v \in Video : Outstanding(v)' => Outstanding(v)
  BY DEF Outstanding
<1> QED BY <1>1, StepCloses

\* A run writes its verdict.
LEMMA RunSettles ==
  ASSUME TypeInv, ObjectsInv, NEW s \in Slot, NEW verdict \in {"READY", "FAILED"},
         running[s].at # "idle", status[running[s].video] # "absent",
         status' = [status EXCEPT ![running[s].video] = verdict],
         UNCHANGED <<creating, job>>,
         \A r \in Slot : running'[r].video = running[r].video
  PROVE  Promise!Next
<1> DEFINE v == running[s].video
<1>1. v \in Video /\ status \in [Video -> VideoStatus \union {"absent"}]
      /\ status[v] \in VideoStatus /\ creating[v] \notin Unpublished
  BY DEF TypeInv, TypeOK, ActorsInv, ObjectsInv, Exists, Unpublished, Published
<1>2. Outstanding(v)
  BY DEF Outstanding
<1>3. openBar' = openBar
  BY DEF openBar, Outstanding
<1> HIDE DEF v
<1>4. phaseBar' = [phaseBar EXCEPT ![v] = verdict]
  BY <1>1 DEF phaseBar, Exists, v
<1>5. phaseBar[v] = status[v] /\ v \in openBar
  BY <1>1, <1>2 DEF phaseBar, openBar, Exists
<1>6. Promise!Settle(v)
  BY <1>1, <1>3, <1>4, <1>5 DEF Promise!Settle, Promise!Live, Promise!Verdict
<1> QED BY <1>1, <1>6 DEF Promise!Next

LEMMA NextPromise == TypeInv /\ ObjectsInv /\ [Next]_vars => [Promise!Next]_Promise!promiseVars
<1> SUFFICES ASSUME TypeInv, ObjectsInv, [Next]_vars
             PROVE  Promise!Next
  OBVIOUS
<1>t. /\ status \in [Video -> VideoStatus \union {"absent"}] /\ creating \in [Video -> CreateStage]
      /\ job \in [Video -> JobType] /\ running \in [Slot -> [at : RunStage, video : Video \union {None}]]
      /\ \A s \in Slot : running[s].at # "idle" => running[s].video \in Video
      /\ \A s \in Slot : running[s].at = "idle" => running[s].video = None
      /\ \A v \in Video : job[v].lock # None => job[v].state = "active"
      /\ None \notin Video
  BY NoneAssumption DEF TypeInv, TypeOK, ActorsInv, JobType
<1>r. \A s \in Slot, v \in Video : running[s].video = v => Outstanding(v)
  BY DEF Outstanding
<1>j. \A v \in Video : job[v].state \in {"wait", "active", "delayed"} => Outstanding(v)
  BY DEF Outstanding
<1>1. ASSUME NEW v \in Video, UploadFile(v) PROVE Promise!Next
  <2>1. \A w \in Video : /\ status'[w] = status[w]
                         /\ creating'[w] \in Unpublished <=> creating[w] \in Unpublished
                         /\ Outstanding(w)' => Outstanding(w)
    BY <1>1, <1>t DEF UploadFile, Unpublished, Outstanding
  <2> QED BY <2>1, StepCloses
<1>2. ASSUME NEW v \in Video, CreateVideo(v) PROVE Promise!Next
  <2>1. /\ creating[v] = "uploaded" /\ creating'[v] = "created" /\ status'[v] = "PROCESSING"
        /\ \A w \in Video : w # v => creating'[w] = creating[w] /\ status'[w] = status[w]
        /\ job' = job /\ running' = running
    BY <1>2, <1>t DEF CreateVideo
  <2>2. phaseBar' = [phaseBar EXCEPT ![v] = "PROCESSING"] /\ phaseBar[v] = "none"
    BY <2>1 DEF phaseBar, Exists, Unpublished
  <2>3. \A w \in Video : Outstanding(w)' <=> w = v \/ Outstanding(w)
    BY <2>1 DEF Outstanding
  <2>4. openBar' = openBar \union {v}
    BY <2>3 DEF openBar
  <2>5. Promise!Publish(v)
    BY <2>2, <2>4 DEF Promise!Publish
  <2> QED BY <2>5 DEF Promise!Next
<1>3. ASSUME NEW v \in Video, EndqueueProcessing(v) PROVE Promise!Next
  <2>1. /\ creating[v] = "created" /\ creating'[v] = "done"
        /\ \A w \in Video : w # v => creating'[w] = creating[w] /\ job'[w] = job[w]
        /\ status' = status /\ running' = running
    BY <1>3, <1>t DEF EndqueueProcessing
  <2>2. \A w \in Video : /\ status'[w] = status[w]
                         /\ creating'[w] \in Unpublished <=> creating[w] \in Unpublished
                         /\ Outstanding(w)' => Outstanding(w)
    BY <2>1 DEF Unpublished, Outstanding
  <2> QED BY <2>2, StepCloses
<1>4. ASSUME NEW v \in Video, CreateInterrupted(v) PROVE Promise!Next
  <2>1. \A w \in Video : /\ status'[w] = status[w]
                         /\ creating'[w] \in Unpublished <=> creating[w] \in Unpublished
                         /\ Outstanding(w)' => Outstanding(w)
    BY <1>4, <1>t DEF CreateInterrupted, Unpublished, Outstanding
  <2> QED BY <2>1, StepCloses
<1>5. ASSUME NEW d \in Remover, DeleteVideo(d) PROVE Promise!Next
  <2> DEFINE v == removing[d].video
  <2>1. /\ v \in Video /\ status[v] # "absent" /\ status'[v] = "absent"
        /\ \A w \in Video : w # v => status'[w] = status[w]
        /\ UNCHANGED <<creating, job, running>>
    BY <1>5, <1>t DEF DeleteVideo, TypeInv, ActorsInv
  <2>2. creating[v] \notin Unpublished
    BY <2>1 DEF ObjectsInv, Exists, Published, Unpublished
  <2> HIDE DEF v
  <2>3. phaseBar' = [phaseBar EXCEPT ![v] = "gone"] /\ phaseBar[v] = status[v]
    BY <2>1, <2>2 DEF phaseBar, Exists
  <2>4. openBar' = openBar
    BY <2>1 DEF openBar, Outstanding
  <2>5. Promise!Remove(v)
    BY <2>1, <2>3, <2>4, <1>t DEF Promise!Remove, Promise!Live, Promise!Verdict
  <2> QED BY <2>1, <2>5 DEF Promise!Next
<1>6. ASSUME UNCHANGED <<status, creating, job, running>> PROVE Promise!Next
  BY <1>6, <1>r, <1>j, QueueCloses
<1>7. ASSUME NEW s \in Slot, NEW v \in Video, FetchJob(s, v) PROVE Promise!Next
  <2>1. /\ job[v].state = "wait" /\ running'[s].video = v
        /\ \A r \in Slot : r # s => running'[r] = running[r]
        /\ \A w \in Video : w # v => job'[w] = job[w]
        /\ UNCHANGED <<status, creating>>
    BY <1>7, <1>t DEF FetchJob
  <2> QED BY <2>1, <1>r, <1>j, QueueCloses
<1>8. ASSUME NEW s \in Slot, MarkReady(s) PROVE Promise!Next
  <2>1. \A r \in Slot : running'[r].video = running[r].video
    BY <1>8, <1>t DEF MarkReady
  <2> QED BY <1>8, <2>1, RunSettles DEF MarkReady
<1>9. ASSUME NEW s \in Slot, MarkFailed(s) PROVE Promise!Next
  <2>1. \A r \in Slot : running'[r].video = running[r].video
    BY <1>9, <1>t DEF MarkFailed
  <2> QED BY <1>9, <2>1, RunSettles DEF MarkFailed
<1>10. ASSUME NEW s \in Slot,
              ProcessThrows(s) \/ MarkFailedMissing(s) \/ MarkFailedRejected(s)
       PROVE  Promise!Next
  <2>1. \A r \in Slot : running'[r].video = running[r].video
    BY <1>10, <1>t DEF ProcessThrows, MarkFailedMissing, MarkFailedRejected
  <2>2. UNCHANGED <<status, creating, job>>
    BY <1>10 DEF ProcessThrows, MarkFailedMissing, MarkFailedRejected
  <2> QED BY <2>1, <2>2, <1>r, <1>j, QueueCloses
<1>11. ASSUME NEW s \in Slot, CompleteJob(s) \/ FailJob(s) PROVE Promise!Next
  <2>1. \A r \in Slot : running'[r] = running[r] \/ running'[r].video = None
    BY <1>11, <1>t DEF CompleteJob, FailJob, Rest, AtRest
  <2>2. \A w \in Video : job'[w] = job[w] \/ w = running[s].video
    <3>1. CASE CompleteJob(s)
      BY <3>1, <1>t DEF CompleteJob
    <3>2. CASE FailJob(s)
      BY <3>2, <1>t DEF FailJob
    <3> QED BY <1>11, <3>1, <3>2
  <2>3. UNCHANGED <<status, creating>>
    BY <1>11 DEF CompleteJob, FailJob
  <2> QED BY <2>1, <2>2, <2>3, <1>t, <1>r, <1>j, QueueCloses
<1>12. ASSUME NEW s \in Slot, LockLost(s) PROVE Promise!Next
  <2>1. \A w \in Video : job'[w].state = job[w].state
    BY <1>12, <1>t DEF LockLost, JobType
  <2> QED BY <1>12, <2>1, <1>r, <1>j, QueueCloses DEF LockLost
<1>13. ASSUME NEW v \in Video, PromoteDelayed(v) \/ RequeueStalled(v) PROVE Promise!Next
  <2>1. job[v].state \in {"delayed", "active"}
        /\ \A w \in Video : w # v => job'[w] = job[w]
    BY <1>13, <1>t DEF PromoteDelayed, RequeueStalled
  <2>2. UNCHANGED <<status, creating, running>>
    BY <1>13 DEF PromoteDelayed, RequeueStalled
  <2> QED BY <2>1, <2>2, <1>r, <1>j, QueueCloses
<1>14. ASSUME NEW w \in Worker, WorkerCrash(w) PROVE Promise!Next
  <2>1. \A s \in Slot : running'[s] = running[s] \/ running'[s].video = None
    BY <1>14 DEF WorkerCrash, AtRest
  <2>2. \A v \in Video : job'[v].state = job[v].state
    BY <1>14, <1>t DEF WorkerCrash, JobType
  <2>3. UNCHANGED <<status, creating>>
    BY <1>14 DEF WorkerCrash
  <2> QED BY <2>1, <2>2, <2>3, <1>t, <1>r, <1>j, QueueCloses
<1>15. ASSUME NEW d \in Remover,
              \/ DeleteMissing(d) \/ RemoveObject(d) \/ RemoveObjectFails(d) \/ RemoveInterrupted(d)
              \/ \E u \in User, v \in Video : FindVideo(d, u, v)
       PROVE  Promise!Next
  BY <1>15, <1>6 DEF DeleteMissing, RemoveObject, RemoveObjectFails, RemoveInterrupted, FindVideo
<1>16. CASE UNCHANGED vars
  BY <1>16, <1>6 DEF vars
<1> QED
  BY <1>1, <1>2, <1>3, <1>4, <1>5, <1>7, <1>8, <1>9, <1>10, <1>11, <1>12, <1>13,
     <1>14, <1>15, <1>16
     DEF Next, CreateStep, QueueStep, RemoveStep, RunStep

LEMMA InitPromise == Init => Promise!Init
<1> SUFFICES ASSUME Init PROVE Promise!Init
  OBVIOUS
<1>1. phaseBar = [v \in Video |-> "none"]
  BY DEF Init, phaseBar, Unpublished
<1>2. openBar = {}
  BY NoneAssumption DEF Init, openBar, Outstanding, NoJob, AtRest
<1> QED BY <1>1, <1>2 DEF Promise!Init

\* Whoever polls GET /videos/:id sees what VideoPromise says, for any number of
\* uploads, deletions, workers and faults: a late markReady or markFailed never
\* brings a deleted video back, no status changes once nobody works on the
\* video, and PROCESSING never returns.
THEOREM PromiseKept == Spec => ImplementsPromise
<1>1. Spec => Promise!Spec
  BY InitType, NextType, InitObjects, NextObjects, InitPromise, NextPromise, PTL
     DEF Spec, Promise!Spec
<1> QED BY <1>1 DEF ImplementsPromise
=============================================================================
