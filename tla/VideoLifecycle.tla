--------------------------- MODULE VideoLifecycle ---------------------------
(***************************************************************************)
(* The life of a video, from POST /videos to DELETE /videos/:id.  Three    *)
(* kinds of actors share the table "videos", the MinIO bucket and the      *)
(* BullMQ queue "video_queue":                                             *)
(*                                                                         *)
(*   - the API handlers of VideosService.create, one per upload;           *)
(*   - the API handlers of VideosService.remove;                           *)
(*   - the slots of the worker processes, which run processVideoJob.       *)
(*                                                                         *)
(* Every await of the source is a point where other actors may run and     *)
(* where the process may die, so each awaited call is an action.           *)
(*                                                                         *)
(* randomUUID() and the uuid() default of videos.id never repeat, so the   *)
(* upload that draws them stands for both: video v is the row with id v,   *)
(* and object v is videos/<owner of v>/<uuid>.<ext>, its original_key.     *)
(***************************************************************************)
EXTENDS Naturals, FiniteSets, TLC

CONSTANTS
  Video,        \* uploads, and so the video ids and object keys they create
  User,         \* users that send requests
  Admin,        \* the users whose token carries role ADMIN
  Remover,      \* concurrent handlers of DELETE /videos/:id
  Worker,       \* worker processes
  Slot,         \* concurrent job slots of all the workers
  host,         \* the worker each slot belongs to, "concurrency" slots each
  None,         \* no video, no slot, no URL
  Attempts,     \* "attempts" of the job options
  MaxStalled,   \* BullMQ's maxStalledCount, not set by worker.ts
  FaultBudget   \* how many faults of each kind a behaviour may contain

\* The faults a behaviour may contain: an API handler that dies or whose
\* awaited call rejects, a rejected update in markFailed, a failed
\* removeObject, a worker that dies, a job lock that is not renewed in time.
Fault == {"api", "db", "storage", "worker", "lock"}

ASSUME AdminAssumption == Admin \subseteq User
ASSUME HostAssumption == host \in [Slot -> Worker]
ASSUME NoneAssumption == None \notin Video \union Slot
ASSUME AttemptsAssumption == Attempts \in Nat \ {0} /\ MaxStalled \in Nat
ASSUME BudgetAssumption == FaultBudget \in [Fault -> Nat]

VARIABLES
  status,       \* column status of table videos, "absent" when no row
  owner,        \* the user of upload v, column owner_id once there is a row
  playbackUrl,  \* column playback_url (thumbnail and duration go with it)
  bucket,       \* the keys of the objects in the bucket
  creating,     \* how far the create handler of each upload has come
  removing,     \* how far each remove handler has come, and on which video
  job,          \* the BullMQ job of each video
  running,      \* how far each slot has come in processVideoJob
  faults        \* how many faults of each kind have happened

vars == <<status, owner, playbackUrl, bucket, creating, removing, job,
          running, faults>>
videosTable == <<status, playbackUrl>>

VideoStatus == {"PROCESSING", "READY", "FAILED"}

\* StorageService.urlFor: the public address of an object.
urlFor(key) == <<"publicUrl", "bucket", key>>

NoJob   == [state |-> "none", attempts |-> 0, stalls |-> 0, lock |-> None]
AtRest  == [at |-> "idle", video |-> None]

\* One fault of this kind happens now, within the budget.
Spend(kind) ==
  /\ faults[kind] < FaultBudget[kind]
  /\ faults' = [faults EXCEPT ![kind] = @ + 1]

Init ==
  /\ status = [v \in Video |-> "absent"]
  /\ owner \in [Video -> User]
  /\ playbackUrl = [v \in Video |-> None]
  /\ bucket = {}
  /\ creating = [v \in Video |-> "idle"]
  /\ removing = [d \in Remover |-> AtRest]
  /\ job = [v \in Video |-> NoJob]
  /\ running = [s \in Slot |-> AtRest]
  /\ faults = [kind \in Fault |-> 0]

(***************************************************************************)
(* VideosService.create                                                    *)
(***************************************************************************)

\* assertVideoFile let the file pass and storage.uploadFile stored it.
UploadFile(v) ==
  /\ creating[v] = "idle"
  /\ bucket' = bucket \union {v}
  /\ creating' = [creating EXCEPT ![v] = "uploaded"]
  /\ UNCHANGED <<videosTable, owner, removing, job, running, faults>>

\* prisma.video.create
CreateVideo(v) ==
  /\ creating[v] = "uploaded"
  /\ status' = [status EXCEPT ![v] = "PROCESSING"]
  /\ creating' = [creating EXCEPT ![v] = "created"]
  /\ UNCHANGED <<owner, playbackUrl, bucket, removing, job, running, faults>>

\* The add to the queue is forgotten (not part of Next).
EndqueueNothing(v) ==
  /\ creating[v] = "created"
  /\ creating' = [creating EXCEPT ![v] = "done"]
  /\ UNCHANGED <<videosTable, owner, bucket, removing, job, running, faults>>

\* videoProducer.endqueueProcessing.  The row is public since CreateVideo and
\* may be gone by now: the job is added all the same.
EndqueueProcessing(v) ==
  /\ creating[v] = "created"
  /\ job' = [job EXCEPT ![v].state = "wait"]
  /\ creating' = [creating EXCEPT ![v] = "done"]
  /\ UNCHANGED <<videosTable, owner, bucket, removing, running, faults>>

\* An awaited call of create rejects, or the API process dies.  Nothing undoes
\* the earlier steps, and a client that tries again is another upload.
CreateInterrupted(v) ==
  /\ Spend("api")
  /\ \/ /\ creating[v] = "uploaded"
        /\ creating' = [creating EXCEPT ![v] = "abandoned"]
     \/ /\ creating[v] = "created"
        /\ creating' = [creating EXCEPT ![v] = "stranded"]
  /\ UNCHANGED <<videosTable, owner, bucket, removing, job, running>>

(***************************************************************************)
(* VideosService.remove                                                    *)
(***************************************************************************)

\* assertOwnerOrAdmin read the row and let user u pass; the other outcomes
\* answer 404 or 403 and change nothing.
FindVideo(d, u, v) ==
  /\ removing[d] = AtRest
  /\ status[v] # "absent"
  /\ owner[v] = u \/ u \in Admin
  /\ removing' = [removing EXCEPT ![d] = [at |-> "found", video |-> v]]
  /\ UNCHANGED <<videosTable, owner, bucket, creating, job, running, faults>>

\* The handler returns without storage.remove (not part of Next).
DeleteVideoOnly(d) ==
  LET v == removing[d].video IN
  /\ removing[d].at = "found"
  /\ status[v] # "absent"
  /\ status' = [status EXCEPT ![v] = "absent"]
  /\ playbackUrl' = [playbackUrl EXCEPT ![v] = None]
  /\ removing' = [removing EXCEPT ![d] = AtRest]
  /\ UNCHANGED <<owner, bucket, creating, job, running, faults>>

\* prisma.video.delete, the row is there.
DeleteVideo(d) ==
  LET v == removing[d].video IN
  /\ removing[d].at = "found"
  /\ status[v] # "absent"
  /\ status' = [status EXCEPT ![v] = "absent"]
  /\ playbackUrl' = [playbackUrl EXCEPT ![v] = None]
  /\ removing' = [removing EXCEPT ![d].at = "deleted"]
  /\ UNCHANGED <<owner, bucket, creating, job, running, faults>>

\* prisma.video.delete, another handler deleted the row since it was read.
DeleteMissing(d) ==
  /\ removing[d].at = "found"
  /\ status[removing[d].video] = "absent"
  /\ removing' = [removing EXCEPT ![d] = AtRest]
  /\ UNCHANGED <<videosTable, owner, bucket, creating, job, running, faults>>

\* The object goes before the row (not part of Next).
RemoveObjectFirst(d) ==
  /\ removing[d].at # "idle"
  /\ bucket' = bucket \ {removing[d].video}
  /\ UNCHANGED <<videosTable, owner, creating, removing, job, running, faults>>

\* storage.remove(originalKey), then the answer.
RemoveObject(d) ==
  /\ removing[d].at = "deleted"
  /\ bucket' = bucket \ {removing[d].video}
  /\ removing' = [removing EXCEPT ![d] = AtRest]
  /\ UNCHANGED <<videosTable, owner, creating, job, running, faults>>

\* storage.remove catches the error of removeObject, and the handler answers
\* success.
RemoveObjectFails(d) ==
  /\ Spend("storage")
  /\ removing[d].at = "deleted"
  /\ removing' = [removing EXCEPT ![d] = AtRest]
  /\ UNCHANGED <<videosTable, owner, bucket, creating, job, running>>

\* The delete rejects, or the API process dies before or after it.
RemoveInterrupted(d) ==
  /\ Spend("api")
  /\ removing[d] # AtRest
  /\ removing' = [removing EXCEPT ![d] = AtRest]
  /\ UNCHANGED <<videosTable, owner, bucket, creating, job, running>>

(***************************************************************************)
(* The worker: BullMQ's bookkeeping around processVideoJob                 *)
(***************************************************************************)

HoldsLock(s) == running[s].at # "idle" /\ job[running[s].video].lock = s
Rest(s) == running' = [running EXCEPT ![s] = AtRest]

\* A free slot takes a waiting job and locks it.
FetchJob(s, v) ==
  /\ running[s] = AtRest
  /\ job[v].state = "wait"
  /\ job' = [job EXCEPT ![v].state = "active", ![v].lock = s]
  /\ running' = [running EXCEPT ![s] = [at |-> "processing", video |-> v]]
  /\ UNCHANGED <<videosTable, owner, bucket, creating, removing, faults>>

\* The update writes the status without "...data" (not part of Next).
MarkReadyStatusOnly(s) ==
  LET v == running[s].video IN
  /\ running[s].at = "processing"
  /\ status[v] # "absent"
  /\ status' = [status EXCEPT ![v] = "READY"]
  /\ running' = [running EXCEPT ![s].at = "marked"]
  /\ UNCHANGED <<playbackUrl, owner, bucket, creating, removing, job, faults>>

\* The update is an upsert, which makes a row again (not part of Next).
MarkReadyUpsert(s) ==
  LET v == running[s].video IN
  /\ running[s].at = "processing"
  /\ status' = [status EXCEPT ![v] = "READY"]
  /\ playbackUrl' = [playbackUrl EXCEPT ![v] = urlFor(v)]
  /\ running' = [running EXCEPT ![s].at = "marked"]
  /\ UNCHANGED <<owner, bucket, creating, removing, job, faults>>

\* The update of deps.videos.markReady, the row is there.
MarkReady(s) ==
  LET v == running[s].video IN
  /\ running[s].at = "processing"
  /\ status[v] # "absent"
  /\ status' = [status EXCEPT ![v] = "READY"]
  /\ playbackUrl' = [playbackUrl EXCEPT ![v] = urlFor(v)]
  /\ running' = [running EXCEPT ![s].at = "marked"]
  /\ UNCHANGED <<owner, bucket, creating, removing, job, faults>>

\* Something in the try block rejects: updateProgress, the update (no row:
\* P2025, or the database), the awaited cache invalidation of markReady.
ProcessThrows(s) ==
  /\ running[s].at \in {"processing", "marked"}
  /\ running' = [running EXCEPT ![s].at = "caught"]
  /\ UNCHANGED <<videosTable, owner, bucket, creating, removing, job, faults>>

\* The catch block rethrows without the update (not part of Next).
MarkNothing(s) ==
  /\ running[s].at = "caught"
  /\ running' = [running EXCEPT ![s].at = "rethrown"]
  /\ UNCHANGED <<videosTable, owner, bucket, creating, removing, job, faults>>

\* deps.videos.markFailed in the catch block, the row is there.
MarkFailed(s) ==
  LET v == running[s].video IN
  /\ running[s].at = "caught"
  /\ status[v] # "absent"
  /\ status' = [status EXCEPT ![v] = "FAILED"]
  /\ running' = [running EXCEPT ![s].at = "rethrown"]
  /\ UNCHANGED <<playbackUrl, owner, bucket, creating, removing, job, faults>>

\* markFailed rejects because the row is gone.
MarkFailedMissing(s) ==
  /\ running[s].at = "caught"
  /\ status[running[s].video] = "absent"
  /\ running' = [running EXCEPT ![s].at = "rethrown"]
  /\ UNCHANGED <<videosTable, owner, bucket, creating, removing, job, faults>>

\* markFailed rejects because the database does: its error replaces the first.
MarkFailedRejected(s) ==
  /\ Spend("db")
  /\ running[s].at = "caught"
  /\ running' = [running EXCEPT ![s].at = "rethrown"]
  /\ UNCHANGED <<videosTable, owner, bucket, creating, removing, job>>

\* processVideoJob returned.  BullMQ refuses a completion without the lock.
CompleteJob(s) ==
  /\ running[s].at = "marked"
  /\ job' = IF HoldsLock(s)
              THEN [job EXCEPT ![running[s].video].state = "completed",
                               ![running[s].video].lock = None]
              ELSE job
  /\ Rest(s)
  /\ UNCHANGED <<videosTable, owner, bucket, creating, removing, faults>>

\* The attempts are counted but never used up (not part of Next).
RetryForever(s) ==
  LET v == running[s].video
      tried == job[v].attempts + 1
  IN
  /\ running[s].at = "rethrown"
  /\ job' = IF HoldsLock(s)
              THEN [job EXCEPT ![v].attempts = tried,
                               ![v].state = "delayed",
                               ![v].lock = None]
              ELSE job
  /\ Rest(s)
  /\ UNCHANGED <<videosTable, owner, bucket, creating, removing, faults>>

\* The attempt that failed is not counted (not part of Next).
RetryUncounted(s) ==
  /\ running[s].at = "rethrown"
  /\ job' = IF HoldsLock(s)
              THEN [job EXCEPT ![running[s].video].state = "delayed",
                               ![running[s].video].lock = None]
              ELSE job
  /\ Rest(s)
  /\ UNCHANGED <<videosTable, owner, bucket, creating, removing, faults>>

\* processVideoJob rejected.  With the lock held the attempt counts: back off,
\* or give up after "attempts" of them.
FailJob(s) ==
  LET v == running[s].video
      tried == job[v].attempts + 1
  IN
  /\ running[s].at = "rethrown"
  /\ job' = IF HoldsLock(s)
              THEN [job EXCEPT ![v].attempts = tried,
                               ![v].state = IF tried < Attempts THEN "delayed"
                                                                ELSE "failed",
                               ![v].lock = None]
              ELSE job
  /\ Rest(s)
  /\ UNCHANGED <<videosTable, owner, bucket, creating, removing, faults>>

\* The backoff of a failed attempt is over.
PromoteDelayed(v) ==
  /\ job[v].state = "delayed"
  /\ job' = [job EXCEPT ![v].state = "wait"]
  /\ UNCHANGED <<videosTable, owner, bucket, creating, removing, running, faults>>

\* A worker process dies with all its slots; its locks run out.
WorkerCrash(w) ==
  /\ Spend("worker")
  /\ \E s \in Slot : host[s] = w /\ running[s] # AtRest
  /\ running' = [s \in Slot |-> IF host[s] = w THEN AtRest ELSE running[s]]
  /\ job' = [v \in Video |->
               IF \E s \in Slot : host[s] = w /\ job[v].lock = s
                 THEN [job[v] EXCEPT !.lock = None]
                 ELSE job[v]]
  /\ UNCHANGED <<videosTable, owner, bucket, creating, removing>>

\* The lock of a job is not renewed in time, and processVideoJob runs on.
LockLost(s) ==
  /\ Spend("lock")
  /\ HoldsLock(s)
  /\ job' = [job EXCEPT ![running[s].video].lock = None]
  /\ UNCHANGED <<videosTable, owner, bucket, creating, removing, running>>

\* The stalled check of a worker finds an active job without a lock.
RequeueStalled(v) ==
  LET stalls == job[v].stalls + 1 IN
  /\ job[v].state = "active"
  /\ job[v].lock = None
  /\ job' = [job EXCEPT ![v].stalls = stalls,
                        ![v].state = IF stalls > MaxStalled THEN "failed"
                                                            ELSE "wait"]
  /\ UNCHANGED <<videosTable, owner, bucket, creating, removing, running, faults>>

-----------------------------------------------------------------------------
CreateStep(v) ==
  UploadFile(v) \/ CreateVideo(v) \/ EndqueueProcessing(v) \/ CreateInterrupted(v)

RemoveStep(d) ==
  \/ DeleteVideo(d) \/ DeleteMissing(d) \/ RemoveObject(d)
  \/ RemoveObjectFails(d) \/ RemoveInterrupted(d)

RunStep(s) ==
  \/ MarkReady(s) \/ ProcessThrows(s) \/ CompleteJob(s)
  \/ MarkFailed(s) \/ MarkFailedMissing(s) \/ MarkFailedRejected(s) \/ FailJob(s)

QueueStep(v) == PromoteDelayed(v) \/ RequeueStalled(v)

Next ==
  \/ \E v \in Video : CreateStep(v) \/ QueueStep(v)
  \/ \E d \in Remover : RemoveStep(d)
  \/ \E d \in Remover, u \in User, v \in Video : FindVideo(d, u, v)
  \/ \E s \in Slot : RunStep(s) \/ LockLost(s)
  \/ \E s \in Slot, v \in Video : FetchJob(s, v)
  \/ \E w \in Worker : WorkerCrash(w)

Spec == Init /\ [][Next]_vars

\* Every handler that started goes on while its process lives, workers take
\* waiting jobs, BullMQ promotes delayed jobs and checks for stalled ones.
\* Uploads, deletions and faults are never bound to happen.
Fairness ==
  /\ \A v \in Video : /\ WF_vars(CreateVideo(v) \/ EndqueueProcessing(v))
                      /\ WF_vars(QueueStep(v))
                      /\ WF_vars(\E s \in Slot : FetchJob(s, v))
  /\ \A d \in Remover :
       WF_vars(DeleteVideo(d) \/ DeleteMissing(d) \/ RemoveObject(d))
  /\ \A s \in Slot : WF_vars(RunStep(s))

FairSpec == Spec /\ Fairness

(***************************************************************************)
(* Properties                                                              *)
(***************************************************************************)

CreateStage == {"idle", "uploaded", "created", "done", "abandoned", "stranded"}
JobState    == {"none", "wait", "active", "delayed", "completed", "failed"}
RemoveStage == {"idle", "found", "deleted"}
RunStage    == {"idle", "processing", "marked", "caught", "rethrown"}

\* Type invariant.  Its one substantial part: no job is tried more often than
\* "attempts" allows, and no job is put back more often than maxStalledCount.
TypeOK ==
  /\ status \in [Video -> VideoStatus \union {"absent"}]
  /\ owner \in [Video -> User]
  /\ playbackUrl \in [Video -> {None} \union {urlFor(v) : v \in Video}]
  /\ bucket \subseteq Video
  /\ creating \in [Video -> CreateStage]
  /\ removing \in [Remover -> [at : RemoveStage, video : Video \union {None}]]
  /\ job \in [Video -> [state : JobState, attempts : 0..Attempts,
                        stalls : 0..(MaxStalled + 1),
                        lock : Slot \union {None}]]
  /\ running \in [Slot -> [at : RunStage, video : Video \union {None}]]
  /\ faults \in [Fault -> Nat]

Exists(v) == status[v] # "absent"

\* Whatever fails and whoever races, the original of an uploaded video that has a
\* row is in the bucket: create stores the object before the row, and remove
\* deletes the row before the object.  (The samples of seed.ts have no originals.)
NoDanglingOriginal == \A v \in Video : Exists(v) => v \in bucket

\* An uploaded video shown as READY can be played: markReady writes the address of this
\* video's own original together with the status, and the object is there.
PlayableWhenReady ==
  \A v \in Video : status[v] = "READY" => playbackUrl[v] = urlFor(v) /\ v \in bucket

\* Objects that no row refers to and no handler is about to deal with.
Orphans ==
  {v \in bucket : /\ ~Exists(v)
                  /\ creating[v] # "uploaded"
                  /\ \A d \in Remover : removing[d] # [at |-> "deleted", video |-> v]}

\* create and remove leak an object only when a handler is cut off or the
\* error of removeObject is swallowed, and then at most one per such fault: no
\* interleaving of uploads, deletions and processing leaks by itself.
OrphansAreCounted == Cardinality(Orphans) <= faults["api"] + faults["storage"]

Outstanding(v) ==
  \/ creating[v] = "created"
  \/ job[v].state \in {"wait", "active", "delayed"}
  \/ \E s \in Slot : running[s].video = v

\* A row in PROCESSING has a handler, a job or a run that will still change
\* it, as long as no create handler was cut off, the database took every
\* markFailed and BullMQ did not give the job up for stalling.
ProcessingIsPending ==
  faults["api"] = 0 /\ faults["db"] = 0 =>
    \A v \in Video :
      status[v] = "PROCESSING" /\ job[v].stalls <= MaxStalled => Outstanding(v)

\* The status of a video agrees with what BullMQ says of its job: completed
\* means READY, and out of attempts means FAILED, even though BullMQ and the
\* database are written by separate calls.  It takes every lock kept in time
\* and every markFailed accepted.
VerdictMatchesJob ==
  faults["lock"] = 0 /\ faults["db"] = 0 =>
    \A v \in Video :
      Exists(v) =>
        /\ job[v].state = "completed" => status[v] = "READY"
        /\ job[v].state = "failed" /\ job[v].attempts = Attempts
             => status[v] = "FAILED"

\* docs/DATABASE.md on status FAILED: the worker tried three times and still
\* failed, so that FAILED is seen during the last attempt at the earliest.
\* The code writes FAILED in the catch block of every attempt.
FailedMeansAttemptsUsedUp ==
  \A v \in Video : status[v] = "FAILED" => job[v].attempts >= Attempts - 1

\* docs/ARCHITECTURE.md, flow 1: the client polls GET /videos/:id until the
\* status is READY or FAILED (or finds the video deleted).
EveryUploadIsJudged ==
  \A v \in Video : status[v] = "PROCESSING" ~> status[v] # "PROCESSING"

\* A video deleted by its owner or an administrator leaves the bucket, when
\* neither the handler nor removeObject fails.
DeletedOriginalGoes ==
  \A v \in Video :
    creating[v] \in {"created", "done"} /\ ~Exists(v) ~> v \notin bucket

\* Every job that was added comes to rest: the attempts and the stalls are
\* bounded, also for a video that was deleted under the worker.
EveryJobRests ==
  \A v \in Video :
    creating[v] = "done" ~> [](job[v].state \in {"completed", "failed"})

(***************************************************************************)
(* VideoLifecycle implements VideoPromise                                  *)
(***************************************************************************)
Unpublished == {"idle", "uploaded", "abandoned"}

phaseBar ==
  [v \in Video |-> IF creating[v] \in Unpublished THEN "none"
                   ELSE IF Exists(v) THEN status[v] ELSE "gone"]
openBar == {v \in Video : Outstanding(v)}

Promise == INSTANCE VideoPromise WITH phase <- phaseBar, open <- openBar

\* What the client sees is a behaviour of VideoPromise: a deleted video never
\* comes back (a late markReady or markFailed finds no row), no status changes
\* once nobody works on the video, and PROCESSING never returns.
ImplementsPromise == Promise!Spec
=============================================================================
