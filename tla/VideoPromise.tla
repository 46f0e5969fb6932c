---------------------------- MODULE VideoPromise ----------------------------
(***************************************************************************)
(* What a client that uploads a video and then polls GET /videos/:id may   *)
(* rely on, with the database, the bucket, the queue and the workers left  *)
(* out (docs/ARCHITECTURE.md, flow 1).  A video is published once, its     *)
(* status moves between READY and FAILED only while its processing is      *)
(* open, processing that closed never opens again, a video never returns   *)
(* to PROCESSING and a removed video never comes back.                     *)
(***************************************************************************)

CONSTANT Video        \* the videos that are ever uploaded

VARIABLES
  phase,              \* what the polling client sees of each video
  open                \* the videos whose processing may still change phase

promiseVars == <<phase, open>>

Verdict == {"READY", "FAILED"}
Live    == Verdict \union {"PROCESSING"}
Phase   == Live \union {"none", "gone"}

Init ==
  /\ phase = [v \in Video |-> "none"]
  /\ open = {}

\* The upload was accepted: the video appears, and its processing is open.
Publish(v) ==
  /\ phase[v] = "none"
  /\ phase' = [phase EXCEPT ![v] = "PROCESSING"]
  /\ open' = open \union {v}

\* An attempt at processing ends well or badly.
Settle(v) ==
  /\ v \in open
  /\ phase[v] \in Live
  /\ \E verdict \in Verdict : phase' = [phase EXCEPT ![v] = verdict]
  /\ UNCHANGED open

\* Nobody will process these videos any more; a worker that dies may end the
\* processing of several at once.
Close(gone) ==
  /\ open' = open \ gone
  /\ UNCHANGED phase

\* The owner or an administrator deletes the video.
Remove(v) ==
  /\ phase[v] \in Live
  /\ phase' = [phase EXCEPT ![v] = "gone"]
  /\ UNCHANGED open

Next ==
  \/ \E v \in Video : Publish(v) \/ Settle(v) \/ Remove(v)
  \/ \E gone \in SUBSET open : Close(gone)

Spec == Init /\ [][Next]_promiseVars
=============================================================================
