--------------------------- MODULE MCViewCounting ---------------------------
(***************************************************************************)
(* An instance of ViewCounting for TLC.  Two videos are explored without   *)
(* readers, and a reader with the views of one of them: what findOne       *)
(* answers depends on no other video.                                      *)
(***************************************************************************)
EXTENDS ViewCounting, TLC

CONSTANTS r1, r2, r3, v1, v2, alice, bob

VARIABLE reads  \* which of the two

\* Three requests: a viewer who comes back, and a second viewer.
TwoViewers == r1 :> alice @@ r2 :> alice @@ r3 :> bob
TwoVideos  == r1 :> v1 @@ r2 :> v1 @@ r3 :> v2

MCInit ==
  /\ Init
  /\ reads \in BOOLEAN
  /\ reads => rows \subseteq {v1}

MCNext ==
  /\ UNCHANGED reads
  /\ Next
  /\ IF reads THEN request'[r3] = "idle"
     ELSE \A d \in Reader : reading'[d].at = "idle"

MCSpec ==
  /\ MCInit
  /\ [][MCNext]_<<vars, reads>>
  /\ \A t \in Tick : WF_vars(StartTick(t)) /\ WF_vars(TickStep(t))
=============================================================================
