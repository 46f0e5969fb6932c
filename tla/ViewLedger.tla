----------------------------- MODULE ViewLedger -----------------------------
(***************************************************************************)
(* What becomes of the views that incrementViewCount answers with counted: *)
(* true, with Redis, the ticks and their calls left out.  A counted view   *)
(* is stored in the column, or its video turns out to have no row, or it   *)
(* is lost with a process; a stored view stays until its row is deleted.   *)
(* Nothing ever goes back.                                                 *)
(***************************************************************************)
EXTENDS Naturals

CONSTANTS View, Video, videoOf

VARIABLES
  open,         \* the videos that exist
  fate,         \* what has become of each view
  deaths        \* how often a process has died

ledgerVars == <<open, fate, deaths>>

Init ==
  /\ open \in SUBSET Video
  /\ fate = [r \in View |-> "asked"]
  /\ deaths = 0

ViewsOf(v, f) == {r \in View : videoOf[r] = v /\ fate[r] = f}

Become(S, f) == fate' = [r \in View |-> IF r \in S THEN f ELSE fate[r]]

Count(r) ==
  /\ fate[r] = "asked"
  /\ Become({r}, "counted")
  /\ UNCHANGED <<open, deaths>>

\* Some counted views of an existing video enter the column together.
Store(v) ==
  /\ v \in open
  /\ \E S \in SUBSET ViewsOf(v, "counted") : Become(S, "stored")
  /\ UNCHANGED <<open, deaths>>

Drop(v) ==
  /\ v \notin open
  /\ \E S \in SUBSET ViewsOf(v, "counted") : Become(S, "dropped")
  /\ UNCHANGED <<open, deaths>>

\* A process dies, and counted views that are not stored may go with it.
Die ==
  /\ deaths' = deaths + 1
  /\ \E S \in SUBSET {r \in View : fate[r] = "counted"} : Become(S, "lost")
  /\ UNCHANGED open

\* A video is deleted with its column.
Close(v) ==
  /\ v \in open
  /\ open' = open \ {v}
  /\ Become(ViewsOf(v, "stored"), "dropped")
  /\ UNCHANGED deaths

Next ==
  \/ \E r \in View : Count(r)
  \/ \E v \in Video : Store(v) \/ Drop(v) \/ Close(v)
  \/ Die

Spec == Init /\ [][Next]_ledgerVars
=============================================================================
