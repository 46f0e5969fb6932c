---------------------------- MODULE MCVideoCache ----------------------------
(***************************************************************************)
(* Instances of VideoCache for TLC.  Two readers are explored on one list  *)
(* and the hot videos, and one reader on four lists and the hot videos.    *)
(***************************************************************************)
EXTENDS VideoCache

CONSTANTS r1, r2

VARIABLE paging  \* which of the two

\* Two pages of the videos with "intro:READY" in the title, the first one of
\* those with "intro" that are READY, and the same with ":" as the owner's id,
\* which is nobody's.
Found(n) ==
  [paging |-> <<n>>, search |-> <<"intro", ":", "READY">>, status |-> <<>>, ownerId |-> <<>>]
FirstPage == Found("1:12:desc:createdAt")
SecondPage == Found("2:12:desc:createdAt")
Filtered == [FirstPage EXCEPT !.search = <<"intro">>, !.status = <<"READY">>]
Nobodys == [Filtered EXCEPT !.ownerId = <<":">>]
Lists == {FirstPage, SecondPage, Filtered, Nobodys}

Pieces == {"videos", ":", "list", "hot", "intro", "READY",
            "1:12:desc:createdAt", "2:12:desc:createdAt"}

MCInit ==
  /\ Init
  /\ paging \in BOOLEAN

MCNext ==
  /\ UNCHANGED paging
  /\ Next
  /\ IF paging THEN reading'[r2] = Idle
     ELSE \A r \in Reader : reading'[r].query \in {FirstPage, None}

MCSpec ==
  /\ MCInit
  /\ [][MCNext]_<<vars, paging>>
  /\ \A r \in Reader : WF_vars(Fill(r))
  /\ \A k \in Key : WF_vars(Expire(k))
=============================================================================
