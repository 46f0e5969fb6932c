----------------------------- MODULE MCSessions -----------------------------
(***************************************************************************)
(* Instances of Sessions and BrowserSessions for TLC.  Clients that use    *)
(* any token at any time are explored without browsers; browsers with      *)
(* their cookies and answers, with changes of the password only before the *)
(* first token.                                                            *)
(***************************************************************************)
EXTENDS BrowserSessions, TLC

VARIABLE browsing  \* which of the two

\* Three passwords, one of which differs from "old" after 72 bytes only.
LongPasswords == {"old", "older", "new"}
Cut == [p \in LongPasswords |-> IF p = "older" THEN "old" ELSE p]

MCInit ==
  /\ BrowserInit
  /\ browsing \in BOOLEAN

EarlyChange ==
  /\ \A h, g \in Handler :
       handling'[h].at \in {"changing", "ending"} =>
         issued' = {} /\ handling'[g].at # "issuing"
  /\ unfinished' = {}

MCNext ==
  /\ UNCHANGED browsing
  /\ \/ ~browsing /\ Next /\ UNCHANGED browsers
     \/ browsing /\ BrowserNext /\ EarlyChange

MCSpec == MCInit /\ [][MCNext]_<<vars, browsers, browsing>>

Symmetry == Permutations(Token) \union Permutations(Handler)
=============================================================================
