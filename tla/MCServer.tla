------------------------------ MODULE MCServer ------------------------------
(***************************************************************************)
(* Startup, Requests and Avatar for TLC.  They share no state, so that     *)
(* starts, requests and changes of avatars are explored one without the    *)
(* others: the three state spaces are added, not multiplied.               *)
(***************************************************************************)
EXTENDS Startup, Requests, Avatar

CONSTANTS api, worker, job

\* docker-compose.yml gives API and worker the same environment; job has no
\* REDIS_HOST, migrates and seeds, and never comes up.
Containers == {api, worker, job}
Environments ==
  [p \in Containers |-> IF p = job THEN Name \ {"REDIS_HOST"} ELSE Name]

\* Users and names of pictures, and the defaults of the configuration.
Text == STRING
Users == {"ann", "bob"}
Images == <<"1", "2", "3", "4">>
FourImages == {Images[n] : n \in DOMAIN Images}
Default == <<"http://localhost:9000">>

\* Both are up for the first time, and the samples are there.
Started ==
  /\ at = [p \in Process |-> IF p = job THEN "down" ELSE "up"]
  /\ starts = 2
  /\ accounts = {"admin", "user"}
  /\ samples = 1
  /\ uploads = FALSE
  /\ bucket = "public"
  /\ inserted = 1
  /\ overlaps = 0
  /\ emptied = 0
  /\ cut = FALSE

NoRequests ==
  /\ rows = {}
  /\ redis
  /\ status = [r \in Request |-> Unsent]

NoPictures == drawn = {}

\* Names are random: which one is drawn first makes no difference.
DrawnInOrder == \A m, n \in DOMAIN Images : m < n /\ Images[n] \in drawn' => Images[m] \in drawn'

MCInit ==
  /\ Init \/ Started
  /\ RequestsInit
  /\ AvatarInit
  /\ Init => NoRequests

MCNext ==
  \/ NoRequests /\ NoPictures /\ Next /\ UNCHANGED <<requests, pictures>>
  \/ Started /\ NoPictures /\ RequestsNext /\ UNCHANGED <<vars, pictures>>
  \/ Started /\ NoRequests /\ AvatarNext /\ DrawnInOrder /\ UNCHANGED <<vars, requests>>

MCSpec ==
  /\ MCInit
  /\ [][MCNext]_<<vars, requests, pictures>>
  /\ \A r \in Request :
       WF_<<vars, requests, pictures>>(Started /\ NoPictures /\ Go(r) /\ UNCHANGED <<vars, pictures>>)
=============================================================================
