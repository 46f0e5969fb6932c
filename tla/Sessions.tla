------------------------------ MODULE Sessions ------------------------------
(***************************************************************************)
(* AuthService and UsersService.changePassword: refresh tokens as rows of  *)
(* table refesh_tokens.  A login opens a session, refresh exchanges its    *)
(* token for the next one, logout and a change of password revoke tokens.  *)
(* None of it runs in a transaction: every call to the database is a step  *)
(* of its own, other requests run in between, and a request may be cut off *)
(* at each of them.                                                        *)
(***************************************************************************)

CONSTANTS
  User,
  Password,
  significant,  \* what is left of a password when bcrypt has cut it to 72 bytes
  Token,        \* the refresh tokens that are ever signed, all different by jti
  Handler,      \* concurrent request handlers
  None          \* no user, no token, no password

ASSUME PasswordAssumption == significant \in [Password -> Password]
ASSUME NoneAssumption == None \notin User \union Token \union Password

VARIABLES
  passwordHash, \* column password_hash of each user, None without a row
  issued,       \* the rows of table refesh_tokens
  owner,        \* column user_id
  revoked,      \* the rows with a revoked_at
  handling,     \* how far each handler has come
  from,         \* history: the token each token was exchanged for
  by,           \* history: the handler that exchanged that token
  grant,        \* history: the password hash that its session was opened with
  late,         \* history: tokens of sessions that slipped past a revocation
  ended,        \* history: tokens revoked by a logout or a change of password
  dropped,      \* history: tokens whose refresh was cut off after the revocation
  unfinished    \* history: users whose change was cut off before the revocation

rows == <<issued, owner, revoked>>
history == <<from, by, grant, late, ended, dropped, unfinished>>
vars == <<passwordHash, rows, handling, history>>

Hash(p) == [bcrypt |-> significant[p]]
NoHash == [bcrypt |-> None]

Idle == [at |-> "idle", user |-> None, token |-> None, hash |-> NoHash, late |-> FALSE]

Live == issued \ revoked

Init ==
  /\ passwordHash \in [User -> {NoHash} \union {Hash(p) : p \in Password}]
  /\ issued = {}
  /\ owner = [t \in Token |-> None]
  /\ revoked = {}
  /\ handling = [h \in Handler |-> Idle]
  /\ from = [t \in Token |-> None]
  /\ by = [t \in Token |-> None]
  /\ grant = [t \in Token |-> NoHash]
  /\ late = {}
  /\ ended = {}
  /\ dropped = {}
  /\ unfinished = {}

Begin(h, at, u, t, hash, isLate) ==
  /\ handling[h] = Idle
  /\ handling' = [handling EXCEPT ![h] =
       [at |-> at, user |-> u, token |-> t, hash |-> hash, late |-> isLate]]

(***************************************************************************)
(* register, login and issueTokens                                         *)
(***************************************************************************)

\* prisma.user.create; the e-mail is unique.
Register(h, u, p) ==
  /\ passwordHash[u] = NoHash
  /\ passwordHash' = [passwordHash EXCEPT ![u] = Hash(p)]
  /\ Begin(h, "issuing", u, None, Hash(p), FALSE)
  /\ UNCHANGED <<rows, history>>

\* The user was found and bcrypt.compare accepts the password.
Login(h, u, p) ==
  /\ passwordHash[u] = Hash(p)
  /\ Begin(h, "issuing", u, None, Hash(p), FALSE)
  /\ UNCHANGED <<passwordHash, rows, history>>

\* issueTokens: the row of a new token, and the answer.
IssueTokens(h, t) ==
  /\ handling[h].at = "issuing"
  /\ t \notin issued
  /\ issued' = issued \union {t}
  /\ owner' = [owner EXCEPT ![t] = handling[h].user]
  /\ from' = [from EXCEPT ![t] = handling[h].token]
  /\ by' = IF handling[h].token = None THEN by ELSE [by EXCEPT ![t] = h]
  /\ grant' = [grant EXCEPT ![t] = handling[h].hash]
  /\ late' = IF handling[h].late THEN late \union {t} ELSE late
  /\ handling' = [handling EXCEPT ![h] = Idle]
  /\ UNCHANGED <<passwordHash, revoked, ended, dropped, unfinished>>

(***************************************************************************)
(* refesh and logout                                                       *)
(***************************************************************************)

\* The row is looked up without revokedAt: null (not part of Next).
FindIssued(h, t) ==
  /\ t \in issued
  /\ Begin(h, "revoking", owner[t], t, grant[t], t \in late)
  /\ UNCHANGED <<passwordHash, rows, history>>

\* The token verifies and its row is neither revoked nor expired.  Expiry is a
\* refusal that may come at any time and changes nothing: the clients that it
\* meets are those that do not refresh.
FindStored(h, t) ==
  /\ t \in Live
  /\ Begin(h, "revoking", owner[t], t, grant[t], t \in late)
  /\ UNCHANGED <<passwordHash, rows, history>>

\* No rotation: the old token stays good (not part of Next).
KeepStored(h) ==
  /\ handling[h].at = "revoking"
  /\ handling' = [handling EXCEPT ![h].at = "issuing"]
  /\ UNCHANGED <<passwordHash, rows, history>>

\* The live tokens of a user.
TokensOf(u) == {t \in Live : owner[t] = u}

\* updateMany by userId instead of update (not part of Next).
RevokeAll(h) ==
  /\ handling[h].at = "revoking"
  /\ revoked' = revoked \union TokensOf(handling[h].user)
  /\ handling' = [handling EXCEPT ![h].at = "issuing"]
  /\ UNCHANGED <<passwordHash, issued, owner, history>>

\* prisma.refeshToken.update sets revokedAt, whether or not it is set already.
RevokeStored(h) ==
  /\ handling[h].at = "revoking"
  /\ revoked' = revoked \union {handling[h].token}
  /\ handling' = [handling EXCEPT ![h].at = "issuing"]
  /\ UNCHANGED <<passwordHash, issued, owner, history>>

\* logout of user u with the cookie t; it revokes nothing unless t is a live
\* token of u.
Logout(u, t) ==
  /\ passwordHash[u] # NoHash
  /\ t \in Live /\ owner[t] = u
  /\ revoked' = revoked \union {t}
  /\ ended' = ended \union {t}
  /\ UNCHANGED <<passwordHash, issued, owner, handling,
                 from, by, grant, late, dropped, unfinished>>

(***************************************************************************)
(* changePassword                                                          *)
(***************************************************************************)

\* The current password p is right; q is to be the new one.
FindForChange(h, u, p, q) ==
  /\ passwordHash[u] = Hash(p)
  /\ Begin(h, "changing", u, None, Hash(q), FALSE)
  /\ UNCHANGED <<passwordHash, rows, history>>

\* prisma.user.update
UpdatePassword(h) ==
  /\ handling[h].at = "changing"
  /\ passwordHash' = [passwordHash EXCEPT ![handling[h].user] = handling[h].hash]
  /\ handling' = [handling EXCEPT ![h].at = "ending"]
  /\ UNCHANGED <<rows, history>>

\* Whoever is about to issue a token for u has passed its checks before the
\* revocation, and its token is late.
Overtaken(u) ==
  [g \in Handler |->
     IF handling[g].at \in {"revoking", "issuing"} /\ handling[g].user = u
     THEN [handling[g] EXCEPT !.late = TRUE] ELSE handling[g]]

\* The sessions go on (not part of Next).
EndNothing(h) ==
  /\ handling[h].at = "ending"
  /\ handling' = [Overtaken(handling[h].user) EXCEPT ![h] = Idle]
  /\ unfinished' = unfinished \ {handling[h].user}
  /\ UNCHANGED <<passwordHash, rows, from, by, grant, late, ended, dropped>>

\* prisma.refeshToken.updateMany, and the answer.
EndSessions(h) ==
  /\ handling[h].at = "ending"
  /\ revoked' = revoked \union TokensOf(handling[h].user)
  /\ ended' = ended \union TokensOf(handling[h].user)
  /\ handling' = [Overtaken(handling[h].user) EXCEPT ![h] = Idle]
  /\ unfinished' = unfinished \ {handling[h].user}
  /\ UNCHANGED <<passwordHash, issued, owner, from, by, grant, late, dropped>>

(***************************************************************************)
(* Around it                                                               *)
(***************************************************************************)

\* The database rejects the next call, or the process dies.
Interrupt(h) ==
  /\ handling[h].at # "idle"
  /\ handling' = [handling EXCEPT ![h] = Idle]
  /\ dropped' = IF handling[h].at = "issuing" /\ handling[h].token # None
                THEN dropped \union {handling[h].token} ELSE dropped
  /\ unfinished' = IF handling[h].at = "ending"
                   THEN unfinished \union {handling[h].user} ELSE unfinished
  /\ UNCHANGED <<passwordHash, rows, from, by, grant, late, ended>>

-----------------------------------------------------------------------------
Next ==
  \/ \E h \in Handler, u \in User, p \in Password : Register(h, u, p) \/ Login(h, u, p)
  \/ \E h \in Handler, u \in User, p, q \in Password : FindForChange(h, u, p, q)
  \/ \E h \in Handler, t \in Token : IssueTokens(h, t) \/ FindStored(h, t)
  \/ \E h \in Handler :
       RevokeStored(h) \/ UpdatePassword(h) \/ EndSessions(h) \/ Interrupt(h)
  \/ \E u \in User, t \in Token : Logout(u, t)

Spec == Init /\ [][Next]_vars

(***************************************************************************)
(* Properties                                                              *)
(***************************************************************************)
HashType == [bcrypt : Password \union {None}]
HandlingType == [at : {"idle", "revoking", "issuing", "changing", "ending"},
                 user : User \union {None}, token : Token \union {None},
                 hash : HashType, late : BOOLEAN]

\* Type invariant, with the foreign key and with docs/DATABASE.md: passwords
\* are stored as bcrypt hashes only.
TypeOK ==
  /\ passwordHash \in [User -> HashType]
  /\ issued \subseteq Token
  /\ revoked \subseteq issued
  /\ owner \in [Token -> User \union {None}]
  /\ \A t \in issued : owner[t] \in User
  /\ handling \in [Handler -> HandlingType]
  /\ from \in [Token -> Token \union {None}]
  /\ by \in [Token -> Handler \union {None}]
  /\ grant \in [Token -> HashType]
  /\ late \subseteq issued
  /\ ended \subseteq issued
  /\ dropped \subseteq issued
  /\ unfinished \subseteq User

\* Rotation: a token that is still good was never exchanged, wherever a
\* refresh was cut off.
LiveIsUnspent == \A s \in issued : from[s] # None => from[s] \in revoked

\* A token is exchanged twice only by refreshes that ran at the same time: a
\* handler runs one request after the other, and never exchanges a token that
\* it exchanged before.
ForksOverlap ==
  \A s1, s2 \in issued :
    s1 # s2 /\ from[s1] = from[s2] /\ from[s1] # None => by[s1] # by[s2]

\* Nobody loses a session for nothing: a token is revoked by a logout or a
\* change of password, or it is exchanged, or its refresh was cut off.
RevokedForAReason ==
  \A t \in revoked :
    \/ t \in ended \/ t \in dropped
    \/ \E s \in issued : from[s] = t
    \/ \E h \in Handler : handling[h].at = "issuing" /\ handling[h].token = t

\* A change of password ends the sessions that were opened with another one.
\* What remains is what the code cannot see: requests that had passed their
\* checks when it revoked, and a change that is not finished or was cut off.
OldPasswordEnds ==
  \A t \in Live :
    \/ grant[t] = passwordHash[owner[t]]
    \/ t \in late
    \/ owner[t] \in unfinished
    \/ \E h \in Handler : handling[h].at = "ending" /\ handling[h].user = owner[t]
=============================================================================
