--------------------------- MODULE SessionsProofs ---------------------------
(***************************************************************************)
(* Proofs about Sessions, for any number of users, passwords, tokens and   *)
(* concurrent handlers, and with requests cut off anywhere.                *)
(***************************************************************************)
EXTENDS BrowserSessions, TLAPS

\* What the requests in flight hold: a user, and a token that exists, revoked
\* once it has been exchanged.
HandlersKnow ==
  \A h \in Handler :
    /\ handling[h].at # "idle" => handling[h].user \in User
    /\ handling[h].at = "revoking" => handling[h].token \in issued
    /\ handling[h].at = "issuing" /\ handling[h].token # None => handling[h].token \in revoked

\* Tokens, and requests in flight, belong to users with a row.
Registered ==
  /\ \A t \in issued : grant[t] # NoHash /\ passwordHash[owner[t]] # NoHash
  /\ \A h \in Handler :
       handling[h].at # "idle" =>
         handling[h].hash # NoHash /\ passwordHash[handling[h].user] # NoHash

\* A handler that is exchanging a token has not exchanged it before.
NotTwice ==
  \A h \in Handler, s \in issued :
    /\ handling[h].at \in {"revoking", "issuing"}
    /\ handling[h].token # None
    /\ from[s] = handling[h].token
    => by[s] # h

\* The password that a request was granted with is outdated for a reason.
OutdatedForAReason ==
  \A h \in Handler :
    handling[h].at \in {"revoking", "issuing"} =>
      \/ handling[h].hash = passwordHash[handling[h].user]
      \/ handling[h].late
      \/ handling[h].user \in unfinished
      \/ \E g \in Handler : handling[g].at = "ending" /\ handling[g].user = handling[h].user

IInv ==
  /\ TypeOK /\ HandlersKnow /\ Registered
  /\ LiveIsUnspent /\ ForksOverlap /\ NotTwice
  /\ RevokedForAReason
  /\ OldPasswordEnds /\ OutdatedForAReason

LEMMA HashTyped == NoHash \in HashType /\ \A p \in Password : Hash(p) \in HashType
  BY PasswordAssumption DEF NoHash, Hash, HashType

LEMMA IdleTyped == Idle \in HandlingType
  BY HashTyped DEF Idle, HandlingType

LEMMA InitIInv == Init => IInv
<1> SUFFICES ASSUME Init PROVE IInv
  OBVIOUS
<1>1. \A h \in Handler : handling[h].at = "idle"
  BY DEF Init, Idle
<1>2. TypeOK
  BY HashTyped, IdleTyped DEF Init, TypeOK
<1>3. issued = {} /\ revoked = {} /\ Live = {}
  BY DEF Init, Live
<1>4. HandlersKnow /\ Registered /\ NotTwice /\ OutdatedForAReason
  BY <1>1, <1>3 DEF HandlersKnow, Registered, NotTwice, OutdatedForAReason
<1>5. LiveIsUnspent /\ ForksOverlap /\ RevokedForAReason /\ OldPasswordEnds
  BY <1>3 DEF LiveIsUnspent, ForksOverlap, RevokedForAReason, OldPasswordEnds
<1> QED BY <1>2, <1>4, <1>5 DEF IInv

(***************************************************************************)
(* Types                                                                   *)
(***************************************************************************)
LEMMA OvertakenTyped ==
  ASSUME TypeOK, NEW u
  PROVE  Overtaken(u) \in [Handler -> HandlingType]
<1>1. \A g \in Handler : [handling[g] EXCEPT !.late = TRUE] \in HandlingType
  BY DEF TypeOK, HandlingType
<1> QED BY <1>1 DEF Overtaken, TypeOK

LEMMA NextTypeOK == TypeOK /\ HandlersKnow /\ [Next]_vars => TypeOK'
<1> SUFFICES ASSUME TypeOK, HandlersKnow, [Next]_vars PROVE TypeOK'
  OBVIOUS
<1> USE DEF rows, history
<1>0. CASE UNCHANGED vars
  BY <1>0 DEF vars, TypeOK
<1>1. ASSUME NEW h \in Handler, NEW u \in User, NEW t \in Token \union {None},
             NEW hash \in HashType, NEW isLate \in BOOLEAN,
             NEW at \in {"issuing", "revoking", "changing"}, Begin(h, at, u, t, hash, isLate)
      PROVE  handling' \in [Handler -> HandlingType]
  BY <1>1 DEF Begin, TypeOK, HandlingType
<1>2. ASSUME NEW h \in Handler, NEW u \in User, NEW p \in Password, Register(h, u, p) PROVE TypeOK'
  <2>1. handling' \in [Handler -> HandlingType]
    BY <1>1, <1>2, HashTyped DEF Register
  <2> QED BY <1>2, <2>1, HashTyped DEF Register, TypeOK
<1>3. ASSUME NEW h \in Handler, NEW u \in User, NEW p \in Password, Login(h, u, p) PROVE TypeOK'
  <2>1. handling' \in [Handler -> HandlingType]
    BY <1>1, <1>3, HashTyped DEF Login
  <2> QED BY <1>3, <2>1 DEF Login, TypeOK
<1>4. ASSUME NEW h \in Handler, NEW u \in User, NEW p \in Password, NEW q \in Password,
             FindForChange(h, u, p, q)
      PROVE  TypeOK'
  <2>1. handling' \in [Handler -> HandlingType]
    BY <1>1, <1>4, HashTyped DEF FindForChange
  <2> QED BY <1>4, <2>1 DEF FindForChange, TypeOK
<1>5. ASSUME NEW h \in Handler, NEW t \in Token, FindStored(h, t) PROVE TypeOK'
  <2>1. owner[t] \in User /\ grant[t] \in HashType /\ (t \in late) \in BOOLEAN
    BY <1>5 DEF FindStored, Live, TypeOK
  <2>2. handling' \in [Handler -> HandlingType]
    BY <1>1, <1>5, <2>1 DEF FindStored
  <2> QED BY <1>5, <2>2 DEF FindStored, TypeOK
<1>6. ASSUME NEW h \in Handler, NEW t \in Token, IssueTokens(h, t) PROVE TypeOK'
  <2>1. /\ handling[h].user \in User /\ handling[h].hash \in HashType
        /\ handling[h].token \in Token \union {None}
    BY <1>6 DEF IssueTokens, HandlersKnow, TypeOK, HandlingType
  <2>2. handling' \in [Handler -> HandlingType]
    BY <1>6, IdleTyped DEF IssueTokens, TypeOK
  <2>3. from' \in [Token -> Token \union {None}] /\ by' \in [Token -> Handler \union {None}]
        /\ grant' \in [Token -> HashType] /\ owner' \in [Token -> User \union {None}]
    BY <1>6, <2>1 DEF IssueTokens, TypeOK
  <2>4. issued' = issued \union {t} /\ \A s \in issued' : owner'[s] \in User
    BY <1>6, <2>1 DEF IssueTokens, TypeOK
  <2>5. late' \subseteq issued'
    BY <1>6 DEF IssueTokens, TypeOK
  <2> QED BY <1>6, <2>2, <2>3, <2>4, <2>5 DEF IssueTokens, TypeOK
<1>7. ASSUME NEW h \in Handler, RevokeStored(h) PROVE TypeOK'
  <2>1. handling' \in [Handler -> HandlingType]
    BY <1>7 DEF RevokeStored, TypeOK, HandlingType
  <2> QED BY <1>7, <2>1 DEF RevokeStored, TypeOK, HandlersKnow
<1>8. ASSUME NEW h \in Handler, UpdatePassword(h) PROVE TypeOK'
  <2>1. handling' \in [Handler -> HandlingType]
    BY <1>8 DEF UpdatePassword, TypeOK, HandlingType
  <2>2. passwordHash' \in [User -> HashType]
    BY <1>8 DEF UpdatePassword, TypeOK, HandlingType
  <2> QED BY <1>8, <2>1, <2>2 DEF UpdatePassword, TypeOK
<1>9. ASSUME NEW h \in Handler, EndSessions(h) PROVE TypeOK'
  <2>1. handling' \in [Handler -> HandlingType]
    BY <1>9, OvertakenTyped, IdleTyped DEF EndSessions
  <2>2. revoked' \subseteq issued /\ ended' \subseteq issued /\ unfinished' \subseteq User
    BY <1>9 DEF EndSessions, TokensOf, Live, TypeOK
  <2> QED BY <1>9, <2>1, <2>2 DEF EndSessions, TypeOK
<1>10. ASSUME NEW h \in Handler, Interrupt(h) PROVE TypeOK'
  <2>1. handling' \in [Handler -> HandlingType]
    BY <1>10, IdleTyped DEF Interrupt, TypeOK
  <2>2. dropped' \subseteq issued /\ unfinished' \subseteq User
    BY <1>10 DEF Interrupt, HandlersKnow, TypeOK
  <2> QED BY <1>10, <2>1, <2>2 DEF Interrupt, TypeOK
<1>11. ASSUME NEW u \in User, NEW t \in Token, Logout(u, t) PROVE TypeOK'
  BY <1>11 DEF Logout, Live, TypeOK
<1> QED BY <1>0, <1>2, <1>3, <1>4, <1>5, <1>6, <1>7, <1>8, <1>9, <1>10, <1>11 DEF Next

(***************************************************************************)
(* Steps that begin a request                                              *)
(***************************************************************************)
LEMMA BeginKeeps ==
  ASSUME IInv, NEW h \in Handler, handling[h] = Idle, NEW r \in HandlingType,
         handling' = [handling EXCEPT ![h] = r], UNCHANGED <<rows, history>>,
         \A u \in User : passwordHash[u] # NoHash => passwordHash'[u] = passwordHash[u],
         r.at \in {"revoking", "issuing", "changing"},
         r.user \in User, r.hash # NoHash, passwordHash'[r.user] # NoHash,
         r.at = "revoking" => r.token \in Live,
         r.at # "revoking" => r.token = None,
         r.at \in {"revoking", "issuing"} =>
           \/ r.hash = passwordHash'[r.user] \/ r.late \/ r.user \in unfinished
           \/ \E g \in Handler : handling[g].at = "ending" /\ handling[g].user = r.user
  PROVE  /\ HandlersKnow' /\ Registered' /\ LiveIsUnspent' /\ ForksOverlap' /\ NotTwice'
         /\ RevokedForAReason' /\ OldPasswordEnds' /\ OutdatedForAReason'
<1> USE DEF rows, history
<1>1. /\ handling'[h] = r /\ handling[h].at = "idle"
      /\ \A g \in Handler \ {h} : handling'[g] = handling[g]
  BY DEF IInv, TypeOK, Idle
<1>2. \A g \in Handler : handling[g].at # "idle" => handling'[g] = handling[g]
  BY <1>1
<1>3. Live' = Live
  BY DEF Live
<1>4. HandlersKnow'
  BY <1>1, NoneAssumption DEF IInv, HandlersKnow, Live
<1>5. Registered'
  <2>1. \A t \in issued : grant[t] # NoHash /\ passwordHash'[owner[t]] # NoHash
    BY DEF IInv, Registered, TypeOK
  <2>2. ASSUME NEW g \in Handler, handling'[g].at # "idle"
        PROVE  handling'[g].hash # NoHash /\ passwordHash'[handling'[g].user] # NoHash
    <3>1. CASE g = h
      BY <1>1, <3>1
    <3>2. CASE g # h
      BY <1>1, <2>2, <3>2 DEF IInv, Registered, HandlersKnow
    <3> QED BY <3>1, <3>2
  <2> QED BY <2>1, <2>2 DEF Registered
<1>6. LiveIsUnspent' /\ ForksOverlap'
  BY DEF IInv, LiveIsUnspent, ForksOverlap
<1>7. NotTwice'
  <2>1. ASSUME NEW s \in issued, r.token # None, from[s] = r.token PROVE FALSE
    BY <2>1 DEF IInv, LiveIsUnspent, Live
  <2> QED BY <1>1, <2>1 DEF IInv, NotTwice
<1>8. RevokedForAReason'
  BY <1>2 DEF IInv, RevokedForAReason
<1>9. OldPasswordEnds'
  <2>1. \A t \in Live : passwordHash'[owner[t]] = passwordHash[owner[t]]
    BY DEF IInv, Registered, TypeOK, Live
  <2> QED BY <1>2, <1>3, <2>1 DEF IInv, OldPasswordEnds
<1>10. OutdatedForAReason'
  <2>1. ASSUME NEW g \in Handler, handling'[g].at \in {"revoking", "issuing"}
        PROVE  \/ handling'[g].hash = passwordHash'[handling'[g].user]
               \/ handling'[g].late
               \/ handling'[g].user \in unfinished
               \/ \E k \in Handler : handling[k].at = "ending" /\ handling[k].user = handling'[g].user
    <3>1. CASE g = h
      BY <1>1, <2>1, <3>1
    <3>2. CASE g # h
      <4>1. handling'[g] = handling[g] /\ handling[g].user \in User
            /\ passwordHash[handling[g].user] # NoHash
        BY <1>1, <2>1, <3>2 DEF IInv, HandlersKnow, Registered
      <4> QED BY <2>1, <4>1 DEF IInv, OutdatedForAReason
    <3> QED BY <3>1, <3>2
  <2> QED BY <1>2, <2>1 DEF OutdatedForAReason
<1> QED BY <1>4, <1>5, <1>6, <1>7, <1>8, <1>9, <1>10

LEMMA BeginSteps ==
  ASSUME IInv, NEW h \in Handler,
         \/ \E u \in User, p \in Password : Register(h, u, p) \/ Login(h, u, p)
         \/ \E u \in User, p, q \in Password : FindForChange(h, u, p, q)
         \/ \E t \in Token : FindStored(h, t)
  PROVE  /\ HandlersKnow' /\ Registered' /\ LiveIsUnspent' /\ ForksOverlap' /\ NotTwice'
         /\ RevokedForAReason' /\ OldPasswordEnds' /\ OutdatedForAReason'
<1> DEFINE Rec(at, u, t, hash, isLate) ==
             [at |-> at, user |-> u, token |-> t, hash |-> hash, late |-> isLate]
<1>0. \A p \in Password : Hash(p) # NoHash /\ Hash(p) \in HashType
  BY PasswordAssumption, NoneAssumption DEF Hash, NoHash, HashType
<1>1. ASSUME NEW u \in User, NEW p \in Password, Register(h, u, p) \/ Login(h, u, p)
      PROVE  /\ HandlersKnow' /\ Registered' /\ LiveIsUnspent' /\ ForksOverlap' /\ NotTwice'
             /\ RevokedForAReason' /\ OldPasswordEnds' /\ OutdatedForAReason'
  <2> DEFINE r == Rec("issuing", u, None, Hash(p), FALSE)
  <2>1. handling[h] = Idle /\ handling' = [handling EXCEPT ![h] = r] /\ UNCHANGED <<rows, history>>
    BY <1>1 DEF Register, Login, Begin
  <2>2. passwordHash'[u] = Hash(p) /\ \A v \in User : passwordHash[v] # NoHash => passwordHash'[v] = passwordHash[v]
    BY <1>1 DEF Register, Login, IInv, TypeOK
  <2>3. r \in HandlingType /\ r.at = "issuing" /\ r.user = u /\ r.token = None /\ r.hash = Hash(p)
    BY <1>0 DEF HandlingType
  <2> HIDE DEF r
  <2> QED BY <1>0, <2>1, <2>2, <2>3, BeginKeeps
<1>2. ASSUME NEW u \in User, NEW p \in Password, NEW q \in Password, FindForChange(h, u, p, q)
      PROVE  /\ HandlersKnow' /\ Registered' /\ LiveIsUnspent' /\ ForksOverlap' /\ NotTwice'
             /\ RevokedForAReason' /\ OldPasswordEnds' /\ OutdatedForAReason'
  <2> DEFINE r == Rec("changing", u, None, Hash(q), FALSE)
  <2>1. /\ handling[h] = Idle /\ handling' = [handling EXCEPT ![h] = r] /\ UNCHANGED <<rows, history>>
        /\ passwordHash' = passwordHash /\ passwordHash[u] = Hash(p)
    BY <1>2 DEF FindForChange, Begin
  <2>2. r \in HandlingType /\ r.at = "changing" /\ r.user = u /\ r.token = None /\ r.hash = Hash(q)
    BY <1>0 DEF HandlingType
  <2> HIDE DEF r
  <2> QED BY <1>0, <2>1, <2>2, BeginKeeps
<1>3. ASSUME NEW t \in Token, FindStored(h, t)
      PROVE  /\ HandlersKnow' /\ Registered' /\ LiveIsUnspent' /\ ForksOverlap' /\ NotTwice'
             /\ RevokedForAReason' /\ OldPasswordEnds' /\ OutdatedForAReason'
  <2> DEFINE r == Rec("revoking", owner[t], t, grant[t], t \in late)
  <2>1. /\ handling[h] = Idle /\ handling' = [handling EXCEPT ![h] = r] /\ UNCHANGED <<rows, history>>
        /\ passwordHash' = passwordHash /\ t \in Live /\ t \in issued
    BY <1>3 DEF FindStored, Begin, Live
  <2>2. r.at = "revoking" /\ r.user = owner[t] /\ r.token = t /\ r.hash = grant[t] /\ r.late = (t \in late)
    OBVIOUS
  <2>3. r \in HandlingType /\ owner[t] \in User
    BY <2>1 DEF HandlingType, IInv, TypeOK
  <2>4. passwordHash[owner[t]] # NoHash /\ grant[t] # NoHash
    BY <2>1 DEF IInv, Registered
  <2>5. \/ grant[t] = passwordHash[owner[t]] \/ t \in late \/ owner[t] \in unfinished
        \/ \E g \in Handler : handling[g].at = "ending" /\ handling[g].user = owner[t]
    BY <2>1 DEF IInv, OldPasswordEnds
  <2> HIDE DEF r
  <2> QED BY <2>1, <2>2, <2>3, <2>4, <2>5, BeginKeeps
<1> QED BY <1>1, <1>2, <1>3

(***************************************************************************)
(* The other steps                                                         *)
(***************************************************************************)
LEMMA IssueKeeps ==
  ASSUME IInv, NEW h \in Handler, NEW t \in Token, IssueTokens(h, t)
  PROVE  /\ HandlersKnow' /\ Registered' /\ LiveIsUnspent' /\ ForksOverlap' /\ NotTwice'
         /\ RevokedForAReason' /\ OldPasswordEnds' /\ OutdatedForAReason'
<1> DEFINE k == handling[h].token
           u == handling[h].user
<1>1. /\ handling[h].at = "issuing" /\ t \notin issued /\ t \notin revoked
      /\ issued' = issued \union {t} /\ revoked' = revoked /\ passwordHash' = passwordHash
      /\ UNCHANGED <<ended, dropped, unfinished>>
  BY DEF IssueTokens, IInv, TypeOK
<1>2. /\ handling'[h].at = "idle"
      /\ \A g \in Handler \ {h} : handling'[g] = handling[g]
  BY DEF IssueTokens, IInv, TypeOK, Idle
<1>3. /\ owner'[t] = u /\ from'[t] = k /\ (k # None => by'[t] = h) /\ grant'[t] = handling[h].hash
      /\ \A s \in issued : owner'[s] = owner[s] /\ from'[s] = from[s] /\ by'[s] = by[s] /\ grant'[s] = grant[s]
  BY <1>1 DEF IssueTokens, IInv, TypeOK
<1>4. late \subseteq late' /\ (handling[h].late => t \in late')
  BY DEF IssueTokens
<1>5. u \in User /\ (k # None => k \in revoked) /\ handling[h].hash # NoHash /\ passwordHash[u] # NoHash
  BY <1>1 DEF IInv, HandlersKnow, Registered
<1>6. HandlersKnow'
  BY <1>1, <1>2 DEF IInv, HandlersKnow
<1>7. Registered'
  <2>1. \A s \in issued' : grant'[s] # NoHash /\ passwordHash'[owner'[s]] # NoHash
    BY <1>1, <1>3, <1>5 DEF IInv, Registered
  <2> QED BY <1>1, <1>2, <2>1 DEF IInv, Registered
<1>8. LiveIsUnspent'
  BY <1>1, <1>3, <1>5 DEF IInv, LiveIsUnspent
<1>9. ForksOverlap'
  <2>1. \A s \in issued : from[s] = k /\ k # None => by[s] # h
    BY <1>1 DEF IInv, NotTwice
  <2> QED BY <1>1, <1>3, <2>1 DEF IInv, ForksOverlap
<1>10. NotTwice'
  <2>1. ASSUME NEW g \in Handler, NEW s \in issued', handling'[g].at \in {"revoking", "issuing"},
               handling'[g].token # None, from'[s] = handling'[g].token
        PROVE  by'[s] # g
    <3>1. g # h /\ handling'[g] = handling[g]
      BY <1>2, <2>1
    <3>2. CASE s = t
      BY <1>3, <2>1, <3>1, <3>2
    <3>3. CASE s # t
      BY <1>1, <1>3, <2>1, <3>1, <3>3 DEF IInv, NotTwice
    <3> QED BY <3>2, <3>3
  <2> QED BY <2>1 DEF NotTwice
<1>11. RevokedForAReason'
  <2>1. ASSUME NEW r \in revoked
        PROVE  \/ r \in ended \/ r \in dropped
               \/ \E s \in issued' : from'[s] = r
               \/ \E g \in Handler : handling'[g].at = "issuing" /\ handling'[g].token = r
    <3>1. CASE k = r
      BY <1>1, <1>3, <3>1
    <3>2. CASE k # r
      BY <1>1, <1>2, <1>3, <3>2 DEF IInv, RevokedForAReason
    <3> QED BY <3>1, <3>2
  <2> QED BY <1>1, <2>1 DEF RevokedForAReason
<1>12. \A g \in Handler : handling[g].at = "ending" => handling'[g] = handling[g]
  BY <1>1, <1>2
<1>13. OldPasswordEnds'
  <2>1. Live' = Live \union {t}
    BY <1>1 DEF Live
  <2>2. \/ handling[h].hash = passwordHash[u] \/ handling[h].late \/ u \in unfinished
        \/ \E g \in Handler : handling[g].at = "ending" /\ handling[g].user = u
    BY <1>1 DEF IInv, OutdatedForAReason
  <2>3. ASSUME NEW s \in Live'
        PROVE  \/ grant'[s] = passwordHash[owner'[s]] \/ s \in late' \/ owner'[s] \in unfinished
               \/ \E g \in Handler : handling'[g].at = "ending" /\ handling'[g].user = owner'[s]
    <3>1. CASE s = t
      BY <1>3, <1>4, <1>12, <2>2, <3>1
    <3>2. CASE s # t
      <4>1. s \in Live /\ s \in issued
        BY <2>1, <3>2 DEF Live
      <4> QED BY <1>3, <1>4, <1>12, <4>1 DEF IInv, OldPasswordEnds
    <3> QED BY <3>1, <3>2
  <2> QED BY <1>1, <2>3 DEF OldPasswordEnds
<1>14. OutdatedForAReason'
  BY <1>1, <1>2, <1>12 DEF IInv, OutdatedForAReason
<1> QED BY <1>6, <1>7, <1>8, <1>9, <1>10, <1>11, <1>13, <1>14

LEMMA RevokeKeeps ==
  ASSUME IInv, NEW h \in Handler, RevokeStored(h)
  PROVE  /\ HandlersKnow' /\ Registered' /\ LiveIsUnspent' /\ ForksOverlap' /\ NotTwice'
         /\ RevokedForAReason' /\ OldPasswordEnds' /\ OutdatedForAReason'
<1>1. /\ handling[h].at = "revoking" /\ revoked' = revoked \union {handling[h].token}
      /\ UNCHANGED <<passwordHash, issued, owner, history>>
  BY DEF RevokeStored
<1>2. /\ handling'[h] = [handling[h] EXCEPT !.at = "issuing"]
      /\ \A g \in Handler \ {h} : handling'[g] = handling[g]
  BY DEF RevokeStored, IInv, TypeOK
<1>3. /\ handling'[h].at = "issuing" /\ handling'[h].token = handling[h].token
      /\ handling'[h].user = handling[h].user /\ handling'[h].hash = handling[h].hash
      /\ handling'[h].late = handling[h].late
  BY <1>2 DEF IInv, TypeOK, HandlingType
<1>4. \A g \in Handler : handling[g].at \in {"issuing", "ending"} => handling'[g] = handling[g]
  BY <1>1, <1>2
<1>5. \A g \in Handler :
         /\ handling'[g].token = handling[g].token /\ handling'[g].user = handling[g].user
         /\ handling'[g].hash = handling[g].hash /\ handling'[g].late = handling[g].late
         /\ g # h => handling'[g].at = handling[g].at
  BY <1>2, <1>3
<1> USE DEF history
<1>6. HandlersKnow'
  BY <1>1, <1>2, <1>3 DEF IInv, HandlersKnow
<1>7. Registered'
  BY <1>1, <1>3, <1>5 DEF IInv, Registered
<1>8. LiveIsUnspent' /\ ForksOverlap'
  BY <1>1 DEF IInv, LiveIsUnspent, ForksOverlap
<1>9. NotTwice'
  BY <1>1, <1>3, <1>5 DEF IInv, NotTwice
<1>10. RevokedForAReason'
  BY <1>1, <1>3, <1>4 DEF IInv, RevokedForAReason
<1>11. OldPasswordEnds'
  <2>1. Live' \subseteq Live
    BY <1>1 DEF Live
  <2> QED BY <1>1, <1>4, <2>1 DEF IInv, OldPasswordEnds
<1>12. OutdatedForAReason'
  <2>1. ASSUME NEW k \in Handler, handling'[k].at \in {"revoking", "issuing"}
        PROVE  \/ handling'[k].hash = passwordHash[handling'[k].user]
               \/ handling'[k].late \/ handling'[k].user \in unfinished
               \/ \E g \in Handler : handling'[g].at = "ending" /\ handling'[g].user = handling'[k].user
    <3>1. handling[k].at \in {"revoking", "issuing"}
      BY <1>1, <1>5, <2>1
    <3>2. \/ handling[k].hash = passwordHash[handling[k].user]
          \/ handling[k].late \/ handling[k].user \in unfinished
          \/ \E g \in Handler : handling[g].at = "ending" /\ handling[g].user = handling[k].user
      BY <3>1 DEF IInv, OutdatedForAReason
    <3> QED BY <1>4, <1>5, <3>2
  <2> QED BY <1>1, <2>1 DEF OutdatedForAReason
<1> QED BY <1>6, <1>7, <1>8, <1>9, <1>10, <1>11, <1>12

\* The new password outdates the sessions of its user, whose end is now due.
LEMMA UpdateKeeps ==
  ASSUME IInv, NEW h \in Handler, UpdatePassword(h)
  PROVE  /\ HandlersKnow' /\ Registered' /\ LiveIsUnspent' /\ ForksOverlap' /\ NotTwice'
         /\ RevokedForAReason' /\ OldPasswordEnds' /\ OutdatedForAReason'
<1> USE DEF rows, history
<1> DEFINE u == handling[h].user
<1>1. /\ handling[h].at = "changing" /\ u \in User /\ handling[h].hash # NoHash
      /\ UNCHANGED <<rows, history>> /\ Live' = Live
  BY DEF UpdatePassword, IInv, HandlersKnow, Registered, Live
<1>2. /\ passwordHash'[u] = handling[h].hash
      /\ \A v \in User \ {u} : passwordHash'[v] = passwordHash[v]
  BY <1>1 DEF UpdatePassword, IInv, TypeOK
<1>3. /\ handling'[h].at = "ending" /\ handling'[h].user = u /\ handling'[h].hash = handling[h].hash
      /\ \A g \in Handler \ {h} : handling'[g] = handling[g]
  BY DEF UpdatePassword, IInv, TypeOK, HandlingType
<1>4. \A g \in Handler : handling[g].at \in {"issuing", "ending"} => handling'[g] = handling[g]
  BY <1>1, <1>3
<1>5. HandlersKnow'
  BY <1>1, <1>3 DEF IInv, HandlersKnow
<1>6. Registered'
  <2>1. \A v \in User : passwordHash[v] # NoHash => passwordHash'[v] # NoHash
    BY <1>1, <1>2
  <2>2. \A t \in issued : grant[t] # NoHash /\ passwordHash'[owner[t]] # NoHash
    BY <2>1 DEF IInv, Registered, TypeOK
  <2>3. \A g \in Handler : handling[g].at # "idle" =>
          handling[g].hash # NoHash /\ passwordHash'[handling[g].user] # NoHash
    BY <2>1 DEF IInv, Registered, HandlersKnow
  <2> QED BY <1>1, <1>3, <2>2, <2>3 DEF Registered
<1>7. LiveIsUnspent' /\ ForksOverlap'
  BY <1>1 DEF IInv, LiveIsUnspent, ForksOverlap
<1>8. NotTwice'
  BY <1>1, <1>3 DEF IInv, NotTwice
<1>9. RevokedForAReason'
  BY <1>1, <1>4 DEF IInv, RevokedForAReason
<1>10. OldPasswordEnds'
  <2>1. ASSUME NEW t \in Live
        PROVE  \/ grant[t] = passwordHash'[owner[t]] \/ t \in late \/ owner[t] \in unfinished
               \/ \E g \in Handler : handling'[g].at = "ending" /\ handling'[g].user = owner[t]
    <3>1. CASE owner[t] = u
      BY <1>3, <3>1
    <3>2. CASE owner[t] # u
      <4>1. passwordHash'[owner[t]] = passwordHash[owner[t]]
        BY <1>2, <3>2 DEF IInv, TypeOK, Live
      <4> QED BY <1>4, <4>1 DEF IInv, OldPasswordEnds
    <3> QED BY <3>1, <3>2
  <2> QED BY <1>1, <2>1 DEF OldPasswordEnds
<1>11. OutdatedForAReason'
  <2>1. ASSUME NEW k \in Handler, handling'[k].at \in {"revoking", "issuing"}
        PROVE  \/ handling'[k].hash = passwordHash'[handling'[k].user]
               \/ handling'[k].late \/ handling'[k].user \in unfinished
               \/ \E g \in Handler : handling'[g].at = "ending" /\ handling'[g].user = handling'[k].user
    <3>1. handling'[k] = handling[k] /\ handling[k].user \in User
      BY <1>3, <2>1 DEF IInv, HandlersKnow
    <3>2. CASE handling[k].user = u
      BY <1>3, <3>1, <3>2
    <3>3. CASE handling[k].user # u
      BY <1>2, <1>4, <2>1, <3>1, <3>3 DEF IInv, OutdatedForAReason
    <3> QED BY <3>2, <3>3
  <2> QED BY <1>1, <2>1 DEF OutdatedForAReason
<1> QED BY <1>5, <1>6, <1>7, <1>8, <1>9, <1>10, <1>11

\* What is left of the sessions of the user are requests in flight, all of
\* which are late.
LEMMA EndKeeps ==
  ASSUME IInv, NEW h \in Handler, EndSessions(h)
  PROVE  /\ HandlersKnow' /\ Registered' /\ LiveIsUnspent' /\ ForksOverlap' /\ NotTwice'
         /\ RevokedForAReason' /\ OldPasswordEnds' /\ OutdatedForAReason'
<1> DEFINE u == handling[h].user
<1>1. /\ handling[h].at = "ending" /\ u \in User
      /\ revoked' = revoked \union TokensOf(u) /\ ended' = ended \union TokensOf(u)
      /\ unfinished' = unfinished \ {u}
      /\ UNCHANGED <<passwordHash, issued, owner, from, by, grant, late, dropped>>
  BY DEF EndSessions, IInv, HandlersKnow
<1>2. /\ handling'[h].at = "idle"
      /\ \A g \in Handler \ {h} :
           \/ handling'[g] = handling[g]
                /\ ~(handling[g].at \in {"revoking", "issuing"} /\ handling[g].user = u)
           \/ handling'[g] = [handling[g] EXCEPT !.late = TRUE]
  BY DEF EndSessions, Overtaken, Idle
<1>3. \A g \in Handler \ {h} :
        /\ handling'[g].at = handling[g].at /\ handling'[g].user = handling[g].user
        /\ handling'[g].token = handling[g].token /\ handling'[g].hash = handling[g].hash
        /\ handling[g].late => handling'[g].late
        /\ handling[g].at \in {"revoking", "issuing"} /\ handling[g].user = u => handling'[g].late
  <2> SUFFICES ASSUME NEW g \in Handler \ {h}
               PROVE  /\ handling'[g].at = handling[g].at /\ handling'[g].user = handling[g].user
                      /\ handling'[g].token = handling[g].token /\ handling'[g].hash = handling[g].hash
                      /\ handling[g].late => handling'[g].late
                      /\ handling[g].at \in {"revoking", "issuing"} /\ handling[g].user = u => handling'[g].late
    OBVIOUS
  <2>1. CASE handling'[g] = handling[g] /\ ~(handling[g].at \in {"revoking", "issuing"} /\ handling[g].user = u)
    BY <2>1
  <2>2. CASE handling'[g] = [handling[g] EXCEPT !.late = TRUE]
    <3>1. handling[g] \in HandlingType
      BY DEF IInv, TypeOK
    <3>2. /\ handling'[g].at = handling[g].at /\ handling'[g].user = handling[g].user
          /\ handling'[g].token = handling[g].token /\ handling'[g].hash = handling[g].hash
          /\ handling'[g].late = TRUE
      BY <2>2, <3>1 DEF HandlingType
    <3> QED BY <3>2
  <2> QED BY <1>2, <2>1, <2>2
<1>4. HandlersKnow'
  BY <1>1, <1>2, <1>3 DEF IInv, HandlersKnow
<1>5. Registered'
  BY <1>1, <1>2, <1>3 DEF IInv, Registered
<1>6. LiveIsUnspent' /\ ForksOverlap'
  BY <1>1 DEF IInv, LiveIsUnspent, ForksOverlap
<1>7. NotTwice'
  BY <1>1, <1>2, <1>3 DEF IInv, NotTwice
<1>8. RevokedForAReason'
  BY <1>1, <1>3 DEF IInv, RevokedForAReason
<1>9. OldPasswordEnds'
  <2>1. \A t \in Live' : t \in Live /\ owner[t] # u
    BY <1>1 DEF Live, TokensOf
  <2> QED BY <1>1, <1>3, <2>1 DEF IInv, OldPasswordEnds
<1>10. OutdatedForAReason'
  <2>1. ASSUME NEW k \in Handler, handling'[k].at \in {"revoking", "issuing"}
        PROVE  \/ handling'[k].hash = passwordHash[handling'[k].user]
               \/ handling'[k].late \/ handling'[k].user \in unfinished'
               \/ \E g \in Handler : handling'[g].at = "ending" /\ handling'[g].user = handling'[k].user
    <3>1. k # h /\ handling[k].at \in {"revoking", "issuing"}
      BY <1>2, <1>3, <2>1
    <3>2. CASE handling[k].user = u
      BY <1>3, <3>1, <3>2
    <3>3. CASE handling[k].user # u
      BY <1>1, <1>3, <3>1, <3>3 DEF IInv, OutdatedForAReason
    <3> QED BY <3>2, <3>3
  <2> QED BY <1>1, <2>1 DEF OutdatedForAReason
<1> QED BY <1>4, <1>5, <1>6, <1>7, <1>8, <1>9, <1>10

LEMMA InterruptKeeps ==
  ASSUME IInv, NEW h \in Handler, Interrupt(h)
  PROVE  /\ HandlersKnow' /\ Registered' /\ LiveIsUnspent' /\ ForksOverlap' /\ NotTwice'
         /\ RevokedForAReason' /\ OldPasswordEnds' /\ OutdatedForAReason'
<1> USE DEF rows
<1>1. /\ UNCHANGED <<passwordHash, rows, from, by, grant, late, ended>> /\ Live' = Live
      /\ dropped \subseteq dropped' /\ unfinished \subseteq unfinished'
      /\ handling[h].at = "issuing" /\ handling[h].token # None => handling[h].token \in dropped'
      /\ handling[h].at = "ending" => handling[h].user \in unfinished'
  BY DEF Interrupt, Live
<1>2. /\ handling'[h].at = "idle"
      /\ \A g \in Handler \ {h} : handling'[g] = handling[g]
  BY DEF Interrupt, IInv, TypeOK, Idle
<1>3. HandlersKnow' /\ Registered' /\ NotTwice'
  BY <1>1, <1>2 DEF IInv, HandlersKnow, Registered, NotTwice
<1>4. LiveIsUnspent' /\ ForksOverlap'
  BY <1>1 DEF IInv, LiveIsUnspent, ForksOverlap
<1>5. RevokedForAReason'
  BY <1>1, <1>2, NoneAssumption DEF IInv, RevokedForAReason, TypeOK
<1>6. OldPasswordEnds'
  BY <1>1, <1>2 DEF IInv, OldPasswordEnds
<1>7. OutdatedForAReason'
  BY <1>1, <1>2 DEF IInv, OutdatedForAReason
<1> QED BY <1>3, <1>4, <1>5, <1>6, <1>7

LEMMA LogoutKeeps ==
  ASSUME IInv, NEW u \in User, NEW t \in Token, Logout(u, t)
  PROVE  /\ HandlersKnow' /\ Registered' /\ LiveIsUnspent' /\ ForksOverlap' /\ NotTwice'
         /\ RevokedForAReason' /\ OldPasswordEnds' /\ OutdatedForAReason'
<1>1. /\ revoked' = revoked \union {t} /\ ended' = ended \union {t} /\ Live' \subseteq Live
      /\ UNCHANGED <<passwordHash, issued, owner, handling, from, by, grant, late, dropped, unfinished>>
  BY DEF Logout, Live
<1>2. HandlersKnow' /\ Registered' /\ NotTwice'
  BY <1>1 DEF IInv, HandlersKnow, Registered, NotTwice
<1>3. LiveIsUnspent' /\ ForksOverlap' /\ RevokedForAReason'
  BY <1>1 DEF IInv, LiveIsUnspent, ForksOverlap, RevokedForAReason
<1>4. OldPasswordEnds' /\ OutdatedForAReason'
  BY <1>1 DEF IInv, OldPasswordEnds, OutdatedForAReason
<1> QED BY <1>2, <1>3, <1>4

LEMMA StutterKeeps ==
  ASSUME IInv, UNCHANGED vars
  PROVE  /\ HandlersKnow' /\ Registered' /\ LiveIsUnspent' /\ ForksOverlap' /\ NotTwice'
         /\ RevokedForAReason' /\ OldPasswordEnds' /\ OutdatedForAReason'
<1> USE DEF IInv, vars, rows, history
<1>1. HandlersKnow' /\ Registered' /\ NotTwice'
  BY DEF HandlersKnow, Registered, NotTwice
<1>2. LiveIsUnspent' /\ ForksOverlap' /\ RevokedForAReason'
  BY DEF LiveIsUnspent, ForksOverlap, RevokedForAReason
<1>3. OldPasswordEnds' /\ OutdatedForAReason'
  BY DEF OldPasswordEnds, OutdatedForAReason, Live
<1> QED BY <1>1, <1>2, <1>3

(***************************************************************************)
(* The theorems                                                            *)
(***************************************************************************)
LEMMA NextIInv == IInv /\ [Next]_vars => IInv'
<1> SUFFICES ASSUME IInv, [Next]_vars PROVE IInv'
  OBVIOUS
<1> DEFINE Kept == /\ HandlersKnow' /\ Registered' /\ LiveIsUnspent' /\ ForksOverlap' /\ NotTwice'
                   /\ RevokedForAReason' /\ OldPasswordEnds' /\ OutdatedForAReason'
<1>1. TypeOK'
  BY NextTypeOK DEF IInv
<1>2. ASSUME Next PROVE Kept
  <2>1. ASSUME NEW h \in Handler,
               \/ \E u \in User, p \in Password : Register(h, u, p) \/ Login(h, u, p)
               \/ \E u \in User, p, q \in Password : FindForChange(h, u, p, q)
               \/ \E t \in Token : FindStored(h, t)
        PROVE  Kept
    BY <2>1, BeginSteps
  <2>2. ASSUME NEW h \in Handler, NEW t \in Token, IssueTokens(h, t) PROVE Kept
    BY <2>2, IssueKeeps
  <2>3. ASSUME NEW h \in Handler, RevokeStored(h) PROVE Kept
    BY <2>3, RevokeKeeps
  <2>4. ASSUME NEW h \in Handler, UpdatePassword(h) PROVE Kept
    BY <2>4, UpdateKeeps
  <2>5. ASSUME NEW h \in Handler, EndSessions(h) PROVE Kept
    BY <2>5, EndKeeps
  <2>6. ASSUME NEW h \in Handler, Interrupt(h) PROVE Kept
    BY <2>6, InterruptKeeps
  <2>7. ASSUME NEW u \in User, NEW t \in Token, Logout(u, t) PROVE Kept
    BY <2>7, LogoutKeeps
  <2> HIDE DEF Kept
  <2> QED BY <1>2, <2>1, <2>2, <2>3, <2>4, <2>5, <2>6, <2>7 DEF Next
<1>3. ASSUME UNCHANGED vars PROVE Kept
  BY <1>3, StutterKeeps
<1> QED BY <1>1, <1>2, <1>3 DEF IInv

LEMMA AlwaysIInv == Spec => []IInv
  BY InitIInv, NextIInv, PTL DEF Spec

\* The state is well typed: tables keep their keys, and a password is stored as
\* a hash only.
THEOREM TypeCorrect == Spec => []TypeOK
<1>1. IInv => TypeOK
  BY DEF IInv
<1> QED BY <1>1, AlwaysIInv, PTL

\* refesh never leaves a token good that it has exchanged, wherever it is cut
\* off.
THEOREM RotationRetires == Spec => []LiveIsUnspent
<1>1. IInv => LiveIsUnspent
  BY DEF IInv
<1> QED BY <1>1, AlwaysIInv, PTL

\* One token becomes two only if two requests exchange it at the same time.
THEOREM ForksNeedOverlap == Spec => []ForksOverlap
<1>1. IInv => ForksOverlap
  BY DEF IInv
<1> QED BY <1>1, AlwaysIInv, PTL

\* No request takes the session of somebody else away, and a refresh that is
\* not cut off replaces the token that it revokes.
THEOREM SessionsKept == Spec => []RevokedForAReason
<1>1. IInv => RevokedForAReason
  BY DEF IInv
<1> QED BY <1>1, AlwaysIInv, PTL

\* changePassword ends the sessions of the old password, but for requests that
\* were in flight and changes that were cut off.
THEOREM ChangeEndsSessions == Spec => []OldPasswordEnds
<1>1. IInv => OldPasswordEnds
  BY DEF IInv
<1> QED BY <1>1, AlwaysIInv, PTL

(***************************************************************************)
(* Browsers only do what handlers may do                                   *)
(***************************************************************************)
LEMMA BrowserNextAllowed == TypeOK /\ [BrowserNext]_<<vars, browsers>> => [Next]_vars
<1> SUFFICES ASSUME TypeOK, [BrowserNext]_<<vars, browsers>> PROVE [Next]_vars
  OBVIOUS
<1>l. Live \subseteq Token
  BY DEF Live, TypeOK
<1>1. ASSUME NEW b \in Browser, NEW h \in Handler,
             register(b, h) \/ login(b, h) \/ refresh(b, h) \/ changePassword(b, h)
      PROVE  Next
  <2>1. CASE register(b, h) \/ login(b, h)
    BY <2>1 DEF register, login, Next
  <2>2. CASE refresh(b, h)
    <3>1. FindStored(h, cookie[b]) /\ cookie[b] \in Token
      BY <2>2, <1>l DEF refresh, FindStored
    <3> QED BY <3>1 DEF Next
  <2>3. CASE changePassword(b, h)
    BY <2>3 DEF changePassword, Next
  <2> QED BY <1>1, <2>1, <2>2, <2>3
<1>2. ASSUME NEW b \in Browser, NEW u \in User, logout(b, u) PROVE [Next]_vars
  <2>1. CASE cookie[b] \in Live /\ owner[cookie[b]] = u
    <3>1. Logout(u, cookie[b]) /\ cookie[b] \in Token
      BY <1>2, <2>1, <1>l DEF logout
    <3> QED BY <3>1 DEF Next
  <2>2. CASE ~(cookie[b] \in Live /\ owner[cookie[b]] = u)
    BY <1>2, <2>2 DEF logout
  <2> QED BY <2>1, <2>2
<1>3. ASSUME NEW h \in Handler, NEW t \in Token, setRefreshTokenCookie(h, t) PROVE Next
  BY <1>3 DEF setRefreshTokenCookie, Next
<1>4. ASSUME NEW h \in Handler, HandlerStep(h) PROVE Next
  BY <1>4 DEF HandlerStep, Next
<1>5. ASSUME NEW a \in answers, Receive(a) \/ Lose(a) PROVE UNCHANGED vars
  BY <1>5 DEF Receive, Lose, vars
<1>6. CASE UNCHANGED <<vars, browsers>>
  BY <1>6
<1> QED BY <1>1, <1>2, <1>3, <1>4, <1>5, <1>6 DEF BrowserNext

\* AuthController adds cookies and answers to AuthService and takes nothing
\* away: whatever holds of Sessions holds with browsers.
THEOREM BrowsersUseSessions == BrowserSpec => Spec
<1>1. BrowserInit => Init
  BY DEF BrowserInit
<1>2. IInv => TypeOK
  BY DEF IInv
<1> QED BY <1>1, <1>2, BrowserNextAllowed, InitIInv, NextIInv, PTL DEF BrowserSpec, Spec

LEMMA BrowserIInv == BrowserSpec => []IInv
BY BrowsersUseSessions, AlwaysIInv, PTL

(***************************************************************************)
(* Cookies, answers and handlers                                           *)
(***************************************************************************)

\* Cookies hold tokens that were issued.
CookiesIssued == \A b \in Browser : cookie[b] # None => cookie[b] \in issued

\* A browser holds a token as its cookie, in an answer that is under way to it,
\* or in a refresh that works for it.
Holds(b, t) ==
  \/ cookie[b] = t
  \/ [to |-> b, cookie |-> t] \in answers
  \/ \E h \in BusyWith(t) : client[h] = b
OneHolder == \A t \in Token, b, c \in Browser : Holds(b, t) /\ Holds(c, t) => b = c

\* A token that is under way for the first time was not used by anybody.
Fresh(t) ==
  /\ \A b \in Browser : cookie[b] # t
  /\ BusyWith(t) = {} /\ Successors(t) = {}
  /\ t \in revoked => t \in ended
AnswersFresh == \A a \in answers : a.cookie # None => Fresh(a.cookie)

\* After a logout that overlapped with no refresh nobody is about to exchange
\* the token, or has exchanged it.
LoggedOut ==
  \A t \in presented :
    t \in revoked /\ (t \notin overlapped => BusyWith(t) = {} /\ Successors(t) = {})

Linked == OneHolder /\ AnswersFresh /\ LoggedOut /\ CookieSpentForAReason
BInv == BrowserTypeOK /\ CookiesIssued /\ Linked

LEMMA InitBInv == BrowserInit => BInv
<1> SUFFICES ASSUME BrowserInit PROVE BInv
  OBVIOUS
<1>1. /\ issued = {} /\ revoked = {} /\ answers = {} /\ presented = {}
      /\ cookie = [b \in Browser |-> None] /\ \A h \in Handler : handling[h].at = "idle"
  BY DEF BrowserInit, Init, Idle
<1>2. BrowserTypeOK /\ CookiesIssued
  BY <1>1 DEF BrowserInit, BrowserTypeOK, CookiesIssued
<1>3. \A t : BusyWith(t) = {}
  BY <1>1 DEF BusyWith
<1>4. OneHolder
  BY <1>1, <1>3, NoneAssumption DEF OneHolder, Holds
<1>5. AnswersFresh /\ LoggedOut /\ CookieSpentForAReason
  BY <1>1 DEF AnswersFresh, LoggedOut, CookieSpentForAReason
<1> QED BY <1>2, <1>4, <1>5 DEF BInv, Linked

\* The client side of a request that begins.
LEMMA ForTyped ==
  ASSUME BrowserTypeOK, NEW b \in Browser, NEW h \in Handler, For(b, h),
         \A g \in Handler : handling'[g].at # "idle" => g = h \/ handling[g].at # "idle",
         issued' = issued
  PROVE  BrowserTypeOK'
BY DEF BrowserTypeOK, For

LEMMA NextBrowserTypeOK ==
  IInv /\ BrowserTypeOK /\ CookiesIssued /\ [BrowserNext]_<<vars, browsers>>
    => BrowserTypeOK' /\ CookiesIssued'
<1> SUFFICES ASSUME IInv, BrowserTypeOK, CookiesIssued, [BrowserNext]_<<vars, browsers>>
             PROVE  BrowserTypeOK' /\ CookiesIssued'
  OBVIOUS
<1>t. TypeOK
  BY DEF IInv
<1>1. ASSUME NEW b \in Browser, NEW h \in Handler,
             register(b, h) \/ login(b, h) \/ refresh(b, h) \/ changePassword(b, h)
      PROVE  BrowserTypeOK' /\ CookiesIssued'
  <2>1. /\ For(b, h) /\ issued' = issued
        /\ \E at, u, t, hash, isLate : Begin(h, at, u, t, hash, isLate)
    BY <1>1 DEF register, login, refresh, changePassword, Register, Login, FindStored,
                FindForChange, rows
  <2>2. \A g \in Handler : g # h => handling'[g] = handling[g]
    BY <2>1, <1>t DEF Begin, TypeOK
  <2>3. BrowserTypeOK'
    BY <2>1, <2>2, ForTyped
  <2> QED BY <2>1, <2>3 DEF For, CookiesIssued
<1>2. ASSUME NEW b \in Browser, NEW u \in User, logout(b, u)
      PROVE  BrowserTypeOK' /\ CookiesIssued'
  <2>1. issued' = issued /\ handling' = handling
    BY <1>2 DEF logout, Logout, vars, rows
  <2> QED BY <1>2, <2>1 DEF logout, Presented, Sent, BrowserTypeOK, CookiesIssued, Answer
<1>3. ASSUME NEW h \in Handler, NEW t \in Token, setRefreshTokenCookie(h, t)
      PROVE  BrowserTypeOK' /\ CookiesIssued'
  <2>1. /\ issued' = issued \union {t} /\ client[h] \in Browser
        /\ handling' = [handling EXCEPT ![h] = Idle]
    BY <1>3 DEF setRefreshTokenCookie, IssueTokens, BrowserTypeOK
  <2>2. \A g \in Handler : handling'[g].at # "idle" => handling[g].at # "idle"
    BY <2>1, <1>t DEF TypeOK, Idle
  <2> QED BY <1>3, <2>1, <2>2 DEF setRefreshTokenCookie, BrowserTypeOK, CookiesIssued, Answer
<1>4. ASSUME NEW h \in Handler, HandlerStep(h) PROVE BrowserTypeOK' /\ CookiesIssued'
  <2>1. issued' = issued
    BY <1>4 DEF HandlerStep, RevokeStored, UpdatePassword, EndSessions, Interrupt, rows
  <2>2. \A g \in Handler : handling'[g].at # "idle" => handling[g].at # "idle"
    <3>1. CASE RevokeStored(h) \/ UpdatePassword(h)
      BY <3>1, <1>t DEF RevokeStored, UpdatePassword, TypeOK
    <3>2. CASE EndSessions(h)
      BY <3>2, <1>t DEF EndSessions, Overtaken, TypeOK, Idle, HandlingType
    <3>3. CASE Interrupt(h)
      BY <3>3, <1>t DEF Interrupt, TypeOK, Idle
    <3> QED BY <1>4, <3>1, <3>2, <3>3 DEF HandlerStep
  <2>3. UNCHANGED browsers
    BY <1>4 DEF HandlerStep
  <2> QED BY <2>1, <2>2, <2>3 DEF browsers, BrowserTypeOK, CookiesIssued
<1>5. ASSUME NEW a \in answers, Receive(a) \/ Lose(a) PROVE BrowserTypeOK' /\ CookiesIssued'
  <2>1. issued' = issued /\ handling' = handling
    BY <1>5 DEF Receive, Lose, vars, rows
  <2>2. a \in Answer /\ (a.cookie # None => a.cookie \in issued)
    BY DEF BrowserTypeOK
  <2> QED BY <1>5, <2>1, <2>2 DEF Receive, Lose, BrowserTypeOK, CookiesIssued, Answer
<1>6. CASE UNCHANGED <<vars, browsers>>
  BY <1>6 DEF vars, rows, browsers, BrowserTypeOK, CookiesIssued
<1> QED BY <1>1, <1>2, <1>3, <1>4, <1>5, <1>6 DEF BrowserNext

\* Steps that neither issue a token nor move a cookie, and after which nobody
\* is about to exchange a token who was not before.
LEMMA HandlersGoOn ==
  ASSUME IInv, IInv', BInv,
         UNCHANGED <<cookie, answers, lost, presented, overlapped, issued, from>>,
         ended \subseteq ended', dropped \subseteq dropped', revoked \subseteq revoked',
         \A t \in Token : BusyWith(t)' \subseteq BusyWith(t),
         \A t \in Token : \A g \in BusyWith(t)' : client'[g] = client[g],
         \A t \in revoked' : \/ t \in revoked \/ t \in ended'
                             \/ \E g \in BusyWith(t)' : handling'[g].at = "issuing",
         \A t \in Token : \A g \in BusyWith(t) :
           handling[g].at = "issuing" =>
             t \in dropped' \/ (g \in BusyWith(t)' /\ handling'[g].at = "issuing")
  PROVE  Linked'
<1>t. /\ issued \subseteq Token /\ revoked \subseteq issued /\ revoked' \subseteq issued
      /\ presented \subseteq issued
      /\ \A a \in answers : a.cookie # None => a.cookie \in issued
  BY DEF IInv, TypeOK, BInv, BrowserTypeOK
<1>s. \A t : Successors(t)' = Successors(t)
  BY DEF Successors
<1>1. OneHolder'
  <2>1. ASSUME NEW t \in Token, NEW b \in Browser, Holds(b, t)' PROVE Holds(b, t)
    BY <2>1 DEF Holds
  <2> QED BY <2>1 DEF OneHolder, BInv, Linked
<1>2. AnswersFresh'
  <2> SUFFICES ASSUME NEW a \in answers, a.cookie # None PROVE Fresh(a.cookie)'
    BY DEF AnswersFresh
  <2>1. Fresh(a.cookie) /\ a.cookie \in Token
    BY <1>t DEF BInv, Linked, AnswersFresh
  <2>2. BusyWith(a.cookie)' = {}
    BY <2>1 DEF Fresh
  <2> QED BY <2>1, <2>2, <1>s DEF Fresh
<1>3. LoggedOut'
  <2> SUFFICES ASSUME NEW t \in presented
               PROVE  /\ t \in revoked'
                      /\ t \notin overlapped => BusyWith(t)' = {} /\ Successors(t)' = {}
    BY DEF LoggedOut
  <2> QED BY <1>t, <1>s DEF BInv, Linked, LoggedOut
<1>4. CookieSpentForAReason'
  <2> SUFFICES ASSUME NEW b \in Browser, NEW t, t = cookie[b], t \in revoked'
               PROVE  \/ t \in ended' \union dropped'
                      \/ \E h \in BusyWith(t)' : handling'[h].at = "issuing"
                      \/ \E s \in Successors(t)' : s \in lost \/ [to |-> b, cookie |-> s] \in answers
    BY DEF CookieSpentForAReason
  <2>1. CASE t \in revoked
    <3>1. \/ t \in ended \union dropped
          \/ \E h \in BusyWith(t) : handling[h].at = "issuing"
          \/ \E s \in Successors(t) : s \in lost \/ [to |-> b, cookie |-> s] \in answers
      BY <2>1 DEF BInv, Linked, CookieSpentForAReason
    <3> QED BY <2>1, <3>1, <1>s, <1>t
  <2> QED BY <2>1
<1> QED BY <1>1, <1>2, <1>3, <1>4 DEF Linked

\* A request that exchanges no token begins.
LEMMA BeginLinked ==
  ASSUME IInv, IInv', BInv, NEW b \in Browser, NEW h \in Handler, For(b, h),
         NEW at, NEW u, NEW hash, Begin(h, at, u, None, hash, FALSE),
         UNCHANGED <<rows, history>>
  PROVE  Linked'
<1>1. \A t \in Token : BusyWith(t)' = BusyWith(t)
  <2>1. ASSUME NEW t \in Token, NEW g \in Handler PROVE g \in BusyWith(t)' <=> g \in BusyWith(t)
    <3>1. CASE g = h
      BY <3>1, NoneAssumption DEF Begin, BusyWith, Idle, IInv, TypeOK
    <3>2. CASE g # h
      BY <3>2 DEF Begin, BusyWith, IInv, TypeOK
    <3> QED BY <3>1, <3>2
  <2> QED BY <2>1 DEF BusyWith
<1>2. \A t \in Token : \A g \in BusyWith(t) :
        g # h /\ client'[g] = client[g] /\ handling'[g] = handling[g]
  BY DEF Begin, BusyWith, Idle, IInv, TypeOK, For, BInv, BrowserTypeOK
<1>3. UNCHANGED <<cookie, answers, lost, presented, overlapped, issued, from, ended, dropped,
                  revoked>>
  BY DEF For, rows, history
<1> QED BY <1>1, <1>2, <1>3, HandlersGoOn

\* The other steps of a handler.
LEMMA HandlerLinked ==
  ASSUME IInv, IInv', BInv, NEW h \in Handler, HandlerStep(h)
  PROVE  Linked'
<1>t. TypeOK
  BY DEF IInv
<1>0. UNCHANGED <<cookie, client, answers, lost, presented, overlapped>>
  BY DEF HandlerStep, browsers
<1>1. CASE RevokeStored(h)
  <2>1. \A t \in Token : BusyWith(t)' = BusyWith(t)
    BY <1>1, <1>t DEF RevokeStored, BusyWith, TypeOK
  <2>2. \A g \in Handler : handling[g].at = "issuing" => handling'[g] = handling[g]
    BY <1>1, <1>t DEF RevokeStored, TypeOK
  <2>3. \A t \in revoked' : t \in revoked \/ \E g \in BusyWith(t)' : handling'[g].at = "issuing"
    BY <1>1, <1>t DEF RevokeStored, BusyWith, TypeOK
  <2> QED BY <1>0, <1>1, <2>1, <2>2, <2>3, HandlersGoOn DEF RevokeStored, history, BusyWith
<1>2. CASE UpdatePassword(h)
  <2>1. \A t \in Token : BusyWith(t)' = BusyWith(t)
    BY <1>2, <1>t DEF UpdatePassword, BusyWith, TypeOK
  <2>2. \A g \in Handler : handling[g].at = "issuing" => handling'[g] = handling[g]
    BY <1>2, <1>t DEF UpdatePassword, TypeOK
  <2> QED BY <1>0, <1>2, <2>1, <2>2, HandlersGoOn DEF UpdatePassword, rows, history, BusyWith
<1>3. CASE EndSessions(h)
  <2>1. \A g \in Handler : /\ handling[g].at # "ending" =>
                                /\ handling'[g].at = handling[g].at
                                /\ handling'[g].token = handling[g].token
                           /\ handling[g].at = "ending" => handling'[g].at \in {"idle", "ending"}
    BY <1>3, <1>t DEF EndSessions, Overtaken, TypeOK, Idle, HandlingType
  <2>2. \A t \in Token : BusyWith(t)' = BusyWith(t)
    BY <2>1, <1>t DEF BusyWith, TypeOK, HandlingType
  <2> QED BY <1>0, <1>3, <2>1, <2>2, HandlersGoOn DEF EndSessions, BusyWith
<1>4. CASE Interrupt(h)
  <2>1. \A g \in Handler : g # h => handling'[g] = handling[g]
    BY <1>4, <1>t DEF Interrupt, TypeOK
  <2>2. handling'[h].at = "idle"
    BY <1>4, <1>t DEF Interrupt, TypeOK, Idle
  <2>3. \A t \in Token : BusyWith(t)' = BusyWith(t) \ {h}
    BY <2>1, <2>2 DEF BusyWith
  <2>4. \A t \in Token : h \in BusyWith(t) /\ handling[h].at = "issuing" => t \in dropped'
    BY <1>4, NoneAssumption DEF Interrupt, BusyWith
  <2>5. dropped \subseteq dropped'
    BY <1>4 DEF Interrupt
  <2> QED BY <1>0, <1>4, <2>1, <2>3, <2>4, <2>5, HandlersGoOn DEF Interrupt, rows, BusyWith
<1> QED BY <1>1, <1>2, <1>3, <1>4 DEF HandlerStep

\* A refresh of the cookie begins.
LEMMA RefreshLinked ==
  ASSUME IInv, IInv', BInv, NEW b \in Browser, NEW h \in Handler, refresh(b, h)
  PROVE  Linked'
<1> DEFINE u == cookie[b]
<1>t. /\ TypeOK /\ issued \subseteq Token /\ revoked \subseteq issued /\ presented \subseteq issued
      /\ \A a \in answers : a.cookie # None => a.cookie \in issued
  BY DEF IInv, TypeOK, BInv, BrowserTypeOK
<1>0. /\ UNCHANGED <<cookie, answers, lost, presented, overlapped, issued, from, ended, dropped,
                     revoked>>
      /\ client' = [client EXCEPT ![h] = b] /\ u \in issued /\ u \notin revoked
  BY DEF refresh, For, FindStored, rows, history, Live
<1>1. \A g \in Handler : g # h => handling'[g] = handling[g] /\ client'[g] = client[g]
  BY <1>t, <1>0 DEF refresh, FindStored, Begin, TypeOK, BInv, BrowserTypeOK
<1>2. /\ handling'[h].at = "revoking" /\ handling'[h].token = u /\ handling[h].at = "idle"
      /\ client'[h] = b
  BY <1>t, <1>0 DEF refresh, FindStored, Begin, TypeOK, Idle, BInv, BrowserTypeOK
<1>3. \A t : BusyWith(t)' = IF t = u THEN BusyWith(t) \union {h} ELSE BusyWith(t)
  BY <1>1, <1>2 DEF BusyWith
<1>4. \A t : \A g \in BusyWith(t) :
        g \in Handler /\ g # h /\ handling'[g] = handling[g] /\ client'[g] = client[g]
  BY <1>1, <1>2 DEF BusyWith
<1>s. \A t : Successors(t)' = Successors(t)
  BY <1>0 DEF Successors
<1> HIDE DEF u
<1>5. OneHolder'
  <2>1. ASSUME NEW t \in Token, NEW c \in Browser, Holds(c, t)' PROVE Holds(c, t)
    <3>1. CASE t = u /\ c = b
      BY <3>1 DEF Holds, u
    <3>2. CASE ~(t = u /\ c = b)
      BY <2>1, <3>2, <1>0, <1>2, <1>3, <1>4 DEF Holds
    <3> QED BY <3>1, <3>2
  <2> QED BY <2>1 DEF OneHolder, BInv, Linked
<1>6. AnswersFresh'
  <2> SUFFICES ASSUME NEW a \in answers, a.cookie # None PROVE Fresh(a.cookie)'
    BY <1>0 DEF AnswersFresh
  <2>1. Fresh(a.cookie)
    BY DEF BInv, Linked, AnswersFresh
  <2>2. a.cookie # u
    BY <2>1 DEF Fresh, u
  <2> QED BY <2>1, <2>2, <1>0, <1>3, <1>s DEF Fresh
<1>7. LoggedOut'
  <2>1. u \notin presented
    BY <1>0 DEF BInv, Linked, LoggedOut
  <2> QED BY <2>1, <1>0, <1>3, <1>s DEF BInv, Linked, LoggedOut
<1>8. CookieSpentForAReason'
  <2> SUFFICES ASSUME NEW c \in Browser, NEW t, t = cookie[c], t \in revoked
               PROVE  \/ t \in ended \union dropped
                      \/ \E g \in BusyWith(t)' : handling'[g].at = "issuing"
                      \/ \E s \in Successors(t)' : s \in lost \/ [to |-> c, cookie |-> s] \in answers
    BY <1>0 DEF CookieSpentForAReason
  <2>1. \/ t \in ended \union dropped
        \/ \E g \in BusyWith(t) : handling[g].at = "issuing"
        \/ \E s \in Successors(t) : s \in lost \/ [to |-> c, cookie |-> s] \in answers
    BY DEF BInv, Linked, CookieSpentForAReason
  <2> QED BY <2>1, <1>0, <1>3, <1>4, <1>s
<1> QED BY <1>5, <1>6, <1>7, <1>8 DEF Linked

\* logout, with a token that it revokes or without.
LEMMA LogoutLinked ==
  ASSUME IInv, IInv', BInv, NEW b \in Browser, NEW u \in User, logout(b, u)
  PROVE  Linked'
<1> DEFINE new == [to |-> b, cookie |-> None]
<1>t. /\ TypeOK /\ issued \subseteq Token /\ revoked \subseteq issued /\ presented \subseteq issued
      /\ \A a \in answers : a.cookie # None => a.cookie \in issued
  BY DEF IInv, TypeOK, BInv, BrowserTypeOK
<1>0. /\ UNCHANGED <<cookie, client, lost, issued, from, handling, dropped>>
      /\ answers' = answers \union {new}
      /\ presented' = presented \union {t \in Sent(b) : owner[t] = u}
      /\ overlapped' = overlapped \union {t \in Sent(b) : BusyWith(t) # {} \/ Successors(t) # {}}
      /\ ended \subseteq ended' /\ revoked \subseteq revoked'
      /\ \A t \in revoked' : t \in revoked \/ t \in ended'
  BY DEF logout, Presented, Logout, vars, rows, history
<1>1. \A t : BusyWith(t)' = BusyWith(t) /\ Successors(t)' = Successors(t)
  BY <1>0 DEF BusyWith, Successors
<1>2. \A t \in Sent(b) : owner[t] = u => t \in revoked'
  <2> SUFFICES ASSUME NEW t \in Sent(b), owner[t] = u, t \notin revoked PROVE t \in revoked'
    BY <1>0
  <2>1. t = cookie[b] /\ t \in issued
    BY DEF Sent
  <2>2. cookie[b] \in Live /\ owner[cookie[b]] = u
    BY <2>1 DEF Live
  <2> QED BY <2>1, <2>2 DEF logout, Logout
<1>3. OneHolder'
  <2>1. ASSUME NEW t \in Token, NEW c \in Browser, Holds(c, t)' PROVE Holds(c, t)
    <3>1. [to |-> c, cookie |-> t] # new
      BY NoneAssumption
    <3> QED BY <2>1, <3>1, <1>0, <1>1 DEF Holds
  <2> QED BY <2>1 DEF OneHolder, BInv, Linked
<1>4. AnswersFresh'
  <2> SUFFICES ASSUME NEW a \in answers, a.cookie # None PROVE Fresh(a.cookie)'
    BY <1>0 DEF AnswersFresh
  <2>1. Fresh(a.cookie)
    BY DEF BInv, Linked, AnswersFresh
  <2> QED BY <2>1, <1>0, <1>1 DEF Fresh
<1>5. LoggedOut'
  <2> SUFFICES ASSUME NEW t \in presented'
               PROVE  /\ t \in revoked'
                      /\ t \notin overlapped' => BusyWith(t) = {} /\ Successors(t) = {}
    BY <1>1 DEF LoggedOut
  <2>1. CASE t \in presented
    BY <2>1, <1>0 DEF BInv, Linked, LoggedOut
  <2>2. CASE t \in Sent(b) /\ owner[t] = u
    BY <2>2, <1>0, <1>2
  <2> QED BY <1>0, <2>1, <2>2
<1>6. CookieSpentForAReason'
  <2> SUFFICES ASSUME NEW c \in Browser, NEW t, t = cookie[c], t \in revoked'
               PROVE  \/ t \in ended' \union dropped
                      \/ \E h \in BusyWith(t) : handling[h].at = "issuing"
                      \/ \E s \in Successors(t) : s \in lost \/ [to |-> c, cookie |-> s] \in answers'
    BY <1>0, <1>1 DEF CookieSpentForAReason
  <2>1. CASE t \in revoked
    <3>1. \/ t \in ended \union dropped
          \/ \E h \in BusyWith(t) : handling[h].at = "issuing"
          \/ \E s \in Successors(t) : s \in lost \/ [to |-> c, cookie |-> s] \in answers
      BY <2>1 DEF BInv, Linked, CookieSpentForAReason
    <3> QED BY <3>1, <1>0
  <2> QED BY <2>1, <1>0
<1> QED BY <1>3, <1>4, <1>5, <1>6 DEF Linked

\* The row of a new token, and the answer with it.
LEMMA IssueLinked ==
  ASSUME IInv, IInv', BInv, NEW h \in Handler, NEW t \in Token, setRefreshTokenCookie(h, t)
  PROVE  Linked'
<1> DEFINE k == handling[h].token
           c == client[h]
           new == [to |-> c, cookie |-> t]
<1>t. /\ TypeOK /\ issued \subseteq Token /\ revoked \subseteq issued /\ presented \subseteq issued
      /\ None \notin issued
      /\ \A a \in answers : a.cookie # None => a.cookie \in issued
  BY NoneAssumption DEF IInv, TypeOK, BInv, BrowserTypeOK
<1>0. /\ UNCHANGED <<cookie, client, lost, presented, overlapped, ended, dropped, revoked>>
      /\ answers' = answers \union {new} /\ issued' = issued \union {t} /\ t \notin issued
      /\ handling[h].at = "issuing" /\ c \in Browser
  BY DEF setRefreshTokenCookie, IssueTokens, BInv, BrowserTypeOK
<1>1. /\ handling'[h].at = "idle" /\ \A g \in Handler : g # h => handling'[g] = handling[g]
      /\ from'[t] = k /\ \A s \in issued : from'[s] = from[s]
  BY <1>t, <1>0 DEF setRefreshTokenCookie, IssueTokens, TypeOK, Idle
<1>2. \A x : BusyWith(x)' = BusyWith(x) \ {h} /\ (h \in BusyWith(x) <=> k = x)
  BY <1>0, <1>1 DEF BusyWith
<1>3. \A x : Successors(x)' = IF k = x THEN Successors(x) \union {t} ELSE Successors(x)
  BY <1>0, <1>1 DEF Successors
<1>4. t # None /\ t \notin revoked /\ t # k /\ BusyWith(t) = {} /\ Successors(t) = {}
  <2>1. t # None /\ t \notin revoked
    BY <1>t, <1>0, NoneAssumption
  <2>2. BusyWith(t) = {}
    BY <2>1, <1>t, <1>0 DEF BusyWith, IInv, HandlersKnow
  <2>3. Successors(t) = {}
    BY <2>1 DEF Successors, IInv, LiveIsUnspent
  <2> QED BY <2>1, <2>2, <2>3, <1>2
<1> HIDE DEF k, c
<1>5. OneHolder'
  <2>1. ASSUME NEW x \in Token, NEW b \in Browser, Holds(b, x)', x # t PROVE Holds(b, x)
    BY <2>1, <1>0, <1>2 DEF Holds
  <2>2. ASSUME NEW b \in Browser, Holds(b, t)' PROVE b = c
    <3>1. cookie[b] # t /\ [to |-> b, cookie |-> t] \notin answers
      BY <1>t, <1>0, <1>4 DEF BInv, CookiesIssued
    <3> QED BY <2>2, <3>1, <1>0, <1>2, <1>4 DEF Holds
  <2> SUFFICES ASSUME NEW x \in Token, NEW b \in Browser, NEW d \in Browser,
                      Holds(b, x)', Holds(d, x)'
               PROVE  b = d
    BY DEF OneHolder
  <2>3. CASE x = t
    BY <2>2, <2>3
  <2>4. CASE x # t
    <3>1. Holds(b, x) /\ Holds(d, x)
      BY <2>1, <2>4
    <3> QED BY <3>1 DEF OneHolder, BInv, Linked
  <2> QED BY <2>3, <2>4
<1>6. AnswersFresh'
  <2>1. Fresh(t)'
    <3>1. \A b \in Browser : cookie[b] # t
      BY <1>0, <1>4 DEF BInv, CookiesIssued
    <3> QED BY <3>1, <1>0, <1>2, <1>3, <1>4 DEF Fresh
  <2>2. ASSUME NEW a \in answers, a.cookie # None PROVE Fresh(a.cookie)'
    <3>1. Fresh(a.cookie)
      BY <2>2 DEF BInv, Linked, AnswersFresh
    <3>2. k # a.cookie
      BY <3>1, <1>2 DEF Fresh
    <3> QED BY <3>1, <3>2, <1>0, <1>2, <1>3 DEF Fresh
  <2>3. ASSUME NEW a \in answers', a.cookie # None PROVE Fresh(a.cookie)'
    <3>1. CASE a = new
      <4>1. a.cookie = t
        BY <3>1
      <4> QED BY <2>1, <4>1
    <3>2. CASE a \in answers
      BY <2>2, <2>3, <3>2
    <3> QED BY <1>0, <3>1, <3>2
  <2> QED BY <2>3 DEF AnswersFresh
<1>7. LoggedOut'
  <2> SUFFICES ASSUME NEW x \in presented
               PROVE  /\ x \in revoked
                      /\ x \notin overlapped => BusyWith(x)' = {} /\ Successors(x)' = {}
    BY <1>0 DEF LoggedOut
  <2>1. x \in revoked /\ (x \notin overlapped => BusyWith(x) = {} /\ Successors(x) = {})
    BY DEF BInv, Linked, LoggedOut
  <2> QED BY <2>1, <1>2, <1>3
<1>8. CookieSpentForAReason'
  <2> SUFFICES ASSUME NEW b \in Browser, NEW x, x = cookie[b], x \in revoked
               PROVE  \/ x \in ended \union dropped
                      \/ \E g \in BusyWith(x)' : handling'[g].at = "issuing"
                      \/ \E s \in Successors(x)' : s \in lost \/ [to |-> b, cookie |-> s] \in answers'
    BY <1>0 DEF CookieSpentForAReason
  <2>0. \/ x \in ended \union dropped
        \/ \E g \in BusyWith(x) : handling[g].at = "issuing"
        \/ \E s \in Successors(x) : s \in lost \/ [to |-> b, cookie |-> s] \in answers
    BY DEF BInv, Linked, CookieSpentForAReason
  <2>1. CASE k = x
    <3>1. Holds(b, x) /\ Holds(c, x) /\ x \in Token
      BY <2>1, <1>t, <1>2 DEF Holds, c
    <3>2. b = c
      BY <3>1, <1>0 DEF OneHolder, BInv, Linked
    <3>3. t \in Successors(x)' /\ [to |-> b, cookie |-> t] \in answers'
      BY <2>1, <3>2, <1>0, <1>3
    <3> QED BY <3>3
  <2>2. CASE k # x
    <3>1. \A g \in BusyWith(x) : handling'[g] = handling[g]
      BY <2>2, <1>1, <1>2 DEF BusyWith
    <3> QED BY <2>0, <2>2, <3>1, <1>0, <1>2, <1>3
  <2> QED BY <2>1, <2>2
<1> QED BY <1>5, <1>6, <1>7, <1>8 DEF Linked

\* An answer arrives.
LEMMA ReceiveLinked ==
  ASSUME IInv, BInv, NEW a \in answers, Receive(a)
  PROVE  Linked'
<1>t. /\ issued \subseteq Token /\ revoked \subseteq issued /\ None \notin issued
      /\ \A e \in answers : e \in Answer /\ (e.cookie # None => e.cookie \in issued)
  BY NoneAssumption DEF IInv, TypeOK, BInv, BrowserTypeOK
<1>a. \A e \in answers : e = [to |-> e.to, cookie |-> e.cookie] /\ e.to \in Browser
  BY <1>t DEF Answer
<1>0. /\ UNCHANGED <<handling, client, lost, presented, overlapped, ended, dropped, revoked,
                     issued, from>>
      /\ answers' = answers \ {a}
  BY DEF Receive, vars, rows, history
<1>1. \A b \in Browser : cookie'[b] = IF b = a.to THEN a.cookie ELSE cookie[b]
  BY DEF Receive, BInv, BrowserTypeOK
<1>2. \A x : BusyWith(x)' = BusyWith(x) /\ Successors(x)' = Successors(x)
  BY <1>0 DEF BusyWith, Successors
<1>3. ASSUME NEW x \in Token, NEW b \in Browser, Holds(b, x)' PROVE Holds(b, x)
  <2>1. CASE cookie'[b] = x
    BY <2>1, <1>1, <1>a DEF Holds
  <2>2. CASE cookie'[b] # x
    BY <2>2, <1>3, <1>0, <1>2 DEF Holds
  <2> QED BY <2>1, <2>2
<1>4. OneHolder'
  BY <1>3 DEF OneHolder, BInv, Linked
<1>5. AnswersFresh'
  <2> SUFFICES ASSUME NEW e \in answers, e # a, e.cookie # None PROVE Fresh(e.cookie)'
    BY <1>0 DEF AnswersFresh
  <2>1. Fresh(e.cookie)
    BY DEF BInv, Linked, AnswersFresh
  <2>2. e.cookie # a.cookie
    <3> SUFFICES ASSUME e.cookie = a.cookie PROVE FALSE
      OBVIOUS
    <3>1. e.cookie \in Token /\ e.to \in Browser /\ a.to \in Browser
      BY <1>t, <1>a
    <3>2. Holds(e.to, e.cookie) /\ Holds(a.to, e.cookie)
      BY <1>a DEF Holds
    <3>3. e.to = a.to
      BY <3>1, <3>2 DEF OneHolder, BInv, Linked
    <3> QED BY <3>3, <1>a
  <2> QED BY <2>1, <2>2, <1>0, <1>1, <1>2 DEF Fresh
<1>6. LoggedOut'
  BY <1>0, <1>2 DEF LoggedOut, BInv, Linked
<1>7. CookieSpentForAReason'
  <2> SUFFICES ASSUME NEW b \in Browser, NEW x, x = cookie'[b], x \in revoked
               PROVE  \/ x \in ended \union dropped
                      \/ \E g \in BusyWith(x) : handling[g].at = "issuing"
                      \/ \E s \in Successors(x) : s \in lost \/ [to |-> b, cookie |-> s] \in answers'
    BY <1>0, <1>2 DEF CookieSpentForAReason
  <2>1. CASE b = a.to
    <3>1. x = a.cookie /\ x # None
      BY <2>1, <1>1, <1>t
    <3> QED BY <3>1 DEF BInv, Linked, AnswersFresh, Fresh
  <2>2. CASE b # a.to
    <3>1. \/ x \in ended \union dropped
          \/ \E g \in BusyWith(x) : handling[g].at = "issuing"
          \/ \E s \in Successors(x) : s \in lost \/ [to |-> b, cookie |-> s] \in answers
      BY <2>2, <1>1 DEF BInv, Linked, CookieSpentForAReason
    <3>2. \A s : [to |-> b, cookie |-> s] # a
      BY <2>2
    <3> QED BY <3>1, <3>2, <1>0
  <2> QED BY <2>1, <2>2
<1> QED BY <1>4, <1>5, <1>6, <1>7 DEF Linked

\* An answer is lost.
LEMMA LoseLinked ==
  ASSUME IInv, BInv, NEW a \in answers, Lose(a)
  PROVE  Linked'
<1>t. revoked \subseteq issued /\ None \notin issued
  BY NoneAssumption DEF IInv, TypeOK
<1>0. /\ UNCHANGED <<handling, cookie, client, presented, overlapped, ended, dropped, revoked,
                     issued, from>>
      /\ answers' = answers \ {a} /\ lost \subseteq lost'
      /\ a.cookie # None => a.cookie \in lost'
  BY DEF Lose, vars, rows, history
<1>2. \A x : BusyWith(x)' = BusyWith(x) /\ Successors(x)' = Successors(x)
  BY <1>0 DEF BusyWith, Successors
<1>3. \A x, b : Holds(b, x)' => Holds(b, x)
  BY <1>0, <1>2 DEF Holds
<1>4. OneHolder'
  BY <1>3 DEF OneHolder, BInv, Linked
<1>5. AnswersFresh' /\ LoggedOut'
  BY <1>0, <1>2 DEF AnswersFresh, Fresh, LoggedOut, BInv, Linked
<1>6. CookieSpentForAReason'
  <2> SUFFICES ASSUME NEW b \in Browser, NEW x, x = cookie[b], x \in revoked
               PROVE  \/ x \in ended \union dropped
                      \/ \E g \in BusyWith(x) : handling[g].at = "issuing"
                      \/ \E s \in Successors(x) : s \in lost' \/ [to |-> b, cookie |-> s] \in answers'
    BY <1>0, <1>2 DEF CookieSpentForAReason
  <2>1. \/ x \in ended \union dropped
        \/ \E g \in BusyWith(x) : handling[g].at = "issuing"
        \/ \E s \in Successors(x) : s \in lost \/ [to |-> b, cookie |-> s] \in answers
    BY DEF BInv, Linked, CookieSpentForAReason
  <2>2. ASSUME NEW s \in Successors(x), [to |-> b, cookie |-> s] = a PROVE s \in lost'
    <3>1. s = a.cookie /\ s \in issued
      BY <2>2 DEF Successors
    <3> QED BY <3>1, <1>0, <1>t
  <2> QED BY <2>1, <2>2, <1>0
<1> QED BY <1>4, <1>5, <1>6 DEF Linked

LEMMA NextLinked ==
  ASSUME IInv, IInv', BInv, [BrowserNext]_<<vars, browsers>>
  PROVE  Linked'
<1>t. TypeOK
  BY DEF IInv
<1>1. ASSUME NEW b \in Browser, NEW h \in Handler, register(b, h) PROVE Linked'
  <2>1. PICK u \in User, p \in Password : For(b, h) /\ Register(h, u, p)
    BY <1>1 DEF register
  <2> QED BY <2>1, BeginLinked DEF Register
<1>2. ASSUME NEW b \in Browser, NEW h \in Handler, login(b, h) PROVE Linked'
  <2>1. PICK u \in User, p \in Password : For(b, h) /\ Login(h, u, p)
    BY <1>2 DEF login
  <2> QED BY <2>1, BeginLinked DEF Login
<1>3. ASSUME NEW b \in Browser, NEW h \in Handler, changePassword(b, h) PROVE Linked'
  <2>1. PICK u \in User, p \in Password, q \in Password : For(b, h) /\ FindForChange(h, u, p, q)
    BY <1>3 DEF changePassword
  <2> QED BY <2>1, BeginLinked DEF FindForChange
<1>4. ASSUME NEW b \in Browser, NEW h \in Handler, refresh(b, h) PROVE Linked'
  BY <1>4, RefreshLinked
<1>5. ASSUME NEW b \in Browser, NEW u \in User, logout(b, u) PROVE Linked'
  BY <1>5, LogoutLinked
<1>6. ASSUME NEW h \in Handler, NEW t \in Token, setRefreshTokenCookie(h, t) PROVE Linked'
  BY <1>6, IssueLinked
<1>7. ASSUME NEW h \in Handler, HandlerStep(h) PROVE Linked'
  BY <1>7, HandlerLinked
<1>8. ASSUME NEW a \in answers, Receive(a) PROVE Linked'
  BY <1>8, ReceiveLinked
<1>9. ASSUME NEW a \in answers, Lose(a) PROVE Linked'
  BY <1>9, LoseLinked
<1>10. CASE UNCHANGED <<vars, browsers>>
  <2>1. UNCHANGED <<cookie, client, answers, lost, presented, overlapped, handling, issued, from,
                    ended, dropped, revoked>>
    BY <1>10 DEF vars, rows, history, browsers
  <2> QED BY <2>1 DEF BInv, Linked, OneHolder, Holds, AnswersFresh, Fresh, LoggedOut,
                      CookieSpentForAReason, BusyWith, Successors
<1> QED BY <1>1, <1>2, <1>3, <1>4, <1>5, <1>6, <1>7, <1>8, <1>9, <1>10 DEF BrowserNext

LEMMA AlwaysBInv == BrowserSpec => []BInv
<1>1. BrowserInit => BInv
  BY InitBInv
<1>2. IInv /\ IInv' /\ BInv /\ [BrowserNext]_<<vars, browsers>> => BInv'
  <2>1. IInv /\ BInv /\ [BrowserNext]_<<vars, browsers>> => BrowserTypeOK' /\ CookiesIssued'
    BY NextBrowserTypeOK DEF BInv
  <2> QED BY <2>1, NextLinked DEF BInv
<1> QED BY <1>1, <1>2, BrowserIInv, PTL DEF BrowserSpec

\* Type invariant of the client side; AuthController.setRefreshTokenCookie only
\* hands out tokens that have a row.
THEOREM BrowserTypeCorrect == BrowserSpec => []BrowserTypeOK
<1>1. BInv => BrowserTypeOK
  BY DEF BInv
<1> QED BY <1>1, AlwaysBInv, PTL

\* No browser is left with a cookie that is no longer good unless the session
\* was ended, its refresh was cut off, or the next cookie is still to come or
\* was lost: what AuthController.refesh can do to the browser that calls it.
THEOREM CookiesSpentForAReason == BrowserSpec => []CookieSpentForAReason
<1>1. BInv => CookieSpentForAReason
  BY DEF BInv, Linked
<1> QED BY <1>1, AlwaysBInv, PTL

\* AuthController.logout ends the session of the cookie that it was sent with,
\* unless a refresh of that cookie overlapped with it.
THEOREM LogoutIsFinal == BrowserSpec => []LogoutEndsSession
<1>1. BInv => LogoutEndsSession
  BY DEF BInv, Linked, LoggedOut, LogoutEndsSession
<1> QED BY <1>1, AlwaysBInv, PTL
=============================================================================
