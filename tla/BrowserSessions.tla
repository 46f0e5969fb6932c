--------------------------- MODULE BrowserSessions ---------------------------
(***************************************************************************)
(* AuthController in front of AuthService: the refresh token travels in a  *)
(* cookie.  A browser may have several requests under way; each works with *)
(* the cookie that it was sent with, and answers that set or clear the     *)
(* cookie arrive in any order or not at all.  The rows and handlers are    *)
(* those of Sessions, whose every behaviour this module restricts.         *)
(***************************************************************************)
EXTENDS Sessions

CONSTANT Browser

ASSUME BrowserAssumption == None \notin Browser

VARIABLES
  cookie,       \* the cookie refreshToken of each browser, None without one
  client,       \* the browser that each handler works for
  answers,      \* answers under way that set the cookie, or clear it (None)
  lost,         \* history: tokens whose answer never arrived
  presented,    \* history: tokens that a logout was sent with
  overlapped    \* history: those that had been exchanged, or were about to be

browsers == <<cookie, client, answers, lost, presented, overlapped>>

BrowserInit ==
  /\ Init
  /\ cookie = [b \in Browser |-> None]
  /\ client = [h \in Handler |-> None]
  /\ answers = {}
  /\ lost = {}
  /\ presented = {}
  /\ overlapped = {}

(***************************************************************************)
(* Requests                                                                *)
(***************************************************************************)

\* A handler begins to work for b.
For(b, h) ==
  /\ client' = [client EXCEPT ![h] = b]
  /\ UNCHANGED <<cookie, answers, lost, presented, overlapped>>

register(b, h) == For(b, h) /\ \E u \in User, p \in Password : Register(h, u, p)
login(b, h) == For(b, h) /\ \E u \in User, p \in Password : Login(h, u, p)

\* With the cookie that the browser has now.  Without one, or with one that is
\* refused, nothing changes and the cookie stays.
refresh(b, h) == For(b, h) /\ FindStored(h, cookie[b])

changePassword(b, h) ==
  For(b, h) /\ \E u \in User, p, q \in Password : FindForChange(h, u, p, q)

\* Handlers that are about to exchange t, and tokens that it was exchanged for.
BusyWith(t) == {h \in Handler : handling[h].at \in {"revoking", "issuing"}
                                /\ handling[h].token = t}
Successors(t) == {s \in issued : from[s] = t}

Sent(b) == {t \in issued : t = cookie[b]}

Presented(b, u) ==
  /\ passwordHash[u] # NoHash
  /\ answers' = answers \union {[to |-> b, cookie |-> None]}
  /\ presented' = presented \union {t \in Sent(b) : owner[t] = u}
  /\ overlapped' = overlapped \union
       {t \in Sent(b) : BusyWith(t) # {} \/ Successors(t) # {}}
  /\ UNCHANGED <<cookie, client, lost>>

\* The cookie is cleared, and the token stays good (not part of Next).
logoutHere(b, u) == Presented(b, u) /\ UNCHANGED vars

\* updateMany finds a live token of the user, or nothing; clearCookie.
logout(b, u) ==
  /\ Presented(b, u)
  /\ IF cookie[b] \in Live /\ owner[cookie[b]] = u THEN Logout(u, cookie[b])
     ELSE UNCHANGED vars

(***************************************************************************)
(* Answers                                                                 *)
(***************************************************************************)

\* A refresh answers without the new cookie (not part of Next).
setCookieAtLogin(h, t) ==
  /\ IssueTokens(h, t)
  /\ answers' = IF handling[h].token # None THEN answers
                ELSE answers \union {[to |-> client[h], cookie |-> t]}
  /\ UNCHANGED <<cookie, client, lost, presented, overlapped>>

\* issueTokens is done, and the answer sets the cookie.
setRefreshTokenCookie(h, t) ==
  /\ IssueTokens(h, t)
  /\ answers' = answers \union {[to |-> client[h], cookie |-> t]}
  /\ UNCHANGED <<cookie, client, lost, presented, overlapped>>

Receive(a) ==
  /\ answers' = answers \ {a}
  /\ cookie' = [cookie EXCEPT ![a.to] = a.cookie]
  /\ UNCHANGED <<vars, client, lost, presented, overlapped>>

Lose(a) ==
  /\ answers' = answers \ {a}
  /\ lost' = IF a.cookie = None THEN lost ELSE lost \union {a.cookie}
  /\ UNCHANGED <<vars, cookie, client, presented, overlapped>>

-----------------------------------------------------------------------------
\* The other steps of a handler, as in Sessions.
HandlerStep(h) ==
  /\ RevokeStored(h) \/ UpdatePassword(h) \/ EndSessions(h) \/ Interrupt(h)
  /\ UNCHANGED browsers

BrowserNext ==
  \/ \E b \in Browser, h \in Handler :
       register(b, h) \/ login(b, h) \/ refresh(b, h) \/ changePassword(b, h)
  \/ \E b \in Browser, u \in User : logout(b, u)
  \/ \E h \in Handler, t \in Token : setRefreshTokenCookie(h, t)
  \/ \E h \in Handler : HandlerStep(h)
  \/ \E a \in answers : Receive(a) \/ Lose(a)

BrowserSpec == BrowserInit /\ [][BrowserNext]_<<vars, browsers>>

(***************************************************************************)
(* Properties                                                              *)
(***************************************************************************)
Answer == [to : Browser, cookie : Token \union {None}]

\* Type invariant of the client side.
BrowserTypeOK ==
  /\ cookie \in [Browser -> Token \union {None}]
  /\ client \in [Handler -> Browser \union {None}]
  /\ \A h \in Handler : handling[h].at # "idle" => client[h] \in Browser
  /\ answers \subseteq Answer
  /\ \A a \in answers : a.cookie # None => a.cookie \in issued
  /\ lost \subseteq issued
  /\ presented \subseteq issued
  /\ overlapped \subseteq issued

\* A browser is left with a cookie that is no longer good only if somebody
\* ended the session, the refresh was cut off, or the answer with the next
\* cookie is not here: it is being made, it is under way or it was lost.
CookieSpentForAReason ==
  \A b \in Browser :
    LET t == cookie[b] IN
    t \in revoked =>
      \/ t \in ended \union dropped
      \/ \E h \in BusyWith(t) : handling[h].at = "issuing"
      \/ \E s \in Successors(t) : s \in lost \/ [to |-> b, cookie |-> s] \in answers

\* A logout ends the session of its cookie.  The session lives on in another
\* token only if a refresh of the same cookie had begun, or was answered by an
\* answer that the browser had not received, when it logged out: updateMany
\* does not find the next token by the old one.
LogoutEndsSession ==
  \A t \in presented :
    /\ t \in revoked
    /\ Successors(t) # {} => t \in overlapped
=============================================================================
