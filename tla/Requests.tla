------------------------------ MODULE Requests ------------------------------
(***************************************************************************)
(* The HTTP side of the API process: guards and pipe in front of the       *)
(* controllers, the calls that each handler awaits, and the filter that    *)
(* turns what they throw into a status.  Requests run concurrently on one  *)
(* row of each table, the one they are about; what they store besides is   *)
(* the subject of the other modules.  Input that the pipe lets through is  *)
(* taken to be acceptable to the database, and a token to be of a user who *)
(* has a row.                                                              *)
(***************************************************************************)
EXTENDS Naturals, Sequences

CONSTANTS
  Request,      \* the requests that are sent, at any time
  None          \* no route

VARIABLES
  rows,         \* the tables whose row is there
  redis,        \* whether Redis can be reached
  route,        \* the route of each request that runs
  pc,           \* the call that it awaits
  status,       \* its answer; Unsent or Running before
  wrote,        \* history: the request has stored or removed something
  troubled      \* history: a call of it failed for no fault of the client

requests == <<rows, redis, route, pc, status, wrote, troubled>>

Table == {"user", "token", "video", "comment"}
Parents == [user |-> {}, token |-> {"user"}, video |-> {"user"},
            comment |-> {"user", "video"}]

Unsent == 0
Running == 1
OK == 200

(***************************************************************************)
(* The calls of a handler.  If it finds no row it throws missing; throws   *)
(* holds what it may throw for the row that it has found, returns that it  *)
(* may be content with what it got, and needs the rows that the new row    *)
(* refers to.                                                              *)
(***************************************************************************)
Call(op, t) == [op |-> op, on |-> t, missing |-> OK, throws |-> {}, returns |-> FALSE,
                needs |-> {}]

Find(t, s, S) == [op |-> "find", on |-> t, missing |-> s, throws |-> S, returns |-> FALSE,
                  needs |-> {}]
Create(t, N) == [Call("create", t) EXCEPT !.needs = N]
Read(t) == Call("read", t)
Update(t) == Call("update", t)
UpdateMany(t) == Call("updateMany", t)
Delete(t) == Call("delete", t)
Redis == Call("redis", "none")
RedisOrReturn == [Redis EXCEPT !.returns = TRUE]
UploadFile == Call("upload", "none")      \* StorageService.uploadFile
Forget == Call("remove", "none")      \* StorageService.remove, which never rejects

\* input: the statuses with which pipe and interceptors refuse a request.
Route(name, input, calls) ==
  [handler |-> name, public |-> FALSE, roles |-> {}, input |-> input, calls |-> calls]
Public(name, input, calls) == [Route(name, input, calls) EXCEPT !.public = TRUE]

-----------------------------------------------------------------------------
AuthController ==
  { Public("auth.register", {400}, <<Create("user", {}), Create("token", {"user"})>>),
    Public("auth.login", {400}, <<Find("user", 401, {401}), Create("token", {"user"})>>),
    Public("auth.refresh", {400},
           <<Find("token", 401, {401}), Find("user", 401, {}), Update("token"),
             Create("token", {"user"})>>),
    Public("auth.refresh without token", {400}, <<>>),
    Route("auth.logout", {}, <<UpdateMany("token")>>),
    Route("auth.logout without cookie", {}, <<>>),
    Route("auth.me", {}, <<Find("user", 401, {})>>) }

\* update waits for invalidateListCaches (not part of Next).
VideosAwaitingCaches ==
  { Public("videos.get", {}, <<Find("video", 404, {}), Redis>>),
    Route("videos.update", {400},
          <<Find("video", 404, {403}), Update("video"), Redis>>),
    Route("videos.remove", {}, <<Find("video", 404, {403}), Delete("video"), Forget>>) }

\* remove forgets the object before the row (not part of Next).
VideosForgettingFirst ==
  { Public("videos.get", {}, <<Find("video", 404, {}), Redis>>),
    Route("videos.remove", {}, <<Find("video", 404, {403}), Forget, Delete("video")>>) }

\* The invalidation of the list caches is not awaited, and not in the calls.
VideosController ==
  { Public("videos.list", {400}, <<RedisOrReturn, Read("video"), Redis>>),
    Public("videos.hot", {}, <<RedisOrReturn, Read("video"), Redis>>),
    Public("videos.get", {}, <<Find("video", 404, {}), Redis>>),
    Public("videos.stream", {}, <<RedisOrReturn, Redis>>),
    Route("videos.create", {400, 413}, <<UploadFile, Create("video", {"user"}), Redis>>),
    Route("videos.update", {400}, <<Find("video", 404, {403}), Update("video")>>),
    Route("videos.remove", {}, <<Find("video", 404, {403}), Delete("video"), Forget>>) }

\* create of a top-level comment and of a reply.
CommentsController ==
  { Public("comments.list", {400}, <<Read("comment")>>),
    Route("comments.create", {400},
          <<Find("video", 404, {}), Create("comment", {"user", "video"})>>),
    Route("comments.create reply", {400},
          <<Find("video", 404, {}), Find("comment", 400, {400}),
            Create("comment", {"user", "video", "comment"})>>),
    Route("comments.update", {400}, <<Find("comment", 404, {404}), Update("comment")>>),
    Route("comments.delete", {}, <<Find("comment", 404, {404}), Delete("comment")>>) }

\* The removal of the old avatar is not awaited.
UsersController ==
  { Route("users.getMe", {}, <<Find("user", 404, {})>>),
    Route("users.updateMe", {400}, <<Update("user")>>),
    Route("users.changePassword", {400},
          <<Find("user", 404, {400}), Update("user"), UpdateMany("token")>>),
    Route("users.updateAvatar", {400, 413}, <<Read("user"), UploadFile, Update("user")>>) }

AppController ==
  { Public("app.health", {}, <<>>),
    Public("app.ready", {}, <<Read("none"), Redis>>) }

Routes == AuthController \union VideosController \union CommentsController
          \union UsersController \union AppController

-----------------------------------------------------------------------------
RequestsInit ==
  /\ rows \in {R \in SUBSET Table : \A t \in R : Parents[t] \subseteq R}
  /\ redis \in BOOLEAN
  /\ route = [r \in Request |-> None]
  /\ pc = [r \in Request |-> 1]
  /\ status = [r \in Request |-> Unsent]
  /\ wrote = [r \in Request |-> FALSE]
  /\ troubled = [r \in Request |-> FALSE]

(***************************************************************************)
(* Guards and pipe                                                         *)
(***************************************************************************)

\* A token is issued to a user whose row has been found or stored, and no route
\* deletes that row.
TokenIssued == "user" \in rows

\* The signature of a token is all that JwtStrategy looks at.
JWTAuthGuard(rt) == rt.public \/ TokenIssued

\* No handler names roles, so that everybody passes.
RolesGuard(rt) == rt.roles = {}

Admit(r, rt) ==
  /\ status[r] = Unsent
  /\ JWTAuthGuard(rt)
  /\ RolesGuard(rt)
  /\ route' = [route EXCEPT ![r] = rt]
  /\ status' = [status EXCEPT ![r] = Running]
  /\ UNCHANGED <<rows, redis, pc, wrote, troubled>>

\* The limit may be reached at any request.
ThrottlerGuard == {429}

\* A token that is missing, wrong or expired; the limit; input that the handler
\* does not take.
Refuse(r, rt) ==
  /\ status[r] = Unsent
  /\ \E s \in (IF rt.public THEN {} ELSE {401}) \union ThrottlerGuard \union rt.input :
       status' = [status EXCEPT ![r] = s]
  /\ UNCHANGED <<rows, redis, route, pc, wrote, troubled>>

(***************************************************************************)
(* AllExceptionsFilter                                                     *)
(***************************************************************************)
HttpException(s) == [status |-> s, code |-> "none"]
Error == HttpException(500)
PrismaError(code) == [status |-> 500, code |-> code]

\* Known errors are all database errors (not part of Next).
mapAnyPrismaError(code) == 500

mapPrismaError(code) ==
  CASE code = "P2002" -> 409
    [] code = "P2025" -> 404
    [] code = "P2003" -> 400
    [] OTHER -> 500

catch(e) == IF e.code = "none" THEN e.status ELSE mapPrismaError(e.code)

(***************************************************************************)
(* A handler and its calls                                                 *)
(***************************************************************************)
call(r) == route[r].calls[pc[r]]

Calling(r) ==
  /\ status[r] = Running
  /\ pc[r] <= Len(route[r].calls)
  /\ call(r).op = "redis" => redis

\* What a handler throws for reasons of its own or of the tables.
Exceptions(c) ==
  CASE c.op = "find" -> IF c.on \in rows THEN {HttpException(s) : s \in c.throws}
                        ELSE {HttpException(c.missing)}
    [] c.op \in {"update", "delete"} -> IF c.on \in rows THEN {} ELSE {PrismaError("P2025")}
    [] c.op = "create" ->
         (IF c.on = "user" /\ "user" \in rows THEN {PrismaError("P2002")} ELSE {})
         \union (IF c.needs \subseteq rows THEN {} ELSE {PrismaError("P2003")})
    [] OTHER -> {}

\* A call that is bound to throw.
Bound(c) == Exceptions(c) # {} /\ ~(c.op = "find" /\ c.on \in rows)

\* Videos and comments that are created are none that a request is about.
After(c) ==
  CASE c.op = "create" /\ c.on \in {"user", "token"} -> rows \union {c.on}
    [] c.op = "delete" -> rows \ {t \in Table : t = c.on \/ c.on \in Parents[t]}
    [] OTHER -> rows

Writes == {"create", "update", "updateMany", "delete", "upload", "remove"}

Perform(r) ==
  /\ Calling(r)
  /\ ~Bound(call(r))
  /\ rows' = After(call(r))
  /\ wrote' = [wrote EXCEPT ![r] = @ \/ call(r).op \in Writes]
  /\ pc' = [pc EXCEPT ![r] = @ + 1]
  /\ UNCHANGED <<redis, route, status, troubled>>

Answer(r, s) ==
  /\ status' = [status EXCEPT ![r] = s]
  /\ route' = [route EXCEPT ![r] = None]
  /\ pc' = [pc EXCEPT ![r] = 1]
  /\ UNCHANGED <<redis, wrote>>

\* TranformInterceptor: the handler has returned.
Respond(r) ==
  /\ status[r] = Running
  /\ \/ pc[r] = Len(route[r].calls) + 1
     \/ Calling(r) /\ call(r).returns
  /\ Answer(r, OK)
  /\ UNCHANGED <<rows, troubled>>

Throw(r) ==
  /\ Calling(r)
  /\ \E e \in Exceptions(call(r)) : Answer(r, catch(e))
  /\ UNCHANGED <<rows, troubled>>

\* The call rejects for no fault of the client: the database, the bucket or
\* Redis fails, and may have done its work.  The readiness check answers all
\* the same.
DependencyFails(r) ==
  /\ Calling(r)
  /\ call(r).op # "remove"
  /\ rows' \in {rows, IF Bound(call(r)) THEN rows ELSE After(call(r))}
  /\ Answer(r, IF route[r].handler = "app.ready" THEN OK ELSE catch(Error))
  /\ troubled' = [troubled EXCEPT ![r] = TRUE]

\* maxRetriesPerRequest is null: a command waits until Redis is back.
RedisGoes ==
  /\ redis' = ~redis
  /\ UNCHANGED <<rows, route, pc, status, wrote, troubled>>

-----------------------------------------------------------------------------
Go(r) == Perform(r) \/ Respond(r) \/ Throw(r) \/ DependencyFails(r)

RequestsNext ==
  \/ \E r \in Request, rt \in Routes : Admit(r, rt) \/ Refuse(r, rt)
  \/ \E r \in Request : Perform(r) \/ Respond(r) \/ Throw(r) \/ DependencyFails(r)
  \/ RedisGoes

RequestsSpec == RequestsInit /\ [][RequestsNext]_requests

\* The event loop goes on with every request that does not wait for Redis.
FairRequests == RequestsSpec /\ \A r \in Request : WF_requests(Go(r))

(***************************************************************************)
(* Properties                                                              *)
(***************************************************************************)
Status == {Unsent, Running, OK, 400, 401, 403, 404, 409, 413, 429, 500}

\* Type invariant, with the foreign keys: a comment has its video, and every
\* row its user.
RequestsTypeOK ==
  /\ rows \subseteq Table
  /\ \A t \in rows : Parents[t] \subseteq rows
  /\ redis \in BOOLEAN
  /\ route \in [Request -> Routes \union {None}]
  /\ pc \in [Request -> 1..5]
  /\ status \in [Request -> Status]
  /\ wrote \in [Request -> BOOLEAN]
  /\ troubled \in [Request -> BOOLEAN]

\* A lost race is not a server error: whatever other requests delete or create
\* between the calls of a handler, it answers 500 only if the database, Redis
\* or the bucket failed it.
ServerErrorForAReason ==
  \A r \in Request : status[r] = 500 => troubled[r]

\* A request that is refused has changed nothing: no handler comes to a check,
\* or to a row that has gone, after its first write.
ClientErrorsChangeNothing ==
  \A r \in Request : status[r] \in 400..499 => ~wrote[r]

NeedRedis == {"videos.list", "videos.hot", "videos.get", "videos.stream", "videos.create",
              "app.ready"}

\* Every request is answered, or is one of those that need Redis and meets an
\* outage: sign-in, comments, profiles and changes of videos, which invalidate
\* the caches without waiting, get through although Redis never comes back.
RequestsAnswered ==
  \A r \in Request :
    status[r] = Running ~>
      status[r] # Running \/ (~redis /\ route[r].handler \in NeedRedis)
=============================================================================
