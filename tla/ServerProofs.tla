---------------------------- MODULE ServerProofs ----------------------------
(***************************************************************************)
(* Proofs about Startup, for any number of containers, whatever their      *)
(* environments, and any number of starts; and about Requests, for any     *)
(* number of requests of all kinds that run side by side, and any failures *)
(* and outages.                                                            *)
(***************************************************************************)
EXTENDS Startup, Requests, FiniteSetTheorems, TLAPS

(***************************************************************************)
(* Startup                                                                 *)
(***************************************************************************)
\* Whoever is at the second account has stored the first.
AdminFirst == \A p \in Process : at[p] = "user" => "admin" \in accounts

\* A process that is up has found a bucket or made it, and a bucket without a
\* policy has somebody who is about to set it, or a start that died.
BucketKnown ==
  /\ \A p \in Process : at[p] \in {"allowing", "up"} => bucket # "none"
  /\ bucket = "private" => cut \/ \E p \in Process : at[p] = "allowing"

\* Insertions that were decided on are due, and so is one more while there are
\* no videos and nobody is inserting any.
Due == Cardinality(Inserting) + (IF NoVideos /\ Inserting = {} THEN 1 ELSE 0)
SamplesDue == inserted + Due <= 1 + overlaps + emptied

StartupInv == TypeOK /\ AdminFirst /\ BucketKnown /\ SamplesDue

LEMMA InsertingFinite ==
  IsFiniteSet(Inserting) /\ Cardinality(Inserting) \in Nat
<1>1. Inserting \subseteq Process
  BY DEF Inserting
<1>2. IsFiniteSet(Inserting)
  BY <1>1, FiniteAssumption, FS_Subset
<1> QED BY <1>2, FS_CardinalityType

LEMMA InitStartupInv == Init => StartupInv
<1> SUFFICES ASSUME Init PROVE StartupInv
  OBVIOUS
<1>1. TypeOK
  <2>1. starts \in 0..MaxStarts /\ emptied \in 0..MaxEmptied
    BY BoundAssumption DEF Init
  <2> QED BY <2>1 DEF Init, TypeOK, Stage
<1>2. AdminFirst /\ BucketKnown
  BY DEF Init, AdminFirst, BucketKnown
<1>3. Inserting = {}
  BY DEF Init, Inserting
<1>4. Cardinality(Inserting) = 0
  BY <1>3, FS_EmptySet
<1>5. SamplesDue
  BY <1>3, <1>4 DEF Init, SamplesDue, Due
<1> QED BY <1>1, <1>2, <1>5 DEF StartupInv

(***************************************************************************)
(* Types and accounts                                                      *)
(***************************************************************************)
LEMMA NextTypeOK == TypeOK /\ AdminFirst /\ [Next]_vars => TypeOK' /\ AdminFirst'
<1> SUFFICES ASSUME TypeOK, AdminFirst, [Next]_vars PROVE TypeOK' /\ AdminFirst'
  OBVIOUS
<1> USE BoundAssumption DEF videos, TypeOK, AdminFirst, Stage, Proceed
<1>0. CASE UNCHANGED vars
  BY <1>0 DEF vars
<1>1. ASSUME NEW p \in Process, Start(p) PROVE TypeOK' /\ AdminFirst'
  BY <1>1 DEF Start
<1>2. ASSUME NEW p \in Process, MigrateDeploy(p) PROVE TypeOK' /\ AdminFirst'
  BY <1>2 DEF MigrateDeploy
<1>3. ASSUME NEW p \in Process, Upsert(p) PROVE TypeOK' /\ AdminFirst'
  <2>1. CASE Proceed(p, "admin", "user")
    BY <1>3, <2>1 DEF Upsert
  <2>2. CASE Proceed(p, "user", "counting")
    BY <1>3, <2>2 DEF Upsert
  <2> QED BY <1>3, <2>1, <2>2 DEF Upsert
<1>4. ASSUME NEW p \in Process, Count(p) PROVE TypeOK' /\ AdminFirst'
  <2>1. overlaps' \in Nat
    BY <1>4 DEF Count, Overlap
  <2> QED BY <1>4, <2>1 DEF Count
<1>5. ASSUME NEW p \in Process, CreateSamples(p) PROVE TypeOK' /\ AdminFirst'
  BY <1>5 DEF CreateSamples
<1>6. ASSUME NEW p \in Process, SeedFails(p) PROVE TypeOK' /\ AdminFirst'
  BY <1>6 DEF SeedFails
<1>7. ASSUME NEW p \in Process, validateEnv(p) PROVE TypeOK' /\ AdminFirst'
  BY <1>7 DEF validateEnv
<1>8. ASSUME NEW p \in Process, Connect(p) \/ BucketExists(p) PROVE TypeOK' /\ AdminFirst'
  BY <1>8 DEF Connect, BucketExists
<1>9. ASSUME NEW p \in Process, MakeBucket(p) PROVE TypeOK' /\ AdminFirst'
  BY <1>9 DEF MakeBucket
<1>10. ASSUME NEW p \in Process, SetBucketPolicy(p) PROVE TypeOK' /\ AdminFirst'
  BY <1>10 DEF SetBucketPolicy
<1>11. ASSUME NEW p \in Process, Down(p) PROVE TypeOK' /\ AdminFirst'
  BY <1>11 DEF Down
<1>12. CASE Upload
  BY <1>12 DEF Upload
<1>13. CASE DeleteVideos
  <2>1. emptied' \in 0..MaxEmptied
    BY <1>13 DEF DeleteVideos
  <2> QED BY <1>13, <2>1 DEF DeleteVideos
<1> QED
  BY <1>0, <1>1, <1>2, <1>3, <1>4, <1>5, <1>6, <1>7, <1>8, <1>9, <1>10, <1>11, <1>12, <1>13
  DEF Next

(***************************************************************************)
(* The bucket                                                              *)
(***************************************************************************)
LEMMA NextBucketKnown == TypeOK /\ BucketKnown /\ [Next]_vars => BucketKnown'
<1> SUFFICES ASSUME TypeOK, BucketKnown, [Next]_vars PROVE BucketKnown'
  OBVIOUS
<1> USE DEF BucketKnown, Proceed
<1>t. at \in [Process -> Stage]
  BY DEF TypeOK
<1>0. CASE UNCHANGED vars
  BY <1>0 DEF vars
<1>1. ASSUME NEW p \in Process,
             \/ Start(p) \/ MigrateDeploy(p) \/ Upsert(p) \/ Count(p) \/ CreateSamples(p)
             \/ SeedFails(p) \/ validateEnv(p) \/ Connect(p)
      PROVE  BucketKnown'
  BY <1>1, <1>t DEF Start, MigrateDeploy, Upsert, Count, CreateSamples, SeedFails,
                    validateEnv, Connect, Stage
<1>2. ASSUME NEW p \in Process, BucketExists(p) PROVE BucketKnown'
  BY <1>2, <1>t DEF BucketExists
<1>3. ASSUME NEW p \in Process, MakeBucket(p) PROVE BucketKnown'
  <2>1. CASE bucket = "none"
    <3>1. bucket' = "private" /\ at'[p] = "allowing"
      BY <1>3, <2>1, <1>t DEF MakeBucket
    <3> QED BY <3>1
  <2>2. CASE bucket # "none"
    BY <1>3, <2>2, <1>t DEF MakeBucket
  <2> QED BY <2>1, <2>2
<1>4. ASSUME NEW p \in Process, SetBucketPolicy(p) PROVE BucketKnown'
  BY <1>4, <1>t DEF SetBucketPolicy
<1>5. ASSUME NEW p \in Process, Down(p) PROVE BucketKnown'
  BY <1>5, <1>t DEF Down
<1>6. CASE Upload \/ DeleteVideos
  BY <1>6 DEF Upload, DeleteVideos
<1> QED BY <1>0, <1>1, <1>2, <1>3, <1>4, <1>5, <1>6 DEF Next

(***************************************************************************)
(* The samples                                                             *)
(***************************************************************************)

\* A step that leaves the videos and the set of those who insert alone.
LEMMA DueKept ==
  ASSUME SamplesDue, UNCHANGED videos, Inserting' = Inserting
  PROVE  SamplesDue'
BY DEF SamplesDue, Due, NoVideos, videos

\* A step of one process that is not inserting, to a place where it is not.
LEMMA InsertingKept ==
  ASSUME TypeOK, NEW p \in Process, NEW s, s # "inserting", at[p] # "inserting",
         at' = [at EXCEPT ![p] = s]
  PROVE  Inserting' = Inserting
BY DEF TypeOK, Inserting

LEMMA InsertingEntered ==
  ASSUME TypeOK, NEW p \in Process, Proceed(p, "counting", "inserting")
  PROVE  Inserting' = Inserting \cup {p} /\ p \notin Inserting
BY DEF TypeOK, Inserting, Proceed

LEMMA InsertingLeft ==
  ASSUME TypeOK, NEW p \in Process, NEW s, s # "inserting", at[p] = "inserting",
         at' = [at EXCEPT ![p] = s]
  PROVE  /\ Inserting' = Inserting \ {p}
         /\ Cardinality(Inserting') = Cardinality(Inserting) - 1
<1>1. Inserting' = Inserting \ {p} /\ p \in Inserting
  BY DEF TypeOK, Inserting
<1> QED BY <1>1, InsertingFinite, FS_RemoveElement

LEMMA DueNatural == Due \in Nat /\ Cardinality(Inserting) <= Due
                    /\ Due <= Cardinality(Inserting) + 1
BY InsertingFinite DEF Due

LEMMA AtMost ==
  ASSUME NEW i \in Nat, NEW o \in Nat, NEW e \in Nat, NEW m \in Nat, NEW n \in Nat,
         NEW k \in Nat, i + m <= 1 + o + e, n <= m + k
  PROVE  i + n <= 1 + o + (e + k)
OBVIOUS

\* Who gives up an insertion leaves at most one due instead.
LEMMA InsertionGivenUp ==
  ASSUME TypeOK, SamplesDue, UNCHANGED videos, NEW p \in Process, NEW s, s # "inserting",
         at[p] = "inserting", at' = [at EXCEPT ![p] = s]
  PROVE  SamplesDue'
<1>1. Cardinality(Inserting') = Cardinality(Inserting) - 1
  BY InsertingLeft
<1>2. p \in Inserting
  BY DEF Inserting
<1>3. Due = Cardinality(Inserting)
  BY <1>2, InsertingFinite DEF Due
<1>4. Due' <= Cardinality(Inserting') + 1 /\ Due' \in Nat
  <2>1. Inserting' = Inserting \ {p}
    BY InsertingLeft
  <2>2. IsFiniteSet(Inserting \ {p})
    BY InsertingFinite, FS_RemoveElement
  <2>3. Cardinality(Inserting') \in Nat
    BY <2>1, <2>2, FS_CardinalityType
  <2> QED BY <2>3 DEF Due
<1>5. Due' <= Due
  BY <1>1, <1>3, <1>4, InsertingFinite
<1>6. inserted' = inserted /\ overlaps' = overlaps /\ emptied' = emptied
  BY DEF videos
<1>7. inserted \in Nat /\ overlaps \in Nat /\ emptied \in Nat /\ Due \in Nat
  BY DueNatural, BoundAssumption DEF TypeOK
<1>8. inserted + Due' <= 1 + overlaps + (emptied + 0)
  <2>1. inserted + Due <= 1 + overlaps + emptied
    BY DEF SamplesDue
  <2>2. Due' <= Due + 0
    BY <1>4, <1>5, <1>7
  <2> QED BY <1>4, <1>7, <2>1, <2>2, AtMost
<1> QED BY <1>6, <1>7, <1>8 DEF SamplesDue

LEMMA NextSamplesDue == TypeOK /\ SamplesDue /\ [Next]_vars => SamplesDue'
<1> SUFFICES ASSUME TypeOK, SamplesDue, [Next]_vars PROVE SamplesDue'
  OBVIOUS
<1>n. /\ inserted \in Nat /\ overlaps \in Nat /\ emptied \in Nat /\ samples \in Nat
      /\ Due \in Nat /\ Cardinality(Inserting) \in Nat
  BY DueNatural, InsertingFinite, BoundAssumption DEF TypeOK
<1>0. CASE UNCHANGED vars
  BY <1>0, DueKept DEF vars, Inserting
<1>1. ASSUME NEW p \in Process,
             \/ Start(p) \/ MigrateDeploy(p) \/ Upsert(p) \/ validateEnv(p) \/ Connect(p)
             \/ BucketExists(p) \/ MakeBucket(p) \/ SetBucketPolicy(p)
      PROVE  SamplesDue'
  <2>1. PICK s : s # "inserting" /\ at[p] # "inserting" /\ at' = [at EXCEPT ![p] = s]
    BY <1>1 DEF Start, MigrateDeploy, Upsert, validateEnv, Connect, BucketExists,
                MakeBucket, SetBucketPolicy, Proceed
  <2>2. UNCHANGED videos
    BY <1>1 DEF Start, MigrateDeploy, Upsert, validateEnv, Connect, BucketExists,
                MakeBucket, SetBucketPolicy
  <2> QED BY <2>1, <2>2, InsertingKept, DueKept
<1>2. ASSUME NEW p \in Process, Count(p), NoVideos, Proceed(p, "counting", "inserting"), Overlap
      PROVE  SamplesDue'
  <2>1. Inserting' = Inserting \cup {p} /\ p \notin Inserting
    BY <1>2, InsertingEntered
  <2>2. Cardinality(Inserting') = Cardinality(Inserting) + 1
    BY <2>1, InsertingFinite, FS_AddElement
  <2>3. Due' = Cardinality(Inserting) + 1
    BY <2>1, <2>2, <1>n DEF Due
  <2>4. inserted' = inserted /\ emptied' = emptied
    BY <1>2 DEF Count
  <2>5. CASE Inserting = {}
    <3>1. Due = Cardinality(Inserting) + 1
      BY <2>5, <1>2 DEF Due
    <3>2. overlaps' = overlaps
      BY <2>5, <1>2 DEF Overlap
    <3> QED BY <2>3, <2>4, <3>1, <3>2 DEF SamplesDue
  <2>6. CASE Inserting # {}
    <3>1. Due = Cardinality(Inserting)
      BY <2>6, <1>n DEF Due
    <3>2. overlaps' = overlaps + 1
      BY <2>6, <1>2 DEF Overlap
    <3> QED BY <2>3, <2>4, <3>1, <3>2, <1>n DEF SamplesDue
  <2> QED BY <2>5, <2>6
<1>3. ASSUME NEW p \in Process, Count(p), Proceed(p, "counting", "validating"), UNCHANGED overlaps
      PROVE  SamplesDue'
  <2>1. UNCHANGED videos
    BY <1>3 DEF Count, videos
  <2> QED BY <1>3, <2>1, InsertingKept, DueKept DEF Proceed
<1>4. ASSUME NEW p \in Process, CreateSamples(p) PROVE SamplesDue'
  <2>1. Cardinality(Inserting') = Cardinality(Inserting) - 1
    BY <1>4, InsertingLeft DEF CreateSamples, Proceed
  <2>2. Due = Cardinality(Inserting)
    <3>1. p \in Inserting
      BY <1>4 DEF CreateSamples, Proceed, Inserting
    <3> QED BY <3>1, <1>n DEF Due
  <2>3. Due' = Cardinality(Inserting')
    <3>1. ~NoVideos'
      BY <1>4, <1>n DEF CreateSamples, NoVideos
    <3> QED BY <3>1, <2>1, <1>n DEF Due
  <2>4. inserted' = inserted + 1 /\ overlaps' = overlaps /\ emptied' = emptied
    BY <1>4 DEF CreateSamples
  <2> QED BY <2>1, <2>2, <2>3, <2>4, <1>n DEF SamplesDue
<1>5. ASSUME NEW p \in Process, SeedFails(p) \/ Down(p) PROVE SamplesDue'
  <2>1. UNCHANGED videos
    BY <1>5 DEF SeedFails, Down
  <2>2. PICK s : s # "inserting" /\ at' = [at EXCEPT ![p] = s]
    BY <1>5 DEF SeedFails, Down
  <2>3. CASE at[p] = "inserting"
    BY <2>1, <2>2, <2>3, InsertionGivenUp
  <2>4. CASE at[p] # "inserting"
    BY <2>1, <2>2, <2>4, InsertingKept, DueKept
  <2> QED BY <2>3, <2>4
<1>6. CASE Upload
  <2>1. Inserting' = Inserting /\ ~NoVideos'
    BY <1>6 DEF Upload, Inserting, NoVideos
  <2>2. Due' = Cardinality(Inserting)
    BY <2>1, <1>n DEF Due
  <2>3. Due' <= Due /\ Due' \in Nat
    BY <2>2, DueNatural, <1>n
  <2>4. inserted + Due' <= 1 + overlaps + (emptied + 0)
    <3>1. inserted + Due <= 1 + overlaps + emptied
      BY DEF SamplesDue
    <3>2. Due' <= Due + 0
      BY <2>3, <1>n
    <3> QED BY <2>3, <1>n, <3>1, <3>2, AtMost
  <2>5. inserted' = inserted /\ overlaps' = overlaps /\ emptied' = emptied
    BY <1>6 DEF Upload
  <2> QED BY <2>4, <2>5, <1>n DEF SamplesDue
<1>7. CASE DeleteVideos
  <2>1. Inserting' = Inserting
    BY <1>7 DEF DeleteVideos, Inserting
  <2>2. Due' <= Cardinality(Inserting) + 1 /\ Due' \in Nat
    BY <2>1, <1>n DEF Due
  <2>3. Due' <= Due + 1
    BY <2>2, DueNatural, <1>n
  <2>4. inserted' = inserted /\ overlaps' = overlaps /\ emptied' = emptied + 1
    BY <1>7 DEF DeleteVideos
  <2>5. inserted + Due' <= 1 + overlaps + (emptied + 1)
    <3>1. inserted + Due <= 1 + overlaps + emptied
      BY DEF SamplesDue
    <3> QED BY <2>2, <2>3, <1>n, <3>1, AtMost
  <2> QED BY <2>4, <2>5 DEF SamplesDue
<1> QED BY <1>0, <1>1, <1>2, <1>3, <1>4, <1>5, <1>6, <1>7 DEF Next, Count

-----------------------------------------------------------------------------
LEMMA AlwaysStartupInv == Spec => []StartupInv
<1>1. StartupInv /\ [Next]_vars => StartupInv'
  BY NextTypeOK, NextBucketKnown, NextSamplesDue DEF StartupInv
<1> QED BY InitStartupInv, <1>1, PTL DEF Spec

\* seed.ts: whoever counts or inserts has stored both owners of the samples, so
\* that the foreign key holds whenever the seeds of any containers overlap.
THEOREM StartupTypeCorrect == Spec => []TypeOK
<1>1. StartupInv => TypeOK
  BY DEF StartupInv
<1> QED BY AlwaysStartupInv, <1>1, PTL

\* StorageService.onModuleInit: a process that is up has a public bucket, or
\* one that another process is about to open, or that a dying start has left.
THEOREM BucketOpened == Spec => []BucketIsPublic
<1>1. StartupInv => BucketIsPublic
  BY DEF StartupInv, TypeOK, BucketKnown, BucketIsPublic
<1> QED BY AlwaysStartupInv, <1>1, PTL

\* seed.ts: every insertion beyond the first is paid for by an overlap of two
\* seeds or by the deletion of all videos.
THEOREM SamplesAccountedFor == Spec => []SamplesForAReason
<1>1. StartupInv => SamplesForAReason
  <2> SUFFICES ASSUME StartupInv PROVE SamplesForAReason
    OBVIOUS
  <2>1. Due \in Nat /\ inserted \in Nat /\ overlaps \in Nat /\ emptied \in Nat
    BY DueNatural, BoundAssumption DEF StartupInv, TypeOK
  <2> QED BY <2>1 DEF StartupInv, SamplesDue, SamplesForAReason
<1> QED BY AlwaysStartupInv, <1>1, PTL

(***************************************************************************)
(* Requests                                                                *)
(***************************************************************************)
\* What every call of every handler keeps to: a row is created with the rows it
\* refers to, nobody deletes a user, and what a find throws is a refusal.
Refusals == {400, 401, 403, 404, 409}
GoodCall(c) ==
  /\ c.op \in {"find", "create", "read", "update", "updateMany", "delete", "redis",
               "upload", "remove"}
  /\ c.op = "create" => c.on \in Table /\ Parents[c.on] \subseteq c.needs
  /\ c.op = "update" => c.on \in Table
  /\ c.op = "delete" => c.on \in {"video", "comment"}
  /\ c.op = "find" => c.missing \in Refusals /\ c.throws \subseteq Refusals

\* Calls that do not throw as long as the user is there.
Safe(c) ==
  \/ c.op \in {"read", "updateMany", "redis", "upload", "remove"}
  \/ c.op = "create" /\ c.on # "user" /\ c.needs = {"user"}
  \/ c.op = "update" /\ c.on = "user"

\* Writes that need no row; only handlers with a user make them.
Unconditional == {"updateMany", "upload", "remove"}

\* After the first write of a handler its calls are safe.
GoodRoute(rt) ==
  /\ rt.public \in BOOLEAN
  /\ rt.input \subseteq {400, 413}
  /\ Len(rt.calls) \in 0..4
  /\ \A i \in 1..Len(rt.calls) :
       /\ GoodCall(rt.calls[i])
       /\ rt.calls[i].op \in Unconditional => ~rt.public
       /\ \A j \in 1..Len(rt.calls) :
            j < i /\ rt.calls[j].op \in Writes => Safe(rt.calls[i])

(***************************************************************************)
(* The handlers                                                            *)
(***************************************************************************)
LEMMA AuthControllerGood == \A rt \in AuthController : GoodRoute(rt)
<1> DEFINE
     register == Public("auth.register", {400},
       <<Create("user", {}), Create("token", {"user"})>>)
     login == Public("auth.login", {400},
       <<Find("user", 401, {401}), Create("token", {"user"})>>)
     refresh == Public("auth.refresh", {400},
       <<Find("token", 401, {401}), Find("user", 401, {}), Update("token"),
       Create("token", {"user"})>>)
     refreshWithout == Public("auth.refresh without token", {400}, <<>>)
     logout == Route("auth.logout", {}, <<UpdateMany("token")>>)
     logoutWithout == Route("auth.logout without cookie", {}, <<>>)
     me == Route("auth.me", {}, <<Find("user", 401, {})>>)
<1>0. AuthController = {register, login, refresh, refreshWithout, logout, logoutWithout, me}
  BY DEF AuthController
<1> USE DEF Find, Create, Read, Update, UpdateMany, Delete, Redis, RedisOrReturn, UploadFile,
            Forget, Call, Route, Public, GoodRoute, GoodCall, Safe, Unconditional, Refusals,
            Writes, Table, Parents, OK
<1>1. GoodRoute(register)
  OBVIOUS
<1>2. GoodRoute(login)
  OBVIOUS
<1>3. GoodRoute(refresh)
  OBVIOUS
<1>4. GoodRoute(refreshWithout)
  OBVIOUS
<1>5. GoodRoute(logout)
  OBVIOUS
<1>6. GoodRoute(logoutWithout)
  OBVIOUS
<1>7. GoodRoute(me)
  OBVIOUS
<1> HIDE DEF Find, Create, Read, Update, UpdateMany, Delete, Redis, RedisOrReturn, UploadFile,
             Forget, Call, Route, Public, GoodRoute
<1> HIDE DEF register, login, refresh, refreshWithout, logout, logoutWithout, me
<1> QED BY <1>0, <1>1, <1>2, <1>3, <1>4, <1>5, <1>6, <1>7

LEMMA VideosControllerGood == \A rt \in VideosController : GoodRoute(rt)
<1> USE DEF Find, Create, Read, Update, UpdateMany, Delete, Redis, RedisOrReturn, UploadFile,
            Forget, Call, Route, Public, GoodRoute, GoodCall, Safe, Unconditional, Refusals,
            Writes, Table, Parents, OK
<1>1. GoodRoute(Public("videos.list", {400}, <<RedisOrReturn, Read("video"), Redis>>))
  OBVIOUS
<1>2. GoodRoute(Public("videos.hot", {}, <<RedisOrReturn, Read("video"), Redis>>))
  OBVIOUS
<1>3. GoodRoute(Public("videos.get", {}, <<Find("video", 404, {}), Redis>>))
  OBVIOUS
<1>4. GoodRoute(Public("videos.stream", {}, <<RedisOrReturn, Redis>>))
  OBVIOUS
<1>5. GoodRoute(Route("videos.create", {400, 413},
           <<UploadFile, Create("video", {"user"}), Redis>>))
  OBVIOUS
<1>6. GoodRoute(Route("videos.update", {400},
           <<Find("video", 404, {403}), Update("video")>>))
  OBVIOUS
<1>7. GoodRoute(Route("videos.remove", {},
           <<Find("video", 404, {403}), Delete("video"), Forget>>))
  OBVIOUS
<1> HIDE DEF Find, Create, Read, Update, UpdateMany, Delete, Redis, RedisOrReturn, UploadFile,
             Forget, Call, Route, Public, GoodRoute
<1> QED BY <1>1, <1>2, <1>3, <1>4, <1>5, <1>6, <1>7 DEF VideosController

LEMMA CommentsControllerGood == \A rt \in CommentsController : GoodRoute(rt)
<1> DEFINE
     list == Public("comments.list", {400}, <<Read("comment")>>)
     create == Route("comments.create", {400},
       <<Find("video", 404, {}), Create("comment", {"user", "video"})>>)
     reply == Route("comments.create reply", {400},
       <<Find("video", 404, {}), Find("comment", 400, {400}),
       Create("comment", {"user", "video", "comment"})>>)
     update == Route("comments.update", {400},
       <<Find("comment", 404, {404}), Update("comment")>>)
     delete == Route("comments.delete", {},
       <<Find("comment", 404, {404}), Delete("comment")>>)
<1>0. CommentsController = {list, create, reply, update, delete}
  BY DEF CommentsController
<1> USE DEF Find, Create, Read, Update, UpdateMany, Delete, Redis, RedisOrReturn, UploadFile,
            Forget, Call, Route, Public, GoodRoute, GoodCall, Safe, Unconditional, Refusals,
            Writes, Table, Parents, OK
<1>1. GoodRoute(list)
  OBVIOUS
<1>2. GoodRoute(create)
  OBVIOUS
<1>3. GoodRoute(reply)
  OBVIOUS
<1>4. GoodRoute(update)
  OBVIOUS
<1>5. GoodRoute(delete)
  OBVIOUS
<1> HIDE DEF Find, Create, Read, Update, UpdateMany, Delete, Redis, RedisOrReturn, UploadFile,
             Forget, Call, Route, Public, GoodRoute
<1> HIDE DEF list, create, reply, update, delete
<1> QED BY <1>0, <1>1, <1>2, <1>3, <1>4, <1>5

LEMMA UsersControllerGood == \A rt \in UsersController : GoodRoute(rt)
<1> USE DEF Find, Create, Read, Update, UpdateMany, Delete, Redis, RedisOrReturn, UploadFile,
            Forget, Call, Route, Public, GoodRoute, GoodCall, Safe, Unconditional, Refusals,
            Writes, Table, Parents, OK
<1>1. GoodRoute(Route("users.getMe", {}, <<Find("user", 404, {})>>))
  OBVIOUS
<1>2. GoodRoute(Route("users.updateMe", {400}, <<Update("user")>>))
  OBVIOUS
<1>3. GoodRoute(Route("users.changePassword", {400},
           <<Find("user", 404, {400}), Update("user"), UpdateMany("token")>>))
  OBVIOUS
<1>4. GoodRoute(Route("users.updateAvatar", {400, 413},
           <<Read("user"), UploadFile, Update("user")>>))
  OBVIOUS
<1> HIDE DEF Find, Create, Read, Update, UpdateMany, Delete, Redis, RedisOrReturn, UploadFile,
             Forget, Call, Route, Public, GoodRoute
<1> QED BY <1>1, <1>2, <1>3, <1>4 DEF UsersController

LEMMA AppControllerGood == \A rt \in AppController : GoodRoute(rt)
<1> USE DEF Find, Create, Read, Update, UpdateMany, Delete, Redis, RedisOrReturn, UploadFile,
            Forget, Call, Route, Public, GoodRoute, GoodCall, Safe, Unconditional, Refusals,
            Writes, Table, Parents, OK
<1>1. GoodRoute(Public("app.health", {}, <<>>))
  OBVIOUS
<1>2. GoodRoute(Public("app.ready", {}, <<Read("none"), Redis>>))
  OBVIOUS
<1> HIDE DEF Find, Create, Read, Update, UpdateMany, Delete, Redis, RedisOrReturn, UploadFile,
             Forget, Call, Route, Public, GoodRoute
<1> QED BY <1>1, <1>2 DEF AppController

LEMMA RoutesGood == \A rt \in Routes : GoodRoute(rt)
BY AuthControllerGood, VideosControllerGood, CommentsControllerGood, UsersControllerGood,
   AppControllerGood DEF Routes

-----------------------------------------------------------------------------
\* Who is not answered has done nothing; who runs has got past the guards, and
\* once it has written, its user is there and its other calls are safe.
Started(r) ==
  /\ status[r] = Unsent => ~wrote[r]
  /\ status[r] = Running =>
       /\ route[r] \in Routes
       /\ ~route[r].public => "user" \in rows
       /\ wrote[r] =>
            /\ "user" \in rows
            /\ \E j \in 1..Len(route[r].calls) : j < pc[r] /\ route[r].calls[j].op \in Writes

RequestsStarted == \A r \in Request : Started(r)

RequestsInv ==
  /\ RequestsTypeOK /\ RequestsStarted /\ ServerErrorForAReason /\ ClientErrorsChangeNothing

LEMMA InitRequestsInv == RequestsInit => RequestsInv
BY DEF RequestsInit, RequestsInv, RequestsTypeOK, RequestsStarted, Started, ServerErrorForAReason,
       ClientErrorsChangeNothing, Status, Unsent, Running

(***************************************************************************)
(* Calls                                                                   *)
(***************************************************************************)
LEMMA CallGood ==
  ASSUME RequestsInv, NEW r \in Request, Calling(r)
  PROVE  GoodCall(call(r))
<1>1. route[r] \in Routes /\ pc[r] \in 1..5
  BY DEF RequestsInv, RequestsTypeOK, RequestsStarted, Started, Calling
<1>2. GoodRoute(route[r])
  BY <1>1, RoutesGood
<1>3. pc[r] \in 1..Len(route[r].calls)
  BY <1>1, <1>2 DEF Calling, GoodRoute
<1> QED BY <1>2, <1>3 DEF GoodRoute, call

\* Nothing that is thrown becomes a server error.
LEMMA ExceptionsRefuse ==
  ASSUME NEW c, GoodCall(c), NEW e \in Exceptions(c)
  PROVE  catch(e) \in Refusals
<1>1. CASE c.op = "find"
  <2>1. PICK s \in Refusals : e = HttpException(s)
    BY <1>1 DEF GoodCall, Exceptions
  <2> QED BY <2>1 DEF catch, HttpException
<1>2. CASE c.op # "find"
  <2>1. e \in {PrismaError("P2002"), PrismaError("P2025"), PrismaError("P2003")}
    BY <1>2 DEF Exceptions
  <2> QED BY <2>1 DEF catch, PrismaError, mapPrismaError, Refusals
<1> QED BY <1>1, <1>2

LEMMA UserStays ==
  ASSUME NEW c, GoodCall(c), "user" \in rows
  PROVE  "user" \in After(c)
BY DEF GoodCall, After, Parents

LEMMA SafeNeverThrows ==
  ASSUME NEW c, Safe(c), "user" \in rows
  PROVE  Exceptions(c) = {}
BY DEF Safe, Exceptions

\* The foreign keys hold after every call that does not throw.
LEMMA ParentsKept ==
  ASSUME RequestsTypeOK, NEW c, GoodCall(c), ~Bound(c)
  PROVE  After(c) \subseteq Table /\ \A t \in After(c) : Parents[t] \subseteq After(c)
<1>1. CASE c.op = "create"
  <2>1. Exceptions(c) = {}
    BY <1>1 DEF Bound
  <2>2. c.needs \subseteq rows
    BY <1>1, <2>1 DEF Exceptions
  <2> QED BY <1>1, <2>2 DEF After, GoodCall, RequestsTypeOK, Table, Parents
<1>2. CASE c.op = "delete"
  BY <1>2 DEF After, GoodCall, RequestsTypeOK, Table, Parents
<1>3. CASE c.op \notin {"create", "delete"}
  BY <1>3 DEF After, RequestsTypeOK
<1> QED BY <1>1, <1>2, <1>3

\* A handler that writes has its user.
LEMMA WriterHasUser ==
  ASSUME RequestsInv, NEW r \in Request, Calling(r), ~Bound(call(r)), call(r).op \in Writes
  PROVE  "user" \in After(call(r))
<1> DEFINE c == call(r)
<1>0. GoodCall(c)
  BY CallGood
<1>1. route[r] \in Routes /\ pc[r] \in 1..5 /\ (~route[r].public => "user" \in rows)
  BY DEF RequestsInv, RequestsTypeOK, RequestsStarted, Started, Calling
<1>2. GoodRoute(route[r])
  BY <1>1, RoutesGood
<1>3. pc[r] \in 1..Len(route[r].calls)
  BY <1>1, <1>2 DEF Calling, GoodRoute
<1>4. CASE c.op \in Unconditional
  <2>1. ~route[r].public
    BY <1>2, <1>3, <1>4 DEF GoodRoute, call
  <2> QED BY <2>1, <1>0, <1>1, UserStays
<1>5. CASE c.op = "create"
  <2>1. Exceptions(c) = {}
    BY <1>5 DEF Bound
  <2>2. c.needs \subseteq rows
    BY <1>5, <2>1 DEF Exceptions
  <2>3. c.on = "user" \/ "user" \in c.needs
    BY <1>0, <1>5 DEF GoodCall, Table, Parents
  <2> QED BY <1>5, <2>2, <2>3, <1>0, UserStays DEF After
<1>6. CASE c.op \in {"update", "delete"}
  <2>1. Exceptions(c) = {}
    BY <1>6 DEF Bound
  <2>2. c.on \in rows
    BY <1>6, <2>1 DEF Exceptions
  <2>3. "user" \in rows
    BY <1>0, <1>6, <2>2 DEF GoodCall, RequestsInv, RequestsTypeOK, Table, Parents
  <2> QED BY <2>3, <1>0, UserStays
<1> QED BY <1>4, <1>5, <1>6 DEF Writes, Unconditional

(***************************************************************************)
(* Steps                                                                   *)
(***************************************************************************)

\* Requests that a step is not about.
LEMMA OtherStarted ==
  ASSUME RequestsInv, NEW q \in Request, status'[q] = status[q], route'[q] = route[q],
         pc'[q] = pc[q], wrote'[q] = wrote[q], "user" \in rows => "user" \in rows'
  PROVE  Started(q)'
<1>1. Started(q)
  BY DEF RequestsInv, RequestsStarted
<1> QED BY <1>1 DEF Started

\* An answer ends a request.
LEMMA Answered ==
  ASSUME RequestsInv, NEW r \in Request, NEW s \in {OK, 500} \union Refusals, Answer(r, s),
         rows' \subseteq Table, \A t \in rows' : Parents[t] \subseteq rows',
         "user" \in rows => "user" \in rows',
         troubled' \in [Request -> BOOLEAN],
         \A q \in Request : troubled[q] => troubled'[q],
         s = 500 => troubled'[r], s \in Refusals => ~wrote[r]
  PROVE  RequestsInv'
<1>1. RequestsTypeOK
  BY DEF RequestsInv
<1>2. RequestsTypeOK'
  BY <1>1 DEF RequestsTypeOK, Answer, Status, OK, Refusals
<1>3. status' = [status EXCEPT ![r] = s] /\ wrote' = wrote
  BY DEF Answer
<1>4. s \notin {Unsent, Running}
  BY DEF OK, Refusals, Unsent, Running
<1>5. RequestsStarted'
  <2>1. Started(r)'
    BY <1>1, <1>3, <1>4 DEF Started, RequestsTypeOK
  <2>2. ASSUME NEW q \in Request, q # r PROVE Started(q)'
    <3>1. status'[q] = status[q] /\ route'[q] = route[q] /\ pc'[q] = pc[q]
          /\ wrote'[q] = wrote[q]
      BY <1>1, <2>2 DEF RequestsTypeOK, Answer
    <3> QED BY <3>1, OtherStarted
  <2> QED BY <2>1, <2>2 DEF RequestsStarted
<1>6. ServerErrorForAReason'
  BY <1>1, <1>3 DEF RequestsInv, ServerErrorForAReason, RequestsTypeOK
<1>7. ClientErrorsChangeNothing'
  BY <1>1, <1>3 DEF RequestsInv, ClientErrorsChangeNothing, RequestsTypeOK, OK, Refusals
<1> QED BY <1>2, <1>5, <1>6, <1>7 DEF RequestsInv

\* Whoever can still be refused has written nothing.
LEMMA ThrowerWroteNothing ==
  ASSUME RequestsInv, NEW r \in Request, Calling(r), Exceptions(call(r)) # {}
  PROVE  ~wrote[r]
<1> SUFFICES ASSUME wrote[r] PROVE FALSE
  OBVIOUS
<1>1. /\ route[r] \in Routes /\ pc[r] \in 1..5 /\ "user" \in rows
      /\ \E j \in 1..Len(route[r].calls) : j < pc[r] /\ route[r].calls[j].op \in Writes
  BY DEF RequestsInv, RequestsTypeOK, RequestsStarted, Started, Calling
<1>2. GoodRoute(route[r])
  BY <1>1, RoutesGood
<1>3. pc[r] \in 1..Len(route[r].calls)
  BY <1>1, <1>2 DEF Calling, GoodRoute
<1>4. Safe(call(r))
  BY <1>1, <1>2, <1>3 DEF GoodRoute, call
<1> QED BY <1>1, <1>4, SafeNeverThrows

LEMMA NextRequestsInv == RequestsInv /\ [RequestsNext]_requests => RequestsInv'
<1> SUFFICES ASSUME RequestsInv, [RequestsNext]_requests PROVE RequestsInv'
  OBVIOUS
<1>t. RequestsTypeOK
  BY DEF RequestsInv
<1>0. CASE UNCHANGED requests
  <2>1. RequestsTypeOK'
    BY <1>t, <1>0 DEF requests, RequestsTypeOK
  <2>2. RequestsStarted'
    BY <1>0 DEF requests, RequestsInv, RequestsStarted, Started
  <2>3. ServerErrorForAReason' /\ ClientErrorsChangeNothing'
    BY <1>0 DEF requests, RequestsInv, ServerErrorForAReason, ClientErrorsChangeNothing
  <2> QED BY <2>1, <2>2, <2>3 DEF RequestsInv
<1>1. ASSUME NEW r \in Request, NEW rt \in Routes, Admit(r, rt) PROVE RequestsInv'
  <2>1. RequestsTypeOK'
    BY <1>t, <1>1 DEF Admit, RequestsTypeOK, Status, Running
  <2>2. Started(r)'
    <3>1. ~wrote[r] /\ status'[r] = Running /\ route'[r] = rt /\ wrote' = wrote /\ rows' = rows
      BY <1>t, <1>1 DEF Admit, RequestsInv, RequestsStarted, Started, RequestsTypeOK
    <3>2. ~rt.public => "user" \in rows
      BY <1>1 DEF Admit, JWTAuthGuard, TokenIssued
    <3> QED BY <3>1, <3>2 DEF Started, Unsent, Running
  <2>3. ASSUME NEW q \in Request, q # r PROVE Started(q)'
    <3>1. /\ status'[q] = status[q] /\ route'[q] = route[q] /\ pc'[q] = pc[q]
          /\ wrote'[q] = wrote[q] /\ rows' = rows
      BY <1>t, <1>1, <2>3 DEF RequestsTypeOK, Admit
    <3> QED BY <3>1, OtherStarted
  <2>4. ServerErrorForAReason' /\ ClientErrorsChangeNothing'
    BY <1>t, <1>1 DEF Admit, RequestsInv, ServerErrorForAReason, ClientErrorsChangeNothing, RequestsTypeOK,
                      Running
  <2> QED BY <2>1, <2>2, <2>3, <2>4 DEF RequestsInv, RequestsStarted
<1>2. ASSUME NEW r \in Request, NEW rt \in Routes, Refuse(r, rt) PROVE RequestsInv'
  <2>1. PICK s \in (IF rt.public THEN {} ELSE {401}) \union ThrottlerGuard \union rt.input :
          status' = [status EXCEPT ![r] = s]
    BY <1>2 DEF Refuse
  <2>i. s \in {400, 401, 413, 429}
    <3>1. rt.input \subseteq {400, 413}
      BY RoutesGood DEF GoodRoute
    <3> QED BY <3>1 DEF ThrottlerGuard
  <2>2. RequestsTypeOK'
    BY <1>t, <1>2, <2>1, <2>i DEF Refuse, RequestsTypeOK, Status
  <2>3. ~wrote[r] /\ status'[r] = s
    BY <1>t, <1>2, <2>1 DEF Refuse, RequestsInv, RequestsStarted, Started, RequestsTypeOK
  <2>4. Started(r)'
    BY <2>3, <2>i DEF Started, Unsent, Running
  <2>5. ASSUME NEW q \in Request, q # r PROVE Started(q)'
    <3>1. /\ status'[q] = status[q] /\ route'[q] = route[q] /\ pc'[q] = pc[q]
          /\ wrote'[q] = wrote[q] /\ rows' = rows
      BY <1>t, <1>2, <2>1, <2>5 DEF RequestsTypeOK, Refuse
    <3> QED BY <3>1, OtherStarted
  <2>6. ServerErrorForAReason' /\ ClientErrorsChangeNothing'
    BY <1>t, <1>2, <2>1, <2>i, <2>3 DEF Refuse, RequestsInv, ServerErrorForAReason,
                                  ClientErrorsChangeNothing, RequestsTypeOK
  <2> QED BY <2>2, <2>4, <2>5, <2>6 DEF RequestsInv, RequestsStarted
<1>3. ASSUME NEW r \in Request, Perform(r) PROVE RequestsInv'
  <2>0. Calling(r) /\ ~Bound(call(r)) /\ rows' = After(call(r)) /\ GoodCall(call(r))
    BY <1>3, CallGood DEF Perform
  <2>1. pc[r] \in 1..Len(route[r].calls) /\ Len(route[r].calls) \in 0..4
    <3>1. route[r] \in Routes /\ pc[r] \in 1..5
      BY <2>0 DEF RequestsInv, RequestsTypeOK, RequestsStarted, Started, Calling
    <3>2. GoodRoute(route[r])
      BY <3>1, RoutesGood
    <3> QED BY <2>0, <3>1, <3>2 DEF Calling, GoodRoute
  <2>2. /\ pc' = [pc EXCEPT ![r] = @ + 1] /\ status' = status /\ route' = route
        /\ wrote' = [wrote EXCEPT ![r] = @ \/ call(r).op \in Writes]
        /\ redis' = redis /\ troubled' = troubled
    BY <1>3 DEF Perform
  <2>3. RequestsTypeOK'
    <3>1. rows' \subseteq Table /\ \A t \in rows' : Parents[t] \subseteq rows'
      BY <1>t, <2>0, ParentsKept
    <3>2. wrote' \in [Request -> BOOLEAN]
      BY <1>t, <2>2 DEF RequestsTypeOK
    <3>3. pc' \in [Request -> 1..5]
      <4>1. pc \in [Request -> 1..5]
        BY <1>t DEF RequestsTypeOK
      <4>2. PICK n \in 0..4 : n = Len(route[r].calls)
        BY <2>1, Zenon
      <4>3. pc[r] \in 1..n
        BY <2>1, <4>2, Zenon
      <4>4. pc[r] + 1 \in 1..5
        BY <4>3
      <4> QED BY <2>2, <4>1, <4>4
    <3> QED BY <1>t, <2>2, <3>1, <3>2, <3>3 DEF RequestsTypeOK
  <2>4. "user" \in rows => "user" \in rows'
    BY <2>0, UserStays
  <2>5. Started(r)'
    <3>1. status[r] = Running /\ Started(r)
      BY <2>0 DEF Calling, RequestsInv, RequestsStarted
    <3>2. wrote'[r] = (wrote[r] \/ call(r).op \in Writes) /\ pc'[r] = pc[r] + 1
      BY <1>t, <2>2 DEF RequestsTypeOK
    <3>3. route[r] \in Routes /\ (~route[r].public => "user" \in rows')
      BY <3>1, <2>4 DEF Started
    <3>4. ASSUME wrote[r]
          PROVE  /\ "user" \in rows'
                 /\ \E j \in 1..Len(route[r].calls) :
                      j < pc'[r] /\ route[r].calls[j].op \in Writes
      BY <3>1, <3>2, <3>4, <2>1, <2>4 DEF Started
    <3>5. ASSUME call(r).op \in Writes
          PROVE  /\ "user" \in rows'
                 /\ \E j \in 1..Len(route[r].calls) :
                      j < pc'[r] /\ route[r].calls[j].op \in Writes
      <4>1. "user" \in rows'
        BY <2>0, <3>5, WriterHasUser
      <4>2. pc[r] < pc'[r] /\ route[r].calls[pc[r]].op \in Writes
        BY <3>2, <3>5, <2>1 DEF call
      <4> QED BY <4>1, <4>2, <2>1
    <3>6. status'[r] = Running /\ route'[r] = route[r]
      BY <2>2, <3>1
    <3>7. wrote'[r] => "user" \in rows' /\ \E j \in 1..Len(route[r].calls) :
                         j < pc'[r] /\ route[r].calls[j].op \in Writes
      BY <3>2, <3>4, <3>5, Zenon
    <3> QED BY <3>3, <3>6, <3>7 DEF Started, Unsent, Running
  <2>6. ASSUME NEW q \in Request, q # r PROVE Started(q)'
    <3>1. status'[q] = status[q] /\ route'[q] = route[q] /\ pc'[q] = pc[q]
          /\ wrote'[q] = wrote[q]
      BY <1>t, <2>2, <2>6 DEF RequestsTypeOK
    <3> QED BY <2>4, <3>1, OtherStarted
  <2>7. ServerErrorForAReason'
    BY <2>2 DEF RequestsInv, ServerErrorForAReason
  <2>8. ClientErrorsChangeNothing'
    <3>1. status[r] \notin 400..499
      BY <2>0 DEF Calling, Running
    <3>2. \A q \in Request : q # r => wrote'[q] = wrote[q]
      BY <1>t, <2>2 DEF RequestsTypeOK
    <3> QED BY <2>2, <3>1, <3>2 DEF RequestsInv, ClientErrorsChangeNothing
  <2> QED BY <2>3, <2>5, <2>6, <2>7, <2>8 DEF RequestsInv, RequestsStarted
<1>4. ASSUME NEW r \in Request, Respond(r) PROVE RequestsInv'
  <2>1. Answer(r, OK) /\ rows' = rows /\ troubled' = troubled
    BY <1>4 DEF Respond
  <2> QED BY <1>t, <2>1, Answered DEF RequestsTypeOK, OK, Refusals
<1>5. ASSUME NEW r \in Request, Throw(r) PROVE RequestsInv'
  <2>1. PICK e \in Exceptions(call(r)) : Answer(r, catch(e))
    BY <1>5 DEF Throw
  <2>2. Calling(r) /\ rows' = rows /\ troubled' = troubled
    BY <1>5 DEF Throw
  <2>3. catch(e) \in Refusals
    BY <2>2, CallGood, ExceptionsRefuse
  <2>4. ~wrote[r]
    BY <2>1, <2>2, ThrowerWroteNothing
  <2> QED BY <1>t, <2>1, <2>2, <2>3, <2>4, Answered DEF RequestsTypeOK, Refusals
<1>6. ASSUME NEW r \in Request, DependencyFails(r) PROVE RequestsInv'
  <2>1. PICK s \in {OK, 500} : Answer(r, s)
    BY <1>6 DEF DependencyFails, catch, Error, HttpException
  <2>2. Calling(r) /\ GoodCall(call(r))
    BY <1>6, CallGood DEF DependencyFails
  <2>3. /\ rows' \subseteq Table /\ \A t \in rows' : Parents[t] \subseteq rows'
        /\ "user" \in rows => "user" \in rows'
    <3>1. CASE rows' = rows
      BY <1>t, <3>1 DEF RequestsTypeOK
    <3>2. CASE rows' = After(call(r)) /\ ~Bound(call(r))
      BY <1>t, <2>2, <3>2, ParentsKept, UserStays
    <3> QED BY <1>6, <3>1, <3>2 DEF DependencyFails
  <2>4. troubled' = [troubled EXCEPT ![r] = TRUE]
    BY <1>6 DEF DependencyFails
  <2>5. troubled' \in [Request -> BOOLEAN] /\ troubled'[r]
        /\ \A q \in Request : troubled[q] => troubled'[q]
    BY <1>t, <2>4 DEF RequestsTypeOK
  <2>6. s \notin Refusals
    BY DEF OK, Refusals
  <2> QED BY <2>1, <2>3, <2>5, <2>6, Answered
<1>7. CASE RedisGoes
  <2>1. RequestsTypeOK'
    BY <1>t, <1>7 DEF RedisGoes, RequestsTypeOK
  <2>2. RequestsStarted'
    BY <1>7 DEF RedisGoes, RequestsInv, RequestsStarted, Started
  <2>3. ServerErrorForAReason' /\ ClientErrorsChangeNothing'
    BY <1>7 DEF RedisGoes, RequestsInv, ServerErrorForAReason, ClientErrorsChangeNothing
  <2> QED BY <2>1, <2>2, <2>3 DEF RequestsInv
<1> QED BY <1>0, <1>1, <1>2, <1>3, <1>4, <1>5, <1>6, <1>7 DEF RequestsNext

-----------------------------------------------------------------------------
LEMMA AlwaysRequestsInv == RequestsSpec => []RequestsInv
BY InitRequestsInv, NextRequestsInv, PTL DEF RequestsSpec

\* The state is well typed, and the foreign keys hold, whichever requests
\* create and delete rows next to each other.
THEOREM RequestsTypeCorrect == RequestsSpec => []RequestsTypeOK
<1>1. RequestsInv => RequestsTypeOK
  BY DEF RequestsInv
<1> QED BY AlwaysRequestsInv, <1>1, PTL

\* AllExceptionsFilter: a lost race is answered as a refusal, and 500 stands for
\* a failure of the database, the bucket or Redis.
THEOREM RacesAreRefused == RequestsSpec => []ServerErrorForAReason
<1>1. RequestsInv => ServerErrorForAReason
  BY DEF RequestsInv
<1> QED BY AlwaysRequestsInv, <1>1, PTL

\* The handlers: every call that may be refused comes before the first write,
\* or is about the user, whom nobody deletes.
THEOREM RefusalsChangeNothing == RequestsSpec => []ClientErrorsChangeNothing
<1>1. RequestsInv => ClientErrorsChangeNothing
  BY DEF RequestsInv
<1> QED BY AlwaysRequestsInv, <1>1, PTL
=============================================================================
