--------------------------- MODULE CommentsProofs ---------------------------
(***************************************************************************)
(* Proofs about Comments, for any number of videos, users, comments and    *)
(* concurrent handlers.                                                    *)
(***************************************************************************)
EXTENDS Comments, TLAPS

HandlingType == [at : HandlerAt, user : User \union {None},
                 video : Video \union {None},
                 comment : Comment \union {None},
                 text : Text \union {None}]

\* What a handler has found out is still true when it writes: as long as the
\* comment that it looked up exists, it is a root of the right video, or one
\* that the user may change.  The comment was drawn before, so that no insert
\* can make a new one of it.
HandlersKnow ==
  \A h \in Handler :
    LET c == handling[h].comment IN
    /\ handling[h].at \in {"resolving", "inserting", "updating"} => handling[h].text \in Text
    /\ handling[h].at = "inserting" =>
         /\ c \in used \union {None}
         /\ c \in comments => parent[c] = None /\ video[c] = handling[h].video
    /\ handling[h].at \in {"updating", "removing"} =>
         /\ c \in used
         /\ c \in comments => author[c] = handling[h].user \/ handling[h].user \in Admin

IInv == TypeOK /\ ThreadsAreFlat /\ HandlersKnow

(***************************************************************************)
(* The cascade                                                             *)
(***************************************************************************)

\* The cascade deletes what it starts from, and no comment that stays replies
\* to one that goes.
LEMMA CascadeCloses ==
  ASSUME NEW C \in SUBSET comments
  PROVE  /\ C \subseteq Cascade(C)
         /\ Cascade(C) \subseteq comments
         /\ \A d \in comments : parent[d] \in Cascade(C) => d \in Cascade(C)
  BY DEF Cascade, Closed

\* A set of comments that is closed under replies is all that the cascade
\* deletes.
LEMMA CascadeOfClosed ==
  ASSUME NEW C \in SUBSET comments, Closed(C)
  PROVE  Cascade(C) = C
  BY DEF Cascade

\* In threads of two levels the cascade from one comment stops at its replies.
LEMMA CascadeOfOne ==
  ASSUME TypeOK, ThreadsAreFlat, NEW c \in comments
  PROVE  Cascade({c}) = {c} \union {d \in comments : parent[d] = c}
<1> DEFINE T == {c} \union {d \in comments : parent[d] = c}
<1>0. c # None /\ None \notin comments /\ T \in SUBSET comments
  BY NoneAssumption DEF TypeOK
<1>1. Closed(T)
  <2>1. ASSUME NEW d \in comments, NEW e \in comments, parent[e] = c, parent[d] = e
        PROVE  FALSE
    BY <1>0, <2>1 DEF ThreadsAreFlat
  <2> QED BY <2>1 DEF Closed
<1>2. ASSUME NEW S \in SUBSET comments, {c} \subseteq S, Closed(S)
      PROVE  T \subseteq S
  BY <1>2 DEF Closed
<1>3. \A e \in comments : (\A S \in SUBSET comments : {c} \subseteq S /\ Closed(S) => e \in S) => e \in T
  BY <1>0, <1>1
<1> QED BY <1>0, <1>2, <1>3 DEF Cascade

\* The comments of a video are closed under replies.
LEMMA CascadeOfVideo ==
  ASSUME ThreadsAreFlat, None \notin comments, NEW v
  PROVE  Cascade({c \in comments : video[c] = v}) = {c \in comments : video[c] = v}
<1>1. Closed({c \in comments : video[c] = v})
  BY DEF ThreadsAreFlat, Closed
<1> QED BY <1>1, CascadeOfClosed

(***************************************************************************)
(* The invariant                                                           *)
(***************************************************************************)
LEMMA InitIInv == Init => IInv
<1> SUFFICES ASSUME Init PROVE IInv
  OBVIOUS
<1>1. TypeOK
  BY DEF Init, TypeOK, Idle, HandlerAt
<1>2. ThreadsAreFlat /\ HandlersKnow
  BY DEF Init, ThreadsAreFlat, HandlersKnow, Idle
<1> QED BY <1>1, <1>2 DEF IInv

\* Steps that only refuse, or send a handler back to idle.
LEMMA ReturnKeeps ==
  ASSUME IInv, UNCHANGED <<rows, comments, used, columns, content>>,
         handling' = handling \/ \E h \in Handler : handling' = [handling EXCEPT ![h] = Idle]
  PROVE  IInv'
<1> USE DEF columns
<1>1. handling' \in [Handler -> HandlingType]
  BY DEF IInv, TypeOK, Idle, HandlerAt, HandlingType
<1>2. TypeOK'
  BY <1>1 DEF IInv, TypeOK, HandlingType
<1>3. ThreadsAreFlat'
  BY DEF IInv, ThreadsAreFlat
<1>4. HandlersKnow'
  <2>1. \A h \in Handler : handling'[h] = handling[h] \/ handling'[h].at = "idle"
    BY DEF IInv, TypeOK, Idle
  <2> QED BY <2>1 DEF IInv, HandlersKnow
<1> QED BY <1>2, <1>3, <1>4 DEF IInv

\* Steps of one handler that leave the tables alone.
LEMMA HandlingKeeps ==
  ASSUME IInv, UNCHANGED <<rows, comments, used, columns, content>>,
         NEW h \in Handler, NEW r \in HandlingType, handling' = [handling EXCEPT ![h] = r],
         r.at \in {"resolving", "inserting", "updating"} => r.text \in Text,
         r.at = "inserting" =>
           /\ r.comment \in used \union {None}
           /\ r.comment \in comments => parent[r.comment] = None /\ video[r.comment] = r.video,
         r.at \in {"updating", "removing"} =>
           /\ r.comment \in used
           /\ r.comment \in comments => author[r.comment] = r.user \/ r.user \in Admin
  PROVE  IInv'
<1> USE DEF columns
<1>1. TypeOK'
  BY DEF IInv, TypeOK, HandlingType
<1>2. ThreadsAreFlat'
  BY DEF IInv, ThreadsAreFlat
<1>3. HandlersKnow'
  <2>1. /\ handling'[h] = r
        /\ \A g \in Handler \ {h} : handling'[g] = handling[g]
    BY DEF IInv, TypeOK
  <2> QED BY <2>1 DEF IInv, HandlersKnow
<1> QED BY <1>1, <1>2, <1>3 DEF IInv

\* Deleting comments keeps the invariant if no comment stays that replies to
\* one that goes, and videos go with their comments.
LEMMA DeletionKeeps ==
  ASSUME IInv, UNCHANGED <<used, columns, content>>,
         handling' = handling \/ \E h \in Handler : handling' = [handling EXCEPT ![h] = Idle],
         rows' \subseteq rows, comments' \subseteq comments,
         \A c \in comments' : video[c] \in rows',
         \A c \in comments' : parent[c] \in comments => parent[c] \in comments'
  PROVE  IInv'
<1> USE DEF columns
<1>1. handling' \in [Handler -> HandlingType]
  BY DEF IInv, TypeOK, Idle, HandlerAt, HandlingType
<1>2. TypeOK'
  BY <1>1 DEF IInv, TypeOK, HandlingType
<1>3. ThreadsAreFlat'
  BY DEF IInv, ThreadsAreFlat
<1>4. HandlersKnow'
  <2>1. \A h \in Handler : handling'[h] = handling[h] \/ handling'[h].at = "idle"
    BY DEF IInv, TypeOK, Idle
  <2> QED BY <2>1 DEF IInv, HandlersKnow
<1> QED BY <1>2, <1>3, <1>4 DEF IInv

\* The insert: the new comment replies to a root of its video or to nobody.
LEMMA InsertKeeps ==
  ASSUME IInv, NEW h \in Handler, NEW c \in Comment, InsertComment(h, c)
  PROVE  IInv'
<1> USE DEF IInv
<1> DEFINE q == handling[h].comment
<1>1. /\ c \notin used /\ c \notin comments /\ c # None
      /\ q \in comments \union {None} /\ handling[h].video \in rows
      /\ handling[h].text \in Text
      /\ handling[h] \in HandlingType
  BY NoneAssumption DEF InsertComment, ReferencesExist, TypeOK, HandlersKnow, HandlingType
<1>2. /\ video'[c] = handling[h].video /\ parent'[c] = q
      /\ \A d \in Comment \ {c} :
           video'[d] = video[d] /\ parent'[d] = parent[d] /\ author'[d] = author[d]
  BY DEF InsertComment, TypeOK
<1>3. /\ rows' = rows /\ comments' = comments \union {c} /\ used' = used \union {c}
  BY DEF InsertComment
<1>4. handling' \in [Handler -> HandlingType]
  BY DEF InsertComment, TypeOK, Idle, HandlerAt, HandlingType
<1>5. TypeOK'
  <2>1. video' \in [Comment -> Video \union {None}] /\ parent' \in [Comment -> Comment \union {None}]
    BY <1>1 DEF InsertComment, TypeOK, HandlingType
  <2>2. author' \in [Comment -> User \union {None}]
    BY <1>1 DEF InsertComment, TypeOK, HandlingType
  <2>3. content' \in [Comment -> Text \union {None}]
    BY <1>1, TextAssumption DEF InsertComment, TypeOK, HandlingType
  <2>4. \A d \in comments' : video'[d] \in rows'
    BY <1>1, <1>2, <1>3 DEF TypeOK
  <2> QED BY <1>3, <1>4, <2>1, <2>2, <2>3, <2>4 DEF TypeOK, HandlingType
<1>6. ThreadsAreFlat'
  <2>1. q # None => q \in comments /\ parent[q] = None /\ video[q] = handling[h].video
    BY <1>1 DEF InsertComment, HandlersKnow
  <2>2. ASSUME NEW d \in comments', parent'[d] # None
        PROVE  /\ parent'[d] \in comments'
               /\ parent'[parent'[d]] = None
               /\ video'[parent'[d]] = video'[d]
    <3>1. CASE d = c
      BY <1>1, <1>2, <1>3, <2>1, <2>2, <3>1 DEF TypeOK
    <3>2. CASE d # c
      BY <1>1, <1>2, <1>3, <2>2, <3>2 DEF TypeOK, ThreadsAreFlat
    <3> QED BY <3>1, <3>2
  <2> QED BY <2>2 DEF ThreadsAreFlat
<1>7. HandlersKnow'
  <2>1. \A g \in Handler : handling'[g] = handling[g] \/ handling'[g].at = "idle"
    BY DEF InsertComment, TypeOK, Idle
  <2> QED BY <1>1, <1>2, <1>3, <2>1 DEF HandlersKnow, TypeOK
<1> QED BY <1>5, <1>6, <1>7

LEMMA NextIInv == IInv /\ [Next]_vars => IInv'
<1> SUFFICES ASSUME IInv, [Next]_vars PROVE IInv'
  OBVIOUS
<1>0. CASE UNCHANGED vars
  BY <1>0, ReturnKeeps DEF vars, columns, IInv, TypeOK
<1>1. ASSUME NEW h \in Handler, NEW u \in User, NEW v \in Video,
             NEW p \in Comment \union {None}, NEW t \in Text, FindVideo(h, u, v, p, t)
      PROVE  IInv'
  <2> DEFINE r == [at |-> IF p = None THEN "inserting" ELSE "resolving",
                   user |-> u, video |-> v, comment |-> p, text |-> t]
  <2>1. handling' = [handling EXCEPT ![h] = r] /\ UNCHANGED <<rows, comments, used, columns, content>>
    BY <1>1 DEF FindVideo
  <2>2. r \in HandlingType
    BY DEF HandlingType, HandlerAt
  <2>3. r.at = "inserting" => r.comment = None
    OBVIOUS
  <2>4. None \notin comments
    BY NoneAssumption DEF IInv, TypeOK
  <2>5. r.text \in Text /\ r.at \notin {"updating", "removing"}
    OBVIOUS
  <2> HIDE DEF r
  <2> QED BY <2>1, <2>2, <2>3, <2>4, <2>5, HandlingKeeps
<1>2. ASSUME NEW h \in Handler, ResolveParent(h) PROVE IInv'
  <2> DEFINE p == handling[h].comment
             q == IF parent[p] # None THEN parent[p] ELSE p
             r == [handling[h] EXCEPT !.at = "inserting", !.comment = q]
  <2>0. handling[h] \in HandlingType
    BY DEF IInv, TypeOK, HandlingType
  <2>1. handling' = [handling EXCEPT ![h] = r] /\ UNCHANGED <<rows, comments, used, columns, content>>
    BY <1>2 DEF ResolveParent
  <2>2. q \in comments /\ parent[q] = None /\ video[q] = handling[h].video
    BY <1>2 DEF ResolveParent, IInv, ThreadsAreFlat
  <2>3. q \in used /\ q \in Comment
    BY <2>2 DEF IInv, TypeOK
  <2>4. r.at = "inserting" /\ r.comment = q /\ r.video = handling[h].video /\ r.text = handling[h].text
    BY <2>0 DEF HandlingType
  <2>5. r \in HandlingType
    BY <2>0, <2>3 DEF HandlingType, HandlerAt
  <2>6. handling[h].text \in Text
    BY <1>2 DEF ResolveParent, IInv, HandlersKnow
  <2> HIDE DEF r
  <2> QED BY <2>1, <2>2, <2>3, <2>4, <2>5, <2>6, HandlingKeeps
<1>3. ASSUME NEW h \in Handler, ParentInvalid(h) \/ InsertRejected(h) \/ CommentMissing(h) PROVE IInv'
  BY <1>3, ReturnKeeps DEF ParentInvalid, InsertRejected, CommentMissing, IInv, TypeOK
<1>4. ASSUME NEW h \in Handler, NEW c \in Comment, InsertComment(h, c) PROVE IInv'
  BY <1>4, InsertKeeps
<1>5. ASSUME NEW h \in Handler, NEW u \in User, NEW c \in Comment, NEW t \in Text, FindForUpdate(h, u, c, t)
      PROVE  IInv'
  <2> DEFINE r == [at |-> "updating", user |-> u, video |-> None, comment |-> c, text |-> t]
  <2>1. handling' = [handling EXCEPT ![h] = r] /\ UNCHANGED <<rows, comments, used, columns, content>>
    BY <1>5 DEF FindForUpdate
  <2>2. r \in HandlingType
    BY DEF HandlingType, HandlerAt
  <2>3. c \in comments /\ c \in used /\ (author[c] = u \/ u \in Admin)
    BY <1>5 DEF FindForUpdate, AssertOwnerOrAdmin, IInv, TypeOK
  <2>4. r.at = "updating" /\ r.user = u /\ r.comment = c /\ r.text = t
    OBVIOUS
  <2> HIDE DEF r
  <2> QED BY <2>1, <2>2, <2>3, <2>4, HandlingKeeps
<1>6. ASSUME NEW h \in Handler, NEW u \in User, NEW c \in Comment, FindForRemove(h, u, c) PROVE IInv'
  <2> DEFINE r == [at |-> "removing", user |-> u, video |-> None, comment |-> c, text |-> None]
  <2>1. handling' = [handling EXCEPT ![h] = r] /\ UNCHANGED <<rows, comments, used, columns, content>>
    BY <1>6 DEF FindForRemove
  <2>2. r \in HandlingType
    BY DEF HandlingType, HandlerAt
  <2>3. c \in comments /\ c \in used /\ (author[c] = u \/ u \in Admin)
    BY <1>6 DEF FindForRemove, AssertOwnerOrAdmin, IInv, TypeOK
  <2>4. r.at = "removing" /\ r.user = u /\ r.comment = c
    OBVIOUS
  <2> HIDE DEF r
  <2> QED BY <2>1, <2>2, <2>3, <2>4, HandlingKeeps
<1>7. ASSUME NEW h \in Handler, UpdateComment(h) PROVE IInv'
  <2>1. handling[h].text \in Text
    BY <1>7 DEF UpdateComment, IInv, HandlersKnow
  <2>2. content' \in [Comment -> Text \union {None}]
    BY <1>7, <2>1, TextAssumption DEF UpdateComment, IInv, TypeOK
  <2>3. handling' \in [Handler -> HandlingType]
    BY <1>7 DEF UpdateComment, IInv, TypeOK, Idle, HandlerAt, HandlingType
  <2>4. UNCHANGED <<rows, comments, used, video, author, parent>>
    BY <1>7 DEF UpdateComment, columns
  <2>5. TypeOK'
    BY <2>2, <2>3, <2>4 DEF IInv, TypeOK, HandlingType
  <2>6. ThreadsAreFlat'
    BY <2>4 DEF IInv, ThreadsAreFlat
  <2>7. \A g \in Handler : handling'[g] = handling[g] \/ handling'[g].at = "idle"
    BY <1>7 DEF UpdateComment, IInv, TypeOK, Idle
  <2>8. HandlersKnow'
    BY <2>4, <2>7 DEF IInv, HandlersKnow
  <2> QED BY <2>5, <2>6, <2>8 DEF IInv
<1>8. ASSUME NEW h \in Handler, DeleteComment(h) PROVE IInv'
  <2> DEFINE c == handling[h].comment
             gone == Cascade({c})
  <2>1. c \in comments /\ comments' = comments \ gone /\ rows' = rows
        /\ handling' = [handling EXCEPT ![h] = Idle] /\ UNCHANGED <<used, columns, content>>
    BY <1>8 DEF DeleteComment
  <2>2. \A d \in comments : parent[d] \in gone => d \in gone
    BY <2>1, CascadeCloses
  <2>3. \A d \in comments : video[d] \in rows
    BY DEF IInv, TypeOK
  <2> HIDE DEF gone
  <2> QED BY <2>1, <2>2, <2>3, DeletionKeeps
<1>9. ASSUME NEW v \in Video, DeleteVideo(v) PROVE IInv'
  <2> DEFINE C == {c \in comments : video[c] = v}
  <2>1. comments' = comments \ C /\ rows' = rows \ {v} /\ handling' = handling
        /\ UNCHANGED <<used, columns, content>>
    BY <1>9, CascadeOfVideo, NoneAssumption DEF DeleteVideo, IInv, TypeOK
  <2>2. \A d \in comments : parent[d] \in C => d \in C
    BY NoneAssumption DEF IInv, ThreadsAreFlat, TypeOK
  <2>3. \A d \in comments : video[d] \in rows
    BY DEF IInv, TypeOK
  <2>4. \A d \in comments' : video[d] \in rows' /\ d \in comments
    BY <2>1, <2>3
  <2> HIDE DEF C
  <2> QED BY <2>1, <2>2, <2>4, DeletionKeeps
<1> QED BY <1>0, <1>1, <1>2, <1>3, <1>4, <1>5, <1>6, <1>7, <1>8, <1>9 DEF Next

LEMMA AlwaysIInv == Spec => []IInv
  BY InitIInv, NextIInv, PTL DEF Spec

(***************************************************************************)
(* The theorems                                                            *)
(***************************************************************************)

\* The state is well typed and no comment outlives the row of its video.
THEOREM TypeCorrect == Spec => []TypeOK
<1>1. IInv => TypeOK
  BY DEF IInv
<1> QED BY <1>1, AlwaysIInv, PTL

\* CommentsService.create never makes a third level or a reply across videos,
\* although it checks the parent before other requests run.
THEOREM ThreadsStayFlat == Spec => []ThreadsAreFlat
<1>1. IInv => ThreadsAreFlat
  BY DEF IInv
<1> QED BY <1>1, AlwaysIInv, PTL

\* listForVideo, which reads roots and their replies only, shows every comment
\* of a video.
THEOREM AllCommentsListed == Spec => []EveryCommentListed
<1>1. IInv => EveryCommentListed
  <2> SUFFICES ASSUME IInv, NEW v \in Video
               PROVE  Listed(v) = {c \in comments : video[c] = v}
    BY DEF EveryCommentListed
  <2> DEFINE roots == {c \in comments : video[c] = v /\ parent[c] = None}
  <2>1. \A c \in comments : parent[c] \in roots => video[c] = v
    BY NoneAssumption DEF IInv, TypeOK, ThreadsAreFlat
  <2>2. \A c \in comments : video[c] = v => c \in roots \/ parent[c] \in roots
    BY DEF IInv, ThreadsAreFlat
  <2>3. Listed(v) = roots \union {c \in comments : parent[c] \in roots}
    BY DEF Listed
  <2> QED BY <2>1, <2>2, <2>3
<1> QED BY <1>1, AlwaysIInv, PTL

\* Every deletion takes one comment with its replies or one video with its
\* comments.
THEOREM DeletionsTakeThreads == Spec => DeletionTakesThread
<1> DEFINE gone == comments \ comments'
           Thread == gone # {} =>
             \/ \E c \in comments : gone = {c} \union {d \in comments : parent[d] = c}
             \/ \E v \in rows \ rows' : gone = {c \in comments : video[c] = v}
<1>1. IInv /\ [Next]_vars => [Thread]_vars
  <2> SUFFICES ASSUME IInv, Next PROVE Thread
    OBVIOUS
  <2>1. ASSUME NEW h \in Handler, DeleteComment(h) PROVE Thread
    <3> DEFINE c == handling[h].comment
    <3>1. c \in comments /\ comments' = comments \ Cascade({c})
      BY <2>1 DEF DeleteComment
    <3>2. Cascade({c}) = {c} \union {d \in comments : parent[d] = c}
      BY <3>1, CascadeOfOne DEF IInv
    <3>3. gone = {c} \union {d \in comments : parent[d] = c}
      BY <3>1, <3>2
    <3> QED BY <3>1, <3>3
  <2>2. ASSUME NEW v \in Video, DeleteVideo(v) PROVE Thread
    <3>1. /\ v \in rows \ rows'
          /\ comments' = comments \ Cascade({c \in comments : video[c] = v})
      BY <2>2 DEF DeleteVideo
    <3>2. Cascade({c \in comments : video[c] = v}) = {c \in comments : video[c] = v}
      BY CascadeOfVideo, NoneAssumption DEF IInv, TypeOK
    <3>3. gone = {c \in comments : video[c] = v}
      BY <3>1, <3>2
    <3> QED BY <3>1, <3>3
  <2>3. CASE comments \subseteq comments'
    BY <2>3
  <2>4. \/ comments \subseteq comments'
        \/ \E h \in Handler : DeleteComment(h)
        \/ \E v \in Video : DeleteVideo(v)
    BY DEF Next, FindVideo, ResolveParent, ParentInvalid, InsertComment,
           InsertRejected, FindForUpdate, FindForRemove, UpdateComment, CommentMissing
  <2> QED BY <2>1, <2>2, <2>3, <2>4
<1> QED BY <1>1, AlwaysIInv, PTL DEF Spec, DeletionTakesThread

\* assertOwnerOrAdmin and the update are two calls, and still no text changes
\* but for its author or an administrator.
THEOREM EditsStayAuthorised == Spec => EditsAreAuthorised
<1> DEFINE Authorised ==
             \A c \in comments \intersect comments' :
               content'[c] # content[c] =>
                 \E h \in Handler :
                   /\ handling[h].at = "updating" /\ handling[h].comment = c
                   /\ handling[h].user = author[c] \/ handling[h].user \in Admin
<1>1. IInv /\ [Next]_vars => [Authorised]_vars
  <2> SUFFICES ASSUME IInv, Next PROVE Authorised
    OBVIOUS
  <2>1. ASSUME NEW h \in Handler, UpdateComment(h) PROVE Authorised
    <3>1. /\ handling[h].at = "updating" /\ handling[h].comment \in comments
          /\ \A c \in Comment : c # handling[h].comment => content'[c] = content[c]
      BY <2>1 DEF UpdateComment, IInv, TypeOK
    <3>2. author[handling[h].comment] = handling[h].user \/ handling[h].user \in Admin
      BY <3>1 DEF IInv, HandlersKnow
    <3> QED BY <3>1, <3>2 DEF IInv, TypeOK
  <2>2. ASSUME NEW h \in Handler, NEW d \in Comment, InsertComment(h, d) PROVE Authorised
    <3>1. \A c \in Comment : c # d => content'[c] = content[c]
      BY <2>2 DEF InsertComment, IInv, TypeOK
    <3> QED BY <2>2, <3>1 DEF InsertComment, IInv, TypeOK
  <2>3. CASE content' = content
    BY <2>3
  <2>4. \/ content' = content
        \/ \E h \in Handler : UpdateComment(h)
        \/ \E h \in Handler, d \in Comment : InsertComment(h, d)
    BY DEF Next, FindVideo, ResolveParent, ParentInvalid, InsertRejected, FindForUpdate,
           FindForRemove, DeleteComment, CommentMissing, DeleteVideo
  <2> QED BY <2>1, <2>2, <2>3, <2>4
<1> QED BY <1>1, AlwaysIInv, PTL DEF Spec, EditsAreAuthorised

(***************************************************************************)
(* The refinement                                                          *)
(***************************************************************************)

\* Every handler has a request of CommentBoard to do, or nothing.
RequestOf(q) == Asked(q) \in Board!Requests \union {Board!Nothing}
HandlersAsk == \A h \in Handler : RequestOf(handling[h])

LEMMA IdleAsksNothing == Asked(Idle) = Board!Nothing
  BY DEF Asked, Operation, Idle, Board!Nothing

\* A step of one handler changes its request and no other.
LEMMA AskedChanges ==
  ASSUME TypeOK, HandlersAsk, NEW h \in Handler, NEW r, RequestOf(r),
         handling' = [handling EXCEPT ![h] = r]
  PROVE  /\ askedBar' = [askedBar EXCEPT ![h] = Asked(r)]
         /\ askedBar[h] = Asked(handling[h])
         /\ HandlersAsk'
         /\ askedBar' \in [Handler -> Board!Requests \union {Board!Nothing}]
<1>1. handling'[h] = r /\ \A g \in Handler \ {h} : handling'[g] = handling[g]
  BY DEF TypeOK
<1>2. HandlersAsk'
  BY <1>1 DEF HandlersAsk
<1>3. askedBar' = [g \in Handler |-> Asked(handling'[g])]
  BY DEF askedBar, Asked, Operation
<1>4. askedBar' = [askedBar EXCEPT ![h] = Asked(r)]
  <2>1. \A g \in Handler : Asked(handling'[g]) = IF g = h THEN Asked(r) ELSE Asked(handling[g])
    BY <1>1
  <2>2. [askedBar EXCEPT ![h] = Asked(r)]
          = [g \in Handler |-> IF g = h THEN Asked(r) ELSE Asked(handling[g])]
    BY DEF askedBar
  <2> QED BY <1>3, <2>1, <2>2
<1>5. askedBar' \in [Handler -> Board!Requests \union {Board!Nothing}]
  BY <1>2, <1>3 DEF HandlersAsk, RequestOf
<1> QED BY <1>2, <1>4, <1>5 DEF askedBar

LEMMA HandlerReturns ==
  ASSUME TypeOK, HandlersAsk, NEW h \in Handler, handling' = [handling EXCEPT ![h] = Idle]
  PROVE  Board!Answer(h) /\ askedBar[h] = Asked(handling[h]) /\ HandlersAsk'
<1>1. RequestOf(Idle)
  BY IdleAsksNothing DEF RequestOf
<1>2. /\ askedBar' = [askedBar EXCEPT ![h] = Asked(Idle)]
      /\ askedBar[h] = Asked(handling[h]) /\ HandlersAsk'
  BY <1>1, AskedChanges
<1> QED BY <1>2, IdleAsksNothing DEF Board!Answer

\* A handler takes up a request r.
LEMMA HandlerAsks ==
  ASSUME TypeOK, HandlersAsk, NEW h \in Handler, NEW r, Asked(r) \in Board!Requests,
         handling[h] = Idle, handling' = [handling EXCEPT ![h] = r],
         UNCHANGED <<rows, boardBar, used>>
  PROVE  Board!Ask(h) /\ HandlersAsk'
<1>1. RequestOf(r)
  BY DEF RequestOf
<1>2. /\ askedBar' = [askedBar EXCEPT ![h] = Asked(r)]
      /\ askedBar[h] = Board!Nothing
      /\ HandlersAsk'
      /\ askedBar' \in [Handler -> Board!Requests \union {Board!Nothing}]
  BY <1>1, AskedChanges, IdleAsksNothing
<1>3. askedBar'[h] = Asked(r) /\ \A g \in Handler \ {h} : askedBar'[g] = askedBar[g]
  BY <1>2 DEF askedBar
<1>4. Board!Nothing \notin Board!Requests
  BY DEF Board!Nothing, Board!Requests
<1> QED BY <1>2, <1>3, <1>4 DEF Board!Ask

\* The entries of comments whose columns do not change.
LEMMA BoardKept ==
  ASSUME UNCHANGED <<comments, video, author, parent, content>>
  PROVE  boardBar' = boardBar
  BY DEF boardBar, Entry

LEMMA EntryFields ==
  \A c : /\ Entry(c).id = c /\ Entry(c).video = video[c] /\ Entry(c).author = author[c]
        /\ Entry(c).root = parent[c] /\ Entry(c).text = content[c]
  BY DEF Entry

LEMMA BoardMembers ==
  \A n : n \in boardBar <=> \E d \in comments : n = Entry(d)
  BY DEF boardBar

\* What is left when the entries of some comments go.
LEMMA BoardShrinks ==
  ASSUME NEW S, comments' = S, S \subseteq comments, UNCHANGED <<columns, content>>
  PROVE  \A n : n \in boardBar' <=> n \in boardBar /\ n.id \in S
<1>1. \A d : Entry(d)' = Entry(d)
  BY DEF Entry, columns
<1>2. \A n : n \in boardBar' <=> \E d \in S : n = Entry(d)
  BY <1>1 DEF boardBar
<1> QED BY <1>2, BoardMembers, EntryFields

LEMMA PostStep ==
  ASSUME IInv, HandlersAsk, NEW h \in Handler, NEW c \in Comment, InsertComment(h, c)
  PROVE  Board!Post(h, c) /\ HandlersAsk'
<1> DEFINE q == handling[h]
           m == [id |-> c, video |-> q.video, author |-> q.user, root |-> q.comment,
                 text |-> clean[q.text]]
<1>1. /\ q.at = "inserting" /\ q.video \in rows /\ q.comment \in comments \union {None}
      /\ c \notin used /\ c \notin comments
  BY DEF InsertComment, ReferencesExist, IInv, TypeOK
<1>2. Board!Answer(h) /\ askedBar[h] = Asked(q) /\ HandlersAsk'
  BY HandlerReturns DEF InsertComment, IInv
<1>3. boardBar' = boardBar \union {m}
  <2>1. \A d \in comments : Entry(d)' = Entry(d)
    BY <1>1 DEF Entry, InsertComment, IInv, TypeOK
  <2>2. Entry(c)' = m
    BY DEF Entry, InsertComment, IInv, TypeOK
  <2>3. comments' = comments \union {c}
    BY DEF InsertComment
  <2> HIDE DEF m
  <2>4. boardBar' = {Entry(d)' : d \in comments'}
    BY DEF boardBar
  <2> QED BY <2>1, <2>2, <2>3, <2>4 DEF boardBar
<1>4. /\ Asked(q).on = q.video /\ Asked(q).user = q.user /\ Asked(q).text = q.text
      /\ Asked(q).op = IF q.comment = None THEN "post" ELSE "reply"
  BY <1>1 DEF Asked, Operation
<1>5. q.comment # None =>
        q.comment \in {n.id : n \in {n \in boardBar : n.video = q.video /\ n.root = None}}
  <2> SUFFICES ASSUME q.comment # None
               PROVE  \E n \in boardBar : n.video = q.video /\ n.root = None /\ n.id = q.comment
    OBVIOUS
  <2>1. q.comment \in comments /\ parent[q.comment] = None /\ video[q.comment] = q.video
    BY <1>1 DEF IInv, HandlersKnow
  <2>2. Entry(q.comment) \in boardBar
    BY <2>1 DEF boardBar
  <2> QED BY <2>1, <2>2, EntryFields
<1>6. rows' = rows /\ used' = used \union {c}
  BY DEF InsertComment
<1> QED BY <1>1, <1>2, <1>3, <1>4, <1>5, <1>6 DEF Board!Post

LEMMA EditStep ==
  ASSUME IInv, HandlersAsk, NEW h \in Handler, UpdateComment(h)
  PROVE  Board!Edit(h) /\ HandlersAsk'
<1> DEFINE q == handling[h]
<1>0. PICK c \in Comment : c = q.comment
  BY DEF UpdateComment, IInv, TypeOK
<1> DEFINE m == Entry(c)
<1>1. q.at = "updating" /\ c \in comments /\ c = q.comment
  BY <1>0 DEF UpdateComment
<1>2. Board!Answer(h) /\ askedBar[h] = Asked(q) /\ HandlersAsk'
  BY HandlerReturns DEF UpdateComment, IInv
<1>3. Asked(q).op = "edit" /\ Asked(q).on = c /\ Asked(q).user = q.user /\ Asked(q).text = q.text
  BY <1>1 DEF Asked, Operation
<1>4. m \in boardBar /\ m.id = c /\ Board!May(q.user, m)
  <2>1. q.user = author[c] \/ q.user \in Admin
    BY <1>1 DEF IInv, HandlersKnow
  <2> QED BY <1>1, <2>1, EntryFields DEF boardBar, Board!May
<1>5. boardBar' = (boardBar \ {m}) \union {[m EXCEPT !.text = clean[q.text]]}
  <2>1. Entry(c)' = [m EXCEPT !.text = clean[q.text]]
    BY <1>1 DEF Entry, UpdateComment, columns, IInv, TypeOK
  <2>2. \A d \in comments : d # c => Entry(d)' = Entry(d) /\ Entry(d) # m
    <3>1. \A d \in comments : d # c => Entry(d) # m
      BY EntryFields
    <3>2. \A d \in comments : d # c => Entry(d)' = Entry(d)
      BY <1>1 DEF Entry, UpdateComment, columns, IInv, TypeOK
    <3> QED BY <3>1, <3>2
  <2>3. comments' = comments
    BY DEF UpdateComment
  <2> DEFINE e == [m EXCEPT !.text = clean[q.text]]
  <2>4. \A n : n \in boardBar' <=> \E d \in comments : n = Entry(d)'
    BY <2>3 DEF boardBar
  <2>5. m = Entry(c) /\ (Entry(c))' = e
    BY <2>1
  <2> HIDE DEF m, e
  <2>6. \A n : n \in boardBar' <=> n \in (boardBar \ {m}) \union {e}
    BY <1>1, <2>2, <2>4, <2>5, BoardMembers
  <2> QED BY <2>6 DEF e
<1>6. UNCHANGED <<rows, used>>
  BY DEF UpdateComment
<1> QED BY <1>2, <1>3, <1>4, <1>5, <1>6 DEF Board!Edit

LEMMA DeleteStep ==
  ASSUME IInv, HandlersAsk, NEW h \in Handler, DeleteComment(h)
  PROVE  Board!Delete(h) /\ HandlersAsk'
<1> DEFINE q == handling[h]
           c == q.comment
           m == Entry(c)
<1>1. q.at = "removing" /\ c \in comments /\ comments' = comments \ Cascade({c})
  BY DEF DeleteComment
<1>2. Board!Answer(h) /\ askedBar[h] = Asked(q) /\ HandlersAsk'
  BY HandlerReturns DEF DeleteComment, IInv
<1>3. Asked(q).op = "delete" /\ Asked(q).on = c /\ Asked(q).user = q.user
  BY <1>1 DEF Asked, Operation
<1>4. m \in boardBar /\ m.id = c /\ Board!May(q.user, m)
  <2>1. q.user = author[c] \/ q.user \in Admin
    BY <1>1 DEF IInv, HandlersKnow
  <2> QED BY <1>1, <2>1, EntryFields DEF boardBar, Board!May
<1>5. boardBar' = {n \in boardBar : n.id # c /\ n.root # c}
  <2>1. comments' = {d \in comments : d # c /\ parent[d] # c}
    BY <1>1, CascadeOfOne DEF IInv
  <2>2. \A n : n \in boardBar' <=> n \in boardBar /\ n.id \in comments'
    BY <2>1, BoardShrinks DEF DeleteComment
  <2>3. \A n \in boardBar : n.id \in comments' <=> n.id # c /\ n.root # c
    BY <2>1, BoardMembers, EntryFields
  <2> QED BY <2>2, <2>3
<1>6. UNCHANGED <<rows, used>>
  BY DEF DeleteComment
<1> QED BY <1>2, <1>3, <1>4, <1>5, <1>6 DEF Board!Delete

LEMMA CloseStep ==
  ASSUME IInv, HandlersAsk, NEW v \in Video, DeleteVideo(v)
  PROVE  Board!Close(v) /\ HandlersAsk'
<1>1. Cascade({c \in comments : video[c] = v}) = {c \in comments : video[c] = v}
  BY CascadeOfVideo, NoneAssumption DEF IInv, TypeOK
<1>2. comments' = {c \in comments : video[c] # v}
  BY <1>1 DEF DeleteVideo
<1>3. \A n : n \in boardBar' <=> n \in boardBar /\ n.id \in comments'
  BY <1>2, BoardShrinks DEF DeleteVideo
<1>4. boardBar' = {n \in boardBar : n.video # v}
  <2>1. \A n \in boardBar : n.id \in comments' <=> n.video # v
    BY <1>2, BoardMembers, EntryFields
  <2> QED BY <1>3, <2>1
<1>5. v \in rows /\ rows' = rows \ {v} /\ used' = used /\ handling' = handling
  BY DEF DeleteVideo
<1>6. askedBar' = askedBar /\ HandlersAsk'
  BY <1>5 DEF askedBar, HandlersAsk
<1> QED BY <1>4, <1>5, <1>6 DEF Board!Close

\* What is refused could not be done at that moment.
LEMMA RefuseStep ==
  ASSUME IInv, HandlersAsk, NEW h \in Handler,
         ParentInvalid(h) \/ InsertRejected(h) \/ CommentMissing(h)
  PROVE  Board!Refuse(h) /\ HandlersAsk'
<1> DEFINE q == handling[h]
<1>1. handling' = [handling EXCEPT ![h] = Idle] /\ UNCHANGED <<rows, comments, used, columns, content>>
  BY DEF ParentInvalid, InsertRejected, CommentMissing
<1>2. Board!Answer(h) /\ askedBar[h] = Asked(q) /\ HandlersAsk'
  BY <1>1, HandlerReturns DEF IInv
<1>3. UNCHANGED <<rows, boardBar, used>>
  BY <1>1, BoardKept DEF columns
<1>4. CASE ParentInvalid(h)
  <2>1. Asked(q).op = "reply"
    BY <1>4 DEF ParentInvalid, Asked, Operation
  <2> QED BY <1>2, <1>3, <2>1 DEF Board!Refuse
<1>5. CASE InsertRejected(h)
  <2>1. /\ Asked(q).on = q.video
        /\ Asked(q).op = IF q.comment = None THEN "post" ELSE "reply"
    BY <1>5 DEF InsertRejected, Asked, Operation
  <2>2. q.comment = None => q.video \notin rows
    BY <1>5 DEF InsertRejected, ReferencesExist
  <2> QED BY <1>2, <1>3, <2>1, <2>2 DEF Board!Refuse
<1>6. CASE CommentMissing(h)
  <2>1. Asked(q).on = q.comment /\ Asked(q).op \in {"edit", "delete"}
    BY <1>6 DEF CommentMissing, Asked, Operation
  <2>2. \A m \in boardBar : m.id # q.comment
    BY <1>6, EntryFields DEF CommentMissing, boardBar
  <2> QED BY <1>2, <1>3, <2>1, <2>2 DEF Board!Refuse
<1> QED BY <1>4, <1>5, <1>6

LEMMA BoardStep ==
  IInv /\ HandlersAsk /\ [Next]_vars => [Board!Next]_(Board!boardVars) /\ HandlersAsk'
<1> SUFFICES ASSUME IInv, HandlersAsk, [Next]_vars
             PROVE  [Board!Next]_(Board!boardVars) /\ HandlersAsk'
  OBVIOUS
<1> USE DEF columns
<1>0. TypeOK
  BY DEF IInv
<1>1. CASE UNCHANGED vars
  <2>1. boardBar' = boardBar
    BY <1>1, BoardKept DEF vars
  <2>2. askedBar' = askedBar
    BY <1>1 DEF vars, askedBar
  <2>3. HandlersAsk'
    BY <1>1 DEF vars, HandlersAsk
  <2> QED BY <1>1, <2>1, <2>2, <2>3 DEF vars, Board!boardVars
<1>2. ASSUME NEW h \in Handler, NEW u \in User, NEW v \in Video,
             NEW p \in Comment \union {None}, NEW t \in Text, FindVideo(h, u, v, p, t)
      PROVE  [Board!Next]_(Board!boardVars) /\ HandlersAsk'
  <2> DEFINE r == [at |-> IF p = None THEN "inserting" ELSE "resolving",
                   user |-> u, video |-> v, comment |-> p, text |-> t]
  <2>1. Asked(r) \in Board!Requests
    BY DEF Asked, Operation, Board!Requests
  <2>2. handling[h] = Idle /\ handling' = [handling EXCEPT ![h] = r]
    BY <1>2 DEF FindVideo
  <2>3. UNCHANGED <<rows, boardBar, used>>
    BY <1>2, BoardKept DEF FindVideo
  <2> HIDE DEF r
  <2>4. Board!Ask(h) /\ HandlersAsk'
    BY <1>0, <2>1, <2>2, <2>3, HandlerAsks
  <2> QED BY <2>4 DEF Board!Next
<1>3. ASSUME NEW h \in Handler, NEW u \in User, NEW c \in Comment, NEW t \in Text,
             FindForUpdate(h, u, c, t)
      PROVE  [Board!Next]_(Board!boardVars) /\ HandlersAsk'
  <2> DEFINE r == [at |-> "updating", user |-> u, video |-> None, comment |-> c, text |-> t]
  <2>1. Asked(r) \in Board!Requests
    BY DEF Asked, Operation, Board!Requests
  <2>2. handling[h] = Idle /\ handling' = [handling EXCEPT ![h] = r]
    BY <1>3 DEF FindForUpdate
  <2>3. UNCHANGED <<rows, boardBar, used>>
    BY <1>3, BoardKept DEF FindForUpdate
  <2> HIDE DEF r
  <2>4. Board!Ask(h) /\ HandlersAsk'
    BY <1>0, <2>1, <2>2, <2>3, HandlerAsks
  <2> QED BY <2>4 DEF Board!Next
<1>4. ASSUME NEW h \in Handler, NEW u \in User, NEW c \in Comment, FindForRemove(h, u, c)
      PROVE  [Board!Next]_(Board!boardVars) /\ HandlersAsk'
  <2> DEFINE r == [at |-> "removing", user |-> u, video |-> None, comment |-> c, text |-> None]
  <2>1. Asked(r) \in Board!Requests
    BY DEF Asked, Operation, Board!Requests
  <2>2. handling[h] = Idle /\ handling' = [handling EXCEPT ![h] = r]
    BY <1>4 DEF FindForRemove
  <2>3. UNCHANGED <<rows, boardBar, used>>
    BY <1>4, BoardKept DEF FindForRemove
  <2> HIDE DEF r
  <2>4. Board!Ask(h) /\ HandlersAsk'
    BY <1>0, <2>1, <2>2, <2>3, HandlerAsks
  <2> QED BY <2>4 DEF Board!Next
<1>5. ASSUME NEW h \in Handler, ResolveParent(h)
      PROVE  [Board!Next]_(Board!boardVars) /\ HandlersAsk'
  <2> DEFINE p == handling[h].comment
             q == IF parent[p] # None THEN parent[p] ELSE p
             r == [handling[h] EXCEPT !.at = "inserting", !.comment = q]
  <2>1. handling' = [handling EXCEPT ![h] = r] /\ handling[h].at = "resolving"
    BY <1>5 DEF ResolveParent
  <2>2. q # None
    BY <1>5, NoneAssumption DEF ResolveParent, IInv, TypeOK
  <2>3. /\ r.at = "inserting" /\ r.comment = q /\ r.user = handling[h].user
        /\ r.video = handling[h].video /\ r.text = handling[h].text
    BY <1>0 DEF TypeOK
  <2> HIDE DEF r, q
  <2>4. Asked(r) = Asked(handling[h])
    BY <2>1, <2>2, <2>3 DEF Asked, Operation
  <2>5. RequestOf(r)
    BY <2>4 DEF RequestOf, HandlersAsk
  <2>6. askedBar' = [askedBar EXCEPT ![h] = askedBar[h]] /\ HandlersAsk'
    BY <1>0, <2>1, <2>4, <2>5, AskedChanges
  <2>7. askedBar' = askedBar
    BY <2>6 DEF askedBar
  <2>8. UNCHANGED <<rows, boardBar, used>>
    BY <1>5, BoardKept DEF ResolveParent
  <2> QED BY <2>6, <2>7, <2>8 DEF Board!boardVars
<1>6. ASSUME NEW h \in Handler, ParentInvalid(h) \/ InsertRejected(h) \/ CommentMissing(h)
      PROVE  [Board!Next]_(Board!boardVars) /\ HandlersAsk'
  BY <1>6, RefuseStep DEF Board!Next
<1>7. ASSUME NEW h \in Handler, NEW c \in Comment, InsertComment(h, c)
      PROVE  [Board!Next]_(Board!boardVars) /\ HandlersAsk'
  BY <1>7, PostStep DEF Board!Next
<1>8. ASSUME NEW h \in Handler, UpdateComment(h)
      PROVE  [Board!Next]_(Board!boardVars) /\ HandlersAsk'
  BY <1>8, EditStep DEF Board!Next
<1>9. ASSUME NEW h \in Handler, DeleteComment(h)
      PROVE  [Board!Next]_(Board!boardVars) /\ HandlersAsk'
  BY <1>9, DeleteStep DEF Board!Next
<1>10. ASSUME NEW v \in Video, DeleteVideo(v)
       PROVE  [Board!Next]_(Board!boardVars) /\ HandlersAsk'
  BY <1>10, CloseStep DEF Board!Next
<1> QED BY <1>1, <1>2, <1>3, <1>4, <1>5, <1>6, <1>7, <1>8, <1>9, <1>10 DEF Next

\* CommentsService checks in one call and writes in another, with other requests
\* in between, and still every request takes effect as if it did both at once:
\* on a thread that is there, for an author or an administrator, and with its
\* replies; and what it refuses could not be done.
THEOREM RequestsTakeEffectAtOnce == Spec => ImplementsBoard
<1>1. Init => Board!Init /\ HandlersAsk
  <2> SUFFICES ASSUME Init PROVE Board!Init /\ HandlersAsk
    OBVIOUS
  <2>1. boardBar = {}
    BY DEF Init, boardBar
  <2>2. \A h \in Handler : Asked(handling[h]) = Board!Nothing
    BY IdleAsksNothing DEF Init
  <2>3. askedBar = [h \in Handler |-> Board!Nothing]
    BY <2>2 DEF askedBar
  <2>4. HandlersAsk
    BY <2>2 DEF HandlersAsk, RequestOf
  <2> QED BY <2>1, <2>3, <2>4 DEF Init, Board!Init
<1> QED BY <1>1, BoardStep, AlwaysIInv, PTL DEF Spec, ImplementsBoard, Board!Spec
=============================================================================
