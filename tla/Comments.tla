------------------------------ MODULE Comments ------------------------------
(***************************************************************************)
(* CommentsService: comments of videos, in threads of two levels.  create  *)
(* looks at the video and the parent before it inserts, update and remove  *)
(* look at the comment before they write, and in between other requests    *)
(* delete comments and videos.  Foreign keys with onDelete: Cascade keep   *)
(* the tables consistent; the two levels are up to the code.               *)
(***************************************************************************)
EXTENDS Naturals

CONSTANTS
  Video,
  User,
  Admin,        \* the users whose token carries role ADMIN
  Comment,      \* the ids of the comments that are ever made, never reused
  Handler,      \* concurrent request handlers
  Text,         \* what clients send as content
  length,       \* the length of each text
  clean,        \* what sanitizeHtml and trim make of each text
  None          \* no video, no comment, no user, no text

ASSUME AdminAssumption == Admin \subseteq User
ASSUME TextAssumption == length \in [Text -> Nat] /\ clean \in [Text -> Text]
ASSUME NoneAssumption == None \notin Video \union Comment \union User \union Text

VARIABLES
  rows,         \* the rows of table videos
  comments,     \* the rows of table comments
  used,         \* the ids drawn so far
  video,        \* column video_id
  author,       \* column user_id
  parent,       \* column parent_id
  content,      \* column content
  handling      \* how far each handler has come

columns == <<video, author, parent>>
vars == <<rows, comments, used, video, author, parent, content, handling>>

Idle == [at |-> "idle", user |-> None, video |-> None, comment |-> None, text |-> None]

Init ==
  /\ rows \in SUBSET Video
  /\ comments = {}
  /\ used = {}
  /\ video = [c \in Comment |-> None]
  /\ author = [c \in Comment |-> None]
  /\ parent = [c \in Comment |-> None]
  /\ content = [c \in Comment |-> None]
  /\ handling = [h \in Handler |-> Idle]

\* The smallest set of comments that holds these and is closed under replies:
\* what the database deletes with them.
Closed(S) == \A c \in comments : parent[c] \in S => c \in S
Cascade(C) == {c \in comments : \A S \in SUBSET comments : C \subseteq S /\ Closed(S) => c \in S}

\* CreateCommentDto and UpdateCommentDto.
CreateMinLength == 2000
UpdateMaxLength == 2000

(***************************************************************************)
(* create                                                                  *)
(***************************************************************************)

\* The validation accepts the text and prisma.video.findUnique found the video.
FindVideo(h, u, v, p, t) ==
  /\ handling[h] = Idle
  /\ length[t] >= CreateMinLength
  /\ v \in rows
  /\ handling' = [handling EXCEPT ![h] =
       [at |-> IF p = None THEN "inserting" ELSE "resolving",
        user |-> u, video |-> v, comment |-> p, text |-> t]]
  /\ UNCHANGED <<rows, comments, used, columns, content>>

\* A reply to a reply stays one (not part of Next).
KeepParent(h) ==
  LET p == handling[h].comment IN
  /\ handling[h].at = "resolving"
  /\ p \in comments
  /\ video[p] = handling[h].video
  /\ handling' = [handling EXCEPT ![h].at = "inserting"]
  /\ UNCHANGED <<rows, comments, used, columns, content>>

\* A parent of another video is let through (not part of Next).
ResolveAnyParent(h) ==
  LET p == handling[h].comment IN
  /\ handling[h].at = "resolving"
  /\ p \in comments
  /\ handling' = [handling EXCEPT
       ![h].at = "inserting",
       ![h].comment = IF parent[p] # None THEN parent[p] ELSE p]
  /\ UNCHANGED <<rows, comments, used, columns, content>>

\* prisma.comment.findUnique found the parent; a reply to a reply becomes a
\* reply to its root.
ResolveParent(h) ==
  LET p == handling[h].comment IN
  /\ handling[h].at = "resolving"
  /\ p \in comments
  /\ video[p] = handling[h].video
  /\ handling' = [handling EXCEPT
       ![h].at = "inserting",
       ![h].comment = IF parent[p] # None THEN parent[p] ELSE p]
  /\ UNCHANGED <<rows, comments, used, columns, content>>

\* No such parent, or it belongs to another video: 400.
ParentInvalid(h) ==
  LET p == handling[h].comment IN
  /\ handling[h].at = "resolving"
  /\ p \notin comments \/ video[p] # handling[h].video
  /\ handling' = [handling EXCEPT ![h] = Idle]
  /\ UNCHANGED <<rows, comments, used, columns, content>>

\* No foreign keys, as with relationMode "prisma" (not part of Next).
ReferencesIgnored(h) == TRUE

\* The foreign keys of a new comment.
ReferencesExist(h) ==
  /\ handling[h].video \in rows
  /\ handling[h].comment \in comments \union {None}

\* prisma.comment.create
InsertComment(h, c) ==
  /\ handling[h].at = "inserting"
  /\ c \notin used
  /\ ReferencesExist(h)
  /\ comments' = comments \union {c}
  /\ used' = used \union {c}
  /\ video' = [video EXCEPT ![c] = handling[h].video]
  /\ author' = [author EXCEPT ![c] = handling[h].user]
  /\ parent' = [parent EXCEPT ![c] = handling[h].comment]
  /\ content' = [content EXCEPT ![c] = clean[handling[h].text]]
  /\ handling' = [handling EXCEPT ![h] = Idle]
  /\ UNCHANGED rows

\* The video or the parent was deleted since it was read (P2003, 400).
InsertRejected(h) ==
  /\ handling[h].at = "inserting"
  /\ ~ReferencesExist(h)
  /\ handling' = [handling EXCEPT ![h] = Idle]
  /\ UNCHANGED <<rows, comments, used, columns, content>>

(***************************************************************************)
(* update and remove                                                       *)
(***************************************************************************)

\* Anybody may edit and delete (not part of Next).
AssertNothing(u, c) == c \in comments

\* assertOwnerOrAdmin; otherwise 404.
AssertOwnerOrAdmin(u, c) == c \in comments /\ (author[c] = u \/ u \in Admin)

FindForUpdate(h, u, c, t) ==
  /\ handling[h] = Idle
  /\ length[t] \in 1..UpdateMaxLength
  /\ AssertOwnerOrAdmin(u, c)
  /\ handling' = [handling EXCEPT ![h] =
       [at |-> "updating", user |-> u, video |-> None, comment |-> c, text |-> t]]
  /\ UNCHANGED <<rows, comments, used, columns, content>>

FindForRemove(h, u, c) ==
  /\ handling[h] = Idle
  /\ AssertOwnerOrAdmin(u, c)
  /\ handling' = [handling EXCEPT ![h] =
       [at |-> "removing", user |-> u, video |-> None, comment |-> c, text |-> None]]
  /\ UNCHANGED <<rows, comments, used, columns, content>>

\* prisma.comment.update
UpdateComment(h) ==
  /\ handling[h].at = "updating"
  /\ handling[h].comment \in comments
  /\ content' = [content EXCEPT ![handling[h].comment] = clean[handling[h].text]]
  /\ handling' = [handling EXCEPT ![h] = Idle]
  /\ UNCHANGED <<rows, comments, used, columns>>

\* The replies become roots, as with onDelete: SetNull (not part of Next).
DeleteSetNull(h) ==
  LET c == handling[h].comment IN
  /\ handling[h].at = "removing"
  /\ c \in comments
  /\ comments' = comments \ {c}
  /\ parent' = [d \in Comment |-> IF parent[d] = c THEN None ELSE parent[d]]
  /\ handling' = [handling EXCEPT ![h] = Idle]
  /\ UNCHANGED <<rows, used, video, author, content>>

\* prisma.comment.delete, and the cascade over the replies.
DeleteComment(h) ==
  /\ handling[h].at = "removing"
  /\ handling[h].comment \in comments
  /\ comments' = comments \ Cascade({handling[h].comment})
  /\ handling' = [handling EXCEPT ![h] = Idle]
  /\ UNCHANGED <<rows, used, columns, content>>

\* The comment was deleted since it was read (P2025, 404).
CommentMissing(h) ==
  /\ handling[h].at \in {"updating", "removing"}
  /\ handling[h].comment \notin comments
  /\ handling' = [handling EXCEPT ![h] = Idle]
  /\ UNCHANGED <<rows, comments, used, columns, content>>

(***************************************************************************)
(* Around it                                                               *)
(***************************************************************************)

\* VideosService.remove deletes the row, with the cascade over its comments.
DeleteVideo(v) ==
  /\ v \in rows
  /\ rows' = rows \ {v}
  /\ comments' = comments \ Cascade({c \in comments : video[c] = v})
  /\ UNCHANGED <<used, columns, content, handling>>

-----------------------------------------------------------------------------
Next ==
  \/ \E h \in Handler, u \in User, v \in Video, p \in Comment \union {None}, t \in Text :
       FindVideo(h, u, v, p, t)
  \/ \E h \in Handler, u \in User, c \in Comment, t \in Text : FindForUpdate(h, u, c, t)
  \/ \E h \in Handler, u \in User, c \in Comment : FindForRemove(h, u, c)
  \/ \E h \in Handler, c \in Comment : InsertComment(h, c)
  \/ \E h \in Handler :
       \/ ResolveParent(h) \/ ParentInvalid(h) \/ InsertRejected(h)
       \/ UpdateComment(h) \/ DeleteComment(h) \/ CommentMissing(h)
  \/ \E v \in Video : DeleteVideo(v)

Spec == Init /\ [][Next]_vars

(***************************************************************************)
(* Properties                                                              *)
(***************************************************************************)
HandlerAt == {"idle", "resolving", "inserting", "updating", "removing"}

\* Type invariant, with what the foreign keys promise: the video of a comment
\* has a row.
TypeOK ==
  /\ rows \subseteq Video
  /\ comments \subseteq used /\ used \subseteq Comment
  /\ video \in [Comment -> Video \union {None}]
  /\ \A c \in comments : video[c] \in rows
  /\ author \in [Comment -> User \union {None}]
  /\ parent \in [Comment -> Comment \union {None}]
  /\ content \in [Comment -> Text \union {None}]
  /\ handling \in [Handler -> [at : HandlerAt, user : User \union {None},
                               video : Video \union {None},
                               comment : Comment \union {None},
                               text : Text \union {None}]]

\* Threads have two levels and stay within a video: a parent exists, is a root
\* and belongs to the video of the reply.  No foreign key says the last two;
\* create checks them long before it inserts.
ThreadsAreFlat ==
  \A c \in comments :
    parent[c] # None =>
      /\ parent[c] \in comments
      /\ parent[parent[c]] = None
      /\ video[parent[c]] = video[c]

\* listForVideo, all pages: the roots of the video and their replies.
Listed(v) ==
  LET roots == {c \in comments : video[c] = v /\ parent[c] = None}
  IN  roots \union {c \in comments : parent[c] \in roots}

\* The pages of a video show every comment of the video and no other.
EveryCommentListed ==
  \A v \in Video : Listed(v) = {c \in comments : video[c] = v}

\* A step deletes one comment with its replies, or all comments of a video
\* with its row, and never more: the cascade stays in the thread.
DeletionTakesThread ==
  [][LET gone == comments \ comments'
     IN  gone # {} =>
           \/ \E c \in comments : gone = {c} \union {d \in comments : parent[d] = c}
           \/ \E v \in rows \ rows' : gone = {c \in comments : video[c] = v}]_vars

\* A comment is edited only for its author or an administrator, although the
\* check and the write are separate calls.
EditsAreAuthorised ==
  [][\A c \in comments \intersect comments' :
       content'[c] # content[c] =>
         \E h \in Handler :
           /\ handling[h].at = "updating" /\ handling[h].comment = c
           /\ handling[h].user = author[c] \/ handling[h].user \in Admin]_vars

(***************************************************************************)
(* Comments implements CommentBoard                                        *)
(***************************************************************************)
Entry(c) ==
  [id |-> c, video |-> video[c], author |-> author[c], root |-> parent[c], text |-> content[c]]

boardBar == {Entry(c) : c \in comments}

\* What a handler that has come this far still has to do.
Operation(q) ==
  CASE q.at = "resolving" -> "reply"
    [] q.at = "inserting" -> IF q.comment = None THEN "post" ELSE "reply"
    [] q.at = "updating"  -> "edit"
    [] q.at = "removing"  -> "delete"
    [] OTHER -> "none"

Asked(q) ==
  [op |-> Operation(q), user |-> q.user, text |-> q.text,
   on |-> IF q.at \in {"updating", "removing"} THEN q.comment ELSE q.video]

askedBar == [h \in Handler |-> Asked(handling[h])]

Board == INSTANCE CommentBoard
  WITH open <- rows, board <- boardBar, drawn <- used, asked <- askedBar

\* Checks and writes are calls of their own, and still each request takes
\* effect as if they were one: the author or administrator is one and the thread
\* is there when the write happens, and what is refused could not be done.
ImplementsBoard == Board!Spec
=============================================================================
