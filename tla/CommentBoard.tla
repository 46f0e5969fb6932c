---------------------------- MODULE CommentBoard ----------------------------
(***************************************************************************)
(* What users of CommentsService may rely on, with its statements left     *)
(* out: a request that was found in order is asked, and later takes effect *)
(* in one step, in which all that it needs holds, or is refused because it *)
(* cannot take effect (docs/API.md, Comments).  Comments form threads of   *)
(* two levels, each of them on one video.                                  *)
(***************************************************************************)
CONSTANTS
  Video, User, Admin, Comment, Text, clean,
  Handler,      \* requests that may be open at a time
  None

VARIABLES
  open,         \* the videos that exist
  board,        \* the comments that exist
  drawn,        \* the ids of all comments that ever existed
  asked         \* the request of each handler

boardVars == <<open, board, drawn, asked>>

Nothing == [op |-> "none", user |-> None, on |-> None, text |-> None]

\* on is the video of a new comment or a reply, and the comment otherwise.
Requests ==
       [op : {"post", "reply"}, user : User, on : Video, text : Text]
  \union [op : {"edit"}, user : User, on : Comment, text : Text]
  \union [op : {"delete"}, user : User, on : Comment, text : {None}]

Init ==
  /\ open \in SUBSET Video
  /\ board = {}
  /\ drawn = {}
  /\ asked = [h \in Handler |-> Nothing]

Ask(h) ==
  /\ asked[h] = Nothing
  /\ asked' \in [Handler -> Requests \union {Nothing}]
  /\ asked'[h] # Nothing
  /\ \A g \in Handler \ {h} : asked'[g] = asked[g]
  /\ UNCHANGED <<open, board, drawn>>

Answer(h) == asked' = [asked EXCEPT ![h] = Nothing]

May(u, m) == u = m.author \/ u \in Admin

\* A comment starts a thread, or joins one of the same video.
Post(h, c) ==
  LET q == asked[h]
      threads == {m.id : m \in {m \in board : m.video = q.on /\ m.root = None}}
  IN
  /\ q.op \in {"post", "reply"}
  /\ q.on \in open
  /\ c \notin drawn
  /\ \E r \in (IF q.op = "post" THEN {None} ELSE threads) :
       board' = board \union
         {[id |-> c, video |-> q.on, author |-> q.user, root |-> r, text |-> clean[q.text]]}
  /\ drawn' = drawn \union {c}
  /\ Answer(h)
  /\ UNCHANGED open

\* The author or an administrator changes the text, and nothing else.
Edit(h) ==
  LET q == asked[h] IN
  /\ q.op = "edit"
  /\ \E m \in board :
       /\ m.id = q.on
       /\ May(q.user, m)
       /\ board' = (board \ {m}) \union {[m EXCEPT !.text = clean[q.text]]}
  /\ Answer(h)
  /\ UNCHANGED <<open, drawn>>

\* The author or an administrator deletes a reply, or a thread.
Delete(h) ==
  LET q == asked[h] IN
  /\ q.op = "delete"
  /\ \E m \in board :
       /\ m.id = q.on
       /\ May(q.user, m)
       /\ board' = {n \in board : n.id # m.id /\ n.root # m.id}
  /\ Answer(h)
  /\ UNCHANGED <<open, drawn>>

\* What a request is about has gone.  A reply may also have named a comment that
\* was never there or is on another video; which one it named is left out, since
\* the reply joins the thread even if that comment is deleted meanwhile.
Refuse(h) ==
  LET q == asked[h] IN
  /\ \/ q.op = "post" /\ q.on \notin open
     \/ q.op = "reply"
     \/ q.op \in {"edit", "delete"} /\ \A m \in board : m.id # q.on
  /\ Answer(h)
  /\ UNCHANGED <<open, board, drawn>>

\* A video is deleted with its comments.
Close(v) ==
  /\ v \in open
  /\ open' = open \ {v}
  /\ board' = {m \in board : m.video # v}
  /\ UNCHANGED <<drawn, asked>>

Next ==
  \/ \E h \in Handler : Ask(h)
  \/ \E h \in Handler, c \in Comment : Post(h, c)
  \/ \E h \in Handler : Edit(h) \/ Delete(h) \/ Refuse(h)
  \/ \E v \in Video : Close(v)

Spec == Init /\ [][Next]_boardVars
=============================================================================
