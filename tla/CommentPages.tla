---------------------------- MODULE CommentPages ----------------------------
(***************************************************************************)
(* A client reads all pages of the comments of a video, one request after  *)
(* the other, until hasNext is false, while comments come and go.  One     *)
(* request is listForVideo: the rows of a page and their total are two     *)
(* statements of a READ COMMITTED transaction, each with its own snapshot. *)
(***************************************************************************)
EXTENDS Naturals, FiniteSets

CONSTANTS
  Comment,     \* ids of top-level comments
  MaxTime,     \* bound of the clock
  Limits       \* values of query parameter limit

ASSUME CommentAssumption == IsFiniteSet(Comment) /\ Comment # {}
ASSUME BoundAssumption == MaxTime \in Nat
\* @Min(1) and @Max(100).
ASSUME LimitAssumption == Limits \subseteq 1..100

VARIABLES
  rows,        \* the comments in the table
  createdAt,   \* their times of creation, 0 before
  order,       \* query parameter order
  limit,       \* query parameter limit
  page,        \* query parameter page of the current request
  at,          \* how far the current request has come
  items,       \* the rows that it has read
  received,    \* how often the client has received each comment
  start,       \* history: the comments at the start
  met,         \* history: the comments that were in the table some time
  removed      \* history: whether a comment has been removed

request == <<order, limit, page, at, items, received>>
vars == <<rows, createdAt, request, start, met, removed>>

\* Pages overlap by one row (not part of Next).
SkipOneLess == (page - 1) * (limit - 1)

\* Math.floor instead of Math.ceil (not part of Next).
FullPages(total) == total \div limit

\* skip of PaginationQueryDto
skip == (page - 1) * limit

\* Math.ceil(total / limit)
totalPages(total) == (total + limit - 1) \div limit

hasNext(total) == page < totalPages(total)

Before(c, d) == IF order = "asc" THEN createdAt[c] < createdAt[d]
                                 ELSE createdAt[c] > createdAt[d]

\* What ORDER BY created_at may answer: comments of the same time come in any
\* order, which may be another one in the next statement.
Listings ==
  LET n == Cardinality(rows)
  IN  {l \in [1..n -> rows] :
         \A i, j \in 1..n : i < j => l[i] # l[j] /\ ~Before(l[j], l[i])}

Init ==
  /\ createdAt \in [Comment -> 0..MaxTime]
  /\ rows = {c \in Comment : createdAt[c] > 0}
  /\ order \in {"asc", "desc"}
  /\ limit \in Limits
  /\ page = 1
  /\ at = "asking"
  /\ items = {}
  /\ received = [c \in Comment |-> 0]
  /\ start = rows
  /\ met = rows
  /\ removed = FALSE

\* findMany with skip and take
findMany ==
  /\ at = "asking"
  /\ \E l \in Listings :
       items' = {l[i] : i \in {i \in DOMAIN l : skip < i /\ i <= skip + limit}}
  /\ at' = "counting"
  /\ UNCHANGED <<rows, createdAt, order, limit, page, received, start, met, removed>>

\* count, the answer, and the client's next request.
count ==
  /\ at = "counting"
  /\ received' = [c \in Comment |-> received[c] + IF c \in items THEN 1 ELSE 0]
  /\ IF hasNext(Cardinality(rows)) THEN page' = page + 1 /\ at' = "asking"
                                   ELSE page' = page /\ at' = "done"
  /\ items' = {}
  /\ UNCHANGED <<rows, createdAt, order, limit, start, met, removed>>

\* The request fails, and the client repeats it.
RequestFails ==
  /\ at = "counting"
  /\ at' = "asking"
  /\ items' = {}
  /\ UNCHANGED <<rows, createdAt, order, limit, page, received, start, met, removed>>

\* A comment is created.  Its time is that of the start of its transaction:
\* comments need not appear in the order of their times.
create(c) ==
  /\ at # "done"
  /\ createdAt[c] = 0
  /\ \E t \in 1..MaxTime : createdAt' = [createdAt EXCEPT ![c] = t]
  /\ rows' = rows \union {c}
  /\ met' = met \union {c}
  /\ UNCHANGED <<request, start, removed>>

\* A comment is removed.
remove(c) ==
  /\ at # "done"
  /\ c \in rows
  /\ rows' = rows \ {c}
  /\ removed' = TRUE
  /\ UNCHANGED <<createdAt, request, start, met>>

Next ==
  \/ findMany \/ count \/ RequestFails
  \/ \E c \in Comment : create(c) \/ remove(c)

Spec == Init /\ [][Next]_vars

(***************************************************************************)
(* Properties                                                              *)
(***************************************************************************)

\* Types; an answer has at most limit rows, and there are no more pages than
\* comments.
TypeOK ==
  /\ rows \subseteq met /\ start \subseteq met /\ met \subseteq Comment
  /\ createdAt \in [Comment -> 0..MaxTime]
  /\ order \in {"asc", "desc"}
  /\ limit \in Limits
  /\ page \in 1..Cardinality(Comment)
  /\ at \in {"asking", "counting", "done"}
  /\ items \subseteq met /\ Cardinality(items) <= limit
  /\ received \in [Comment -> Nat]
  /\ removed \in BOOLEAN

\* Another comment of the same time was in the table during the walk.
Tied(c) == \E d \in met \ {c} : createdAt[d] = createdAt[c]

\* A client that follows hasNext to its end receives every comment that was
\* there all the time, in either order and whatever is created meanwhile,
\* unless a comment was removed or its time is not its own.
NothingSkipped ==
  at = "done" /\ ~removed => \A c \in start : ~Tied(c) => received[c] > 0

\* It receives a comment twice only if one was created during the walk or its
\* time is not its own.
RepeatedForAReason ==
  met = start => \A c \in Comment : ~Tied(c) => received[c] <= 1
=============================================================================
