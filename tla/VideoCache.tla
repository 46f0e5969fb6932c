----------------------------- MODULE VideoCache -----------------------------
(***************************************************************************)
(* The read caches of VideosService: one Redis entry per list query and    *)
(* one for the hot videos.  A miss reads the database and fills the entry  *)
(* with a time to live; a change of table videos starts an invalidation    *)
(* that nobody waits for.  Contents are versions: the number of changes    *)
(* that the table has seen.                                                *)
(***************************************************************************)
EXTENDS Naturals, Sequences

CONSTANTS
  Token,        \* the pieces that queries and keys are made of
  Query,        \* the list queries of clients, [paging, search, status, ownerId]
  Reader,       \* concurrent requests for lists
  MaxChanges,   \* bound of the changes of table videos
  None          \* no query, no entry

\* Each part of a query is a sequence of tokens; a part that the client leaves
\* out is the empty one.  The colon is a token like any other.  Page, limit,
\* order and sortBy, which have defaults and no colons, are one token.
Tokens == Seq(Token)
ASSUME TokenAssumption == {"videos", ":", "list", "hot"} \subseteq Token
ASSUME QueryAssumption ==
  Query \subseteq [paging : Tokens, search : Tokens, status : Tokens, ownerId : Tokens]
ASSUME BoundAssumption == MaxChanges \in Nat

\* What the pipe sees to: page and limit are integers, order, sortBy and status
\* members of lists.  It takes any text for search and ownerId.
ColonFree(s) == \A i \in 1..Len(s) : s[i] # ":"
ASSUME ValidAssumption ==
  \A q \in Query : q.paging # <<>> /\ ColonFree(q.paging) /\ ColonFree(q.status)

VARIABLES
  version,      \* how often table videos has changed
  cache,        \* the entries in Redis, None where there is none
  reading,      \* how far each reader has come
  scans,        \* changes whose scan for list keys is still to come
  dels,         \* changes whose deletion of the hot entry is still to come
  lists,        \* history: changes that will not invalidate the lists
  hots          \* history: changes that will not invalidate the hot entry

invalidation == <<scans, dels, lists, hots>>
vars == <<version, cache, reading, invalidation>>

Change == 1..MaxChanges

LIST_CACHE_PREFIX == <<"videos", ":", "list">>
HOT_CACHE_KEY == <<"videos", ":", "hot">>

\* The parts that are there, joined by colons (not part of Next).
JoinPresent(q) ==
  LET add(k, part) == IF part = <<>> THEN k ELSE k \o <<":">> \o part
  IN  add(add(add(q.paging, q.search), q.status), q.ownerId)

\* cacheKeyFor without the prefix: the parts of the query, joined by colons.
cacheKeyFor(q) ==
  q.paging \o <<":">> \o q.search \o <<":">> \o q.status \o <<":">> \o q.ownerId

\* The key of a list.
ListKey(q) == LIST_CACHE_PREFIX \o cacheKeyFor(q)

ListKeys == {ListKey(q) : q \in Query}
Key == ListKeys \union {HOT_CACHE_KEY}

\* The Redis pattern "videos:list:*".
Matches(k) ==
  LET p == LIST_CACHE_PREFIX \o <<":">>
  IN  Len(k) >= Len(p) /\ SubSeq(k, 1, Len(p)) = p

Idle == [at |-> "idle", key |-> None, query |-> None, version |-> 0, overtaken |-> FALSE]

Init ==
  /\ version = 0
  /\ cache = [k \in Key |-> None]
  /\ reading = [r \in Reader |-> Idle]
  /\ scans = {}
  /\ dels = {}
  /\ lists = {}
  /\ hots = {}

\* What is stored under a key: whose answer it is, how many changes it shows, and
\* whether it was stored after an invalidation that should have removed it.
Entry == [query : Query \union {None}, version : 0..MaxChanges, overtaken : BOOLEAN,
          ttl : BOOLEAN]
ASSUME NoneAssumption == None \notin Query \union Entry

(***************************************************************************)
(* findAll and findHot                                                     *)
(***************************************************************************)

\* A miss.  (A hit answers with the entry and changes nothing.)
Miss(r, k, q) ==
  /\ reading[r] = Idle
  /\ cache[k] = None
  /\ reading' = [reading EXCEPT ![r] =
       [at |-> "reading", key |-> k, query |-> q, version |-> 0, overtaken |-> FALSE]]
  /\ UNCHANGED <<version, cache, invalidation>>

findAll(r, q) == Miss(r, ListKey(q), q)
findHot(r) == Miss(r, HOT_CACHE_KEY, None)

\* The database answers.
ReadTable(r) ==
  /\ reading[r].at = "reading"
  /\ reading' = [reading EXCEPT ![r].at = "storing", ![r].version = version]
  /\ UNCHANGED <<version, cache, invalidation>>

\* The lists are stored without time to live (not part of Next).
SetListForever(r) ==
  /\ reading[r].at = "storing"
  /\ cache' = [cache EXCEPT ![reading[r].key] =
       [query |-> reading[r].query, version |-> reading[r].version,
        overtaken |-> reading[r].overtaken, ttl |-> reading[r].key = HOT_CACHE_KEY]]
  /\ reading' = [reading EXCEPT ![r] = Idle]
  /\ UNCHANGED <<version, invalidation>>

\* setJson, and the answer.
setJson(r) ==
  /\ reading[r].at = "storing"
  /\ cache' = [cache EXCEPT ![reading[r].key] =
       [query |-> reading[r].query, version |-> reading[r].version,
        overtaken |-> reading[r].overtaken, ttl |-> TRUE]]
  /\ reading' = [reading EXCEPT ![r] = Idle]
  /\ UNCHANGED <<version, invalidation>>

\* The database or Redis rejects, or the process dies.
ReadFails(r) ==
  /\ reading[r].at # "idle"
  /\ reading' = [reading EXCEPT ![r] = Idle]
  /\ UNCHANGED <<version, cache, invalidation>>

\* The entry reaches the end of its time to live.
Expire(k) ==
  /\ cache[k] # None
  /\ cache[k].ttl
  /\ cache' = [cache EXCEPT ![k] = None]
  /\ UNCHANGED <<version, reading, invalidation>>

(***************************************************************************)
(* Changes of table videos                                                 *)
(***************************************************************************)

\* The rows are updated and the caches are left alone (not part of Next).
ChangeQuietly ==
  /\ version < MaxChanges
  /\ version' = version + 1
  /\ UNCHANGED <<cache, reading, invalidation>>

\* create, update, remove and markReady: the row, then invalidateListCaches.
ChangeVideos ==
  /\ version < MaxChanges
  /\ version' = version + 1
  /\ scans' = scans \union {version + 1}
  /\ dels' = dels \union {version + 1}
  /\ UNCHANGED <<cache, reading, lists, hots>>

\* markFailed invalidates nothing.
MarkFailed ==
  /\ version < MaxChanges
  /\ version' = version + 1
  /\ lists' = lists \union {version + 1}
  /\ hots' = hots \union {version + 1}
  /\ UNCHANGED <<cache, reading, scans, dels>>

\* flushPendingViews adds to view_count and deletes the hot entry.
FlushViews ==
  /\ version < MaxChanges
  /\ version' = version + 1
  /\ dels' = dels \union {version + 1}
  /\ lists' = lists \union {version + 1}
  /\ UNCHANGED <<cache, reading, scans, hots>>

\* Readers that have read the table before an invalidation of these keys, and
\* fill the entry after it.
Overtaken(Ks) ==
  [r \in Reader |->
     IF reading[r].at = "storing" /\ reading[r].key \in Ks
     THEN [reading[r] EXCEPT !.overtaken = TRUE] ELSE reading[r]]

\* delByPattern.  The scan and the pipeline are one step: a list key has no
\* colon after the prefix, so that the scan finds nothing and the pipeline is
\* not sent.
ScanLists(n) ==
  /\ n \in scans
  /\ scans' = scans \ {n}
  /\ cache' = [k \in Key |-> IF Matches(k) THEN None ELSE cache[k]]
  /\ reading' = Overtaken(ListKeys)
  /\ UNCHANGED <<version, dels, lists, hots>>

\* del(HOT_CACHE_KEY)
DeleteHot(n) ==
  /\ n \in dels
  /\ cache' = [cache EXCEPT ![HOT_CACHE_KEY] = None]
  /\ dels' = dels \ {n}
  /\ reading' = Overtaken({HOT_CACHE_KEY})
  /\ UNCHANGED <<version, scans, lists, hots>>

\* The process dies, Redis rejects, or create or remove fails before it gets
\* to the invalidation.
InvalidationLost(n) ==
  /\ n \in scans \union dels
  /\ scans' = scans \ {n}
  /\ dels' = dels \ {n}
  /\ lists' = IF n \in scans THEN lists \union {n} ELSE lists
  /\ hots' = IF n \in dels THEN hots \union {n} ELSE hots
  /\ UNCHANGED <<version, cache, reading>>

-----------------------------------------------------------------------------
Fill(r) == ReadTable(r) \/ setJson(r) \/ ReadFails(r)

Next ==
  \/ \E r \in Reader, q \in Query : findAll(r, q)
  \/ \E r \in Reader : findHot(r) \/ ReadTable(r) \/ setJson(r) \/ ReadFails(r)
  \/ \E k \in Key : Expire(k)
  \/ ChangeVideos \/ MarkFailed \/ FlushViews
  \/ \E n \in Change :
       ScanLists(n) \/ DeleteHot(n) \/ InvalidationLost(n)

Spec == Init /\ [][Next]_vars

\* A request is answered some time, and Redis keeps its promise of expiry.
FairSpec ==
  /\ Spec
  /\ \A r \in Reader : WF_vars(Fill(r))
  /\ \A k \in Key : WF_vars(Expire(k))

(***************************************************************************)
(* Properties                                                              *)
(***************************************************************************)
\* Type invariant, with the bound that every entry expires.
TypeOK ==
  /\ version \in 0..MaxChanges
  /\ cache \in [Key -> Entry \union {None}]
  /\ \A k \in Key : cache[k] # None => cache[k].ttl
  /\ reading \in [Reader -> [at : {"idle", "reading", "storing"}, key : Key \union {None},
                             query : Query \union {None}, version : 0..MaxChanges,
                             overtaken : BOOLEAN]]
  /\ scans \subseteq 1..version
  /\ dels \subseteq 1..version
  /\ lists \subseteq 1..version
  /\ hots \subseteq 1..version

\* The changes that an entry does not show yet.
Missed(e) == (e.version + 1)..version

\* A stale hot entry has an excuse for every change it misses: the deletion is
\* under way, or there is none (markFailed, a lost invalidation), or the entry
\* was filled by a request that the deletion has overtaken.
HotStaleForAReason ==
  LET e == cache[HOT_CACHE_KEY] IN
  e # None => e.overtaken \/ Missed(e) \subseteq dels \union hots

\* docs/ARCHITECTURE.md: create, update and delete also clear the list caches.
\* The same excuses for the lists.
ListStaleForAReason ==
  \A k \in ListKeys :
    LET e == cache[k] IN
    e # None => e.overtaken \/ Missed(e) \subseteq scans \union lists

\* docs/ARCHITECTURE.md: each combination of filters has a cache of its own.  The
\* entry under the key of a query is the answer to this query and no other.
AnswersFitQueries ==
  /\ \A q \in Query :
       LET e == cache[ListKey(q)] IN e # None => e.query = q
  /\ cache[HOT_CACHE_KEY] # None => cache[HOT_CACHE_KEY].query = None

\* What the code keeps of it, although a client may search for text that reads
\* like the filters of another: lists and hot videos never mix, nor do two pages,
\* and a query gets the answer of another only if an ownerId has a colon.
MixedByOwnersOnly ==
  /\ \A q \in Query :
       LET e == cache[ListKey(q)] IN
       e # None =>
         /\ e.query \in Query /\ e.query.paging = q.paging
         /\ e.query # q => ~ColonFree(e.query.ownerId) \/ ~ColonFree(q.ownerId)
  /\ cache[HOT_CACHE_KEY] # None => cache[HOT_CACHE_KEY].query = None

\* The invalidations that are to clear the lists clear none: a list goes when its
\* time to live is over and not before.
ListsOnlyExpire ==
  [][\A q \in Query :
       cache[ListKey(q)] # None /\ cache'[ListKey(q)] = None => Expire(ListKey(q))]_vars

Stale(k) == cache[k] # None /\ cache[k].version < version

\* Once the table rests, the caches come to show its last state and stay so,
\* even if an invalidation was lost or overtaken: that is what the time to
\* live is for.
CachesCatchUp ==
  [](version = MaxChanges => <>[](\A k \in Key : ~Stale(k)))
=============================================================================
