-------------------------- MODULE VideoCacheProofs --------------------------
(***************************************************************************)
(* Proofs about VideoCache, for any number of queries, requests and        *)
(* changes.                                                                *)
(***************************************************************************)
EXTENDS VideoCache, SequenceTheorems, TLAPS

ReadingType == [at : {"idle", "reading", "storing"}, key : Key \union {None},
                query : Query \union {None}, version : 0..MaxChanges, overtaken : BOOLEAN]

\* What is stored in Redis, and what is about to be, of the hot list.
ReaderStaleForAReason ==
  \A r \in Reader :
    reading[r].at = "storing" /\ reading[r].key = HOT_CACHE_KEY =>
      reading[r].overtaken \/ Missed(reading[r]) \subseteq dels \union hots

\* A request that is on its way has the key of an entry.
ReadersHaveKeys == \A r \in Reader : reading[r].at # "idle" => reading[r].key \in Key

IInv == TypeOK /\ ReadersHaveKeys /\ HotStaleForAReason /\ ReaderStaleForAReason

LEMMA HotIsKey == HOT_CACHE_KEY \in Key /\ \A q \in Query : ListKey(q) \in Key
  BY DEF Key, ListKeys

LEMMA InitIInv == Init => IInv
<1> SUFFICES ASSUME Init PROVE IInv
  OBVIOUS
<1>1. Idle \in ReadingType /\ Idle.at = "idle"
  BY BoundAssumption DEF Idle, ReadingType
<1>2. TypeOK
  BY <1>1, BoundAssumption DEF Init, TypeOK, ReadingType
<1>3. HotStaleForAReason
  BY HotIsKey DEF Init, HotStaleForAReason
<1>4. ReadersHaveKeys /\ ReaderStaleForAReason
  BY <1>1 DEF Init, ReadersHaveKeys, ReaderStaleForAReason
<1> QED BY <1>2, <1>3, <1>4 DEF IInv

\* A step of one reader that leaves the cache alone.
LEMMA ReaderKeeps ==
  ASSUME IInv, NEW r \in Reader, NEW m \in ReadingType,
         reading' = [reading EXCEPT ![r] = m], UNCHANGED <<version, invalidation>>,
         m.at # "idle" => m.key \in Key,
         m.at = "storing" => m.version = version,
         cache' = cache
  PROVE  IInv'
<1> USE DEF invalidation
<1>1. /\ reading'[r] = m
      /\ \A s \in Reader \ {r} : reading'[s] = reading[s]
  BY DEF IInv, TypeOK
<1>2. TypeOK'
  BY DEF IInv, TypeOK, ReadingType
<1>3. HotStaleForAReason'
  BY DEF IInv, HotStaleForAReason, Missed
<1>4. m.at = "storing" => Missed(m) = {}
  BY BoundAssumption DEF Missed, IInv, TypeOK
<1>5. ReaderStaleForAReason'
  BY <1>1, <1>4 DEF IInv, ReaderStaleForAReason, Missed
<1>6. ReadersHaveKeys'
  BY <1>1 DEF IInv, ReadersHaveKeys
<1> QED BY <1>2, <1>3, <1>5, <1>6 DEF IInv

\* A change of the table: somebody will delete the hot entry, or nobody.
LEMMA ChangeKeeps ==
  ASSUME IInv, ChangeVideos \/ MarkFailed \/ FlushViews
  PROVE  IInv'
<1>1. /\ version \in 0..MaxChanges /\ version' = version + 1 /\ version' \in 0..MaxChanges
      /\ cache' = cache /\ reading' = reading
      /\ dels \subseteq dels' /\ hots \subseteq hots' /\ version' \in dels' \union hots'
  BY BoundAssumption DEF ChangeVideos, MarkFailed, FlushViews, IInv, TypeOK
<1>2. 1..version' = 1..version \union {version + 1}
  BY <1>1, BoundAssumption
<1>3. TypeOK'
  BY <1>1, <1>2 DEF ChangeVideos, MarkFailed, FlushViews, IInv, TypeOK
<1>4. \A v \in 0..MaxChanges : (v + 1)..version' \subseteq ((v + 1)..version) \union {version'}
  BY <1>1, BoundAssumption
<1>5. HotStaleForAReason'
  <2> DEFINE e == cache[HOT_CACHE_KEY]
  <2> SUFFICES ASSUME e # None, ~e.overtaken PROVE (e.version + 1)..version' \subseteq dels' \union hots'
    BY <1>1 DEF HotStaleForAReason, Missed
  <2>1. e.version \in 0..MaxChanges
    BY HotIsKey DEF IInv, TypeOK, Entry
  <2>2. (e.version + 1)..version \subseteq dels \union hots
    BY DEF IInv, HotStaleForAReason, Missed
  <2> HIDE DEF e
  <2> QED BY <1>1, <1>4, <2>1, <2>2
<1>6. ReaderStaleForAReason'
  <2> SUFFICES ASSUME NEW r \in Reader, reading[r].at = "storing", reading[r].key = HOT_CACHE_KEY,
                      ~reading[r].overtaken
               PROVE  (reading[r].version + 1)..version' \subseteq dels' \union hots'
    BY <1>1 DEF ReaderStaleForAReason, Missed
  <2>1. reading[r].version \in 0..MaxChanges
    BY DEF IInv, TypeOK
  <2>2. (reading[r].version + 1)..version \subseteq dels \union hots
    BY DEF IInv, ReaderStaleForAReason, Missed
  <2> QED BY <1>1, <1>4, <2>1, <2>2
<1>7. ReadersHaveKeys'
  BY <1>1 DEF IInv, ReadersHaveKeys
<1> QED BY <1>3, <1>5, <1>6, <1>7 DEF IInv

LEMMA OvertakenTyped ==
  ASSUME IInv, NEW Ks
  PROVE  /\ Overtaken(Ks) \in [Reader -> ReadingType]
         /\ \A r \in Reader :
              /\ Overtaken(Ks)[r].at = reading[r].at /\ Overtaken(Ks)[r].key = reading[r].key
              /\ Overtaken(Ks)[r].version = reading[r].version
              /\ reading[r].overtaken => Overtaken(Ks)[r].overtaken
              /\ reading[r].at = "storing" /\ reading[r].key \in Ks => Overtaken(Ks)[r].overtaken
<1>1. \A r \in Reader : reading[r] \in ReadingType
  BY DEF IInv, TypeOK, ReadingType
<1>2. \A r \in Reader :
        LET m == [reading[r] EXCEPT !.overtaken = TRUE] IN
        /\ m \in ReadingType /\ m.at = reading[r].at /\ m.key = reading[r].key
        /\ m.version = reading[r].version /\ m.overtaken = TRUE
  BY <1>1 DEF ReadingType
<1>3. Overtaken(Ks) \in [Reader -> ReadingType]
  BY <1>1, <1>2 DEF Overtaken
<1>4. ASSUME NEW r \in Reader
      PROVE  /\ Overtaken(Ks)[r].at = reading[r].at /\ Overtaken(Ks)[r].key = reading[r].key
             /\ Overtaken(Ks)[r].version = reading[r].version
             /\ reading[r].overtaken => Overtaken(Ks)[r].overtaken
             /\ reading[r].at = "storing" /\ reading[r].key \in Ks => Overtaken(Ks)[r].overtaken
  <2>1. CASE reading[r].at = "storing" /\ reading[r].key \in Ks
    BY <1>2, <2>1 DEF Overtaken
  <2>2. CASE ~(reading[r].at = "storing" /\ reading[r].key \in Ks)
    <3>1. Overtaken(Ks)[r] = reading[r]
      BY <2>2 DEF Overtaken
    <3> QED BY <2>2, <3>1
  <2> QED BY <2>1, <2>2
<1> QED BY <1>3, <1>4

\* Deletions of entries that mark the readers that they overtake.
LEMMA DeletionKeeps ==
  ASSUME IInv, NEW Ks, reading' = Overtaken(Ks), version' = version,
         cache' \in [Key -> Entry \union {None}],
         \A k \in Key : cache'[k] # None => cache'[k] = cache[k],
         scans' \subseteq scans, dels' \subseteq dels, lists' = lists, hots' = hots,
         dels' = dels \/ (cache'[HOT_CACHE_KEY] = None /\ HOT_CACHE_KEY \in Ks)
  PROVE  IInv'
<1>1. TypeOK'
  BY OvertakenTyped DEF IInv, TypeOK, ReadingType
<1>2. HotStaleForAReason'
  BY HotIsKey DEF IInv, HotStaleForAReason, Missed
<1>3. ReaderStaleForAReason'
  <2> SUFFICES ASSUME NEW r \in Reader, Overtaken(Ks)[r].at = "storing",
                      Overtaken(Ks)[r].key = HOT_CACHE_KEY, ~Overtaken(Ks)[r].overtaken
               PROVE  (Overtaken(Ks)[r].version + 1)..version \subseteq dels' \union hots
    BY DEF ReaderStaleForAReason, Missed
  <2>1. /\ reading[r].at = "storing" /\ reading[r].key = HOT_CACHE_KEY /\ HOT_CACHE_KEY \notin Ks
        /\ Overtaken(Ks)[r].version = reading[r].version
    BY OvertakenTyped
  <2>2. ~reading[r].overtaken
    BY OvertakenTyped
  <2>3. (reading[r].version + 1)..version \subseteq dels \union hots
    BY <2>1, <2>2 DEF IInv, ReaderStaleForAReason, Missed
  <2> QED BY <2>1, <2>3
<1>4. ReadersHaveKeys'
  BY OvertakenTyped DEF IInv, ReadersHaveKeys
<1> QED BY <1>1, <1>2, <1>3, <1>4 DEF IInv

\* The fill: the entry is as stale as its reader.
LEMMA SetKeeps ==
  ASSUME IInv, NEW r \in Reader, setJson(r)
  PROVE  IInv'
<1> DEFINE e == [query |-> reading[r].query, version |-> reading[r].version,
                 overtaken |-> reading[r].overtaken, ttl |-> TRUE]
<1> USE DEF invalidation
<1>1. /\ reading[r].at = "storing" /\ reading[r].key \in Key
      /\ cache' = [cache EXCEPT ![reading[r].key] = e]
      /\ UNCHANGED <<version, scans, dels, lists, hots>>
  BY DEF setJson, IInv, ReadersHaveKeys
<1>2. e \in Entry /\ e.ttl = TRUE /\ e.version = reading[r].version /\ e.overtaken = reading[r].overtaken
  BY DEF Entry, IInv, TypeOK
<1> HIDE DEF e
<1>3. Idle \in ReadingType /\ Idle.at = "idle"
  BY BoundAssumption DEF Idle, ReadingType
<1>4. /\ reading' \in [Reader -> ReadingType]
      /\ \A s \in Reader : reading'[s] = reading[s] \/ reading'[s].at = "idle"
  BY <1>3 DEF setJson, IInv, TypeOK, ReadingType
<1>5. TypeOK'
  <2>1. cache' \in [Key -> Entry \union {None}] /\ \A k \in Key : cache'[k] # None => cache'[k].ttl
    <3>1. cache' \in [Key -> Entry \union {None}]
      BY <1>1, <1>2 DEF IInv, TypeOK
    <3>2. \A k \in Key : cache'[k] = e \/ cache'[k] = cache[k]
      BY <1>1 DEF IInv, TypeOK
    <3>3. \A k \in Key : cache[k] # None => cache[k].ttl
      BY DEF IInv, TypeOK
    <3> QED BY <1>2, <3>1, <3>2, <3>3
  <2> QED BY <1>1, <1>4, <2>1 DEF IInv, TypeOK, ReadingType
<1>6. HotStaleForAReason'
  <2>1. CASE reading[r].key = HOT_CACHE_KEY
    <3>1. reading[r].overtaken \/ (reading[r].version + 1)..version \subseteq dels \union hots
      BY <1>1, <2>1 DEF IInv, ReaderStaleForAReason, Missed
    <3>2. cache'[HOT_CACHE_KEY] = e
      BY <1>1, <2>1, HotIsKey DEF IInv, TypeOK
    <3>3. e.overtaken \/ (e.version + 1)..version \subseteq dels \union hots
      BY <1>2, <3>1
    <3> QED BY <1>1, <3>2, <3>3 DEF HotStaleForAReason, Missed
  <2>2. CASE reading[r].key # HOT_CACHE_KEY
    <3>1. cache'[HOT_CACHE_KEY] = cache[HOT_CACHE_KEY]
      BY <1>1, <2>2, HotIsKey DEF IInv, TypeOK
    <3> QED BY <1>1, <3>1 DEF IInv, HotStaleForAReason, Missed
  <2> QED BY <2>1, <2>2
<1>7. ReaderStaleForAReason'
  BY <1>1, <1>4 DEF IInv, ReaderStaleForAReason, Missed
<1>8. ReadersHaveKeys'
  BY <1>4 DEF IInv, ReadersHaveKeys
<1> QED BY <1>5, <1>6, <1>7, <1>8 DEF IInv

LEMMA NextIInv == IInv /\ [Next]_vars => IInv'
<1> SUFFICES ASSUME IInv, [Next]_vars PROVE IInv'
  OBVIOUS
<1> USE DEF invalidation
<1>0. /\ \A r \in Reader : reading[r] \in ReadingType
      /\ Idle \in ReadingType /\ Idle.at = "idle"
  BY BoundAssumption DEF IInv, TypeOK, ReadingType, Idle
<1>1. CASE UNCHANGED vars
  BY <1>1 DEF vars, IInv, TypeOK, HotStaleForAReason, ReaderStaleForAReason, ReadersHaveKeys, Missed
<1>2. ASSUME NEW r \in Reader, NEW k \in Key, NEW q \in Query \union {None}, Miss(r, k, q) PROVE IInv'
  <2> DEFINE m == [at |-> "reading", key |-> k, query |-> q, version |-> 0, overtaken |-> FALSE]
  <2>1. m \in ReadingType /\ m.at = "reading" /\ m.key = k
    BY BoundAssumption DEF ReadingType
  <2>2. reading' = [reading EXCEPT ![r] = m] /\ UNCHANGED <<version, cache, invalidation>>
    BY <1>2 DEF Miss
  <2> HIDE DEF m
  <2> QED BY <2>1, <2>2, ReaderKeeps
<1>3. ASSUME NEW r \in Reader, ReadTable(r) PROVE IInv'
  <2> DEFINE m == [reading[r] EXCEPT !.at = "storing", !.version = version]
  <2>1. reading' = [reading EXCEPT ![r] = m] /\ UNCHANGED <<version, cache, invalidation>>
    BY <1>3 DEF ReadTable
  <2>2. m \in ReadingType /\ m.key = reading[r].key /\ m.version = version
    BY <1>0 DEF ReadingType, IInv, TypeOK
  <2>3. reading[r].key \in Key
    BY <1>3 DEF ReadTable, IInv, ReadersHaveKeys
  <2> HIDE DEF m
  <2> QED BY <2>1, <2>2, <2>3, ReaderKeeps
<1>4. ASSUME NEW r \in Reader, setJson(r) PROVE IInv'
  BY <1>4, SetKeeps
<1>5. ASSUME NEW r \in Reader, ReadFails(r) PROVE IInv'
  BY <1>0, <1>5, ReaderKeeps DEF ReadFails
<1>6. ASSUME NEW k \in Key, Expire(k) PROVE IInv'
  <2>1. /\ cache' \in [Key -> Entry \union {None}]
        /\ \A j \in Key : cache'[j] # None => cache'[j] = cache[j]
    BY <1>6 DEF Expire, IInv, TypeOK
  <2>2. TypeOK'
    BY <1>6, <2>1 DEF Expire, IInv, TypeOK
  <2>3. HotStaleForAReason'
    BY <1>6, <2>1, HotIsKey DEF Expire, IInv, HotStaleForAReason, Missed
  <2>4. ReaderStaleForAReason' /\ ReadersHaveKeys'
    BY <1>6 DEF Expire, IInv, ReaderStaleForAReason, ReadersHaveKeys, Missed
  <2> QED BY <2>2, <2>3, <2>4 DEF IInv
<1>7. CASE ChangeVideos \/ MarkFailed \/ FlushViews
  BY <1>7, ChangeKeeps
<1>8. ASSUME NEW n \in Change, ScanLists(n) PROVE IInv'
  <2>1. /\ cache' \in [Key -> Entry \union {None}]
        /\ \A k \in Key : cache'[k] # None => cache'[k] = cache[k]
    BY <1>8 DEF ScanLists, IInv, TypeOK
  <2>2. reading' = Overtaken(ListKeys) /\ scans' \subseteq scans /\ UNCHANGED <<version, dels, lists, hots>>
    BY <1>8 DEF ScanLists
  <2> QED BY <2>1, <2>2, DeletionKeeps
<1>9. ASSUME NEW n \in Change, DeleteHot(n) PROVE IInv'
  <2>1. /\ cache' \in [Key -> Entry \union {None}] /\ cache'[HOT_CACHE_KEY] = None
        /\ \A k \in Key : cache'[k] # None => cache'[k] = cache[k]
    BY <1>9, HotIsKey DEF DeleteHot, IInv, TypeOK
  <2>2. /\ reading' = Overtaken({HOT_CACHE_KEY}) /\ dels' \subseteq dels
        /\ UNCHANGED <<version, scans, lists, hots>>
    BY <1>9 DEF DeleteHot
  <2> QED BY <2>1, <2>2, DeletionKeeps
<1>10. ASSUME NEW n \in Change, InvalidationLost(n) PROVE IInv'
  <2>1. /\ UNCHANGED <<version, cache, reading>> /\ dels \union hots \subseteq dels' \union hots'
        /\ scans' \subseteq scans /\ dels' \subseteq dels
        /\ lists' \subseteq lists \union scans /\ hots' \subseteq hots \union dels
    BY <1>10 DEF InvalidationLost
  <2>2. TypeOK'
    BY <2>1 DEF IInv, TypeOK
  <2>3. HotStaleForAReason'
    BY <2>1 DEF IInv, HotStaleForAReason, Missed
  <2>4. ReaderStaleForAReason'
    BY <2>1 DEF IInv, ReaderStaleForAReason, Missed
  <2>5. ReadersHaveKeys'
    BY <2>1 DEF IInv, ReadersHaveKeys
  <2> QED BY <2>2, <2>3, <2>4, <2>5 DEF IInv
<1>11. ASSUME NEW r \in Reader, NEW q \in Query, findAll(r, q) PROVE IInv'
  BY <1>2, <1>11, HotIsKey DEF findAll
<1>12. ASSUME NEW r \in Reader, findHot(r) PROVE IInv'
  BY <1>2, <1>12, HotIsKey DEF findHot
<1> QED BY <1>1, <1>3, <1>4, <1>5, <1>6, <1>7, <1>8, <1>9, <1>10, <1>11, <1>12 DEF Next

LEMMA AlwaysIInv == Spec => []IInv
  BY InitIInv, NextIInv, PTL DEF Spec

\* The state is well typed, and every entry in Redis expires.
THEOREM TypeCorrect == Spec => []TypeOK
<1>1. IInv => TypeOK
  BY DEF IInv
<1> QED BY <1>1, AlwaysIInv, PTL

\* invalidateListCaches and flushPendingViews keep the hot list fresh, but for
\* deletions that are under way, lost or overtaken by a slow findHot.
THEOREM HotInvalidated == Spec => []HotStaleForAReason
<1>1. IInv => HotStaleForAReason
  BY DEF IInv
<1> QED BY <1>1, AlwaysIInv, PTL
-----------------------------------------------------------------------------
(***************************************************************************)
(* The keys of the lists.                                                  *)
(***************************************************************************)

\* Where the parts before the first colon, or after the last one, have none
\* themselves, they can be told from what is joined to them.
LEMMA FirstColon ==
  ASSUME NEW a \in Tokens, NEW b \in Tokens, NEW c \in Tokens, NEW d \in Tokens,
         ColonFree(a), ColonFree(b), a \o <<":">> \o c = b \o <<":">> \o d
  PROVE  a = b /\ c = d
<1> DEFINE ac == a \o <<":">>
           bd == b \o <<":">>
<1>1. \A s \in Tokens : Len(s) \in Nat
  BY LenProperties DEF Tokens
<1>2. /\ ac \in Tokens /\ Len(ac) = Len(a) + 1 /\ ac[Len(a) + 1] = ":"
      /\ \A i \in 1..Len(a) : ac[i] = a[i]
      /\ bd \in Tokens /\ Len(bd) = Len(b) + 1 /\ bd[Len(b) + 1] = ":"
      /\ \A i \in 1..Len(b) : bd[i] = b[i]
  <2>1. <<":">> \in Tokens /\ Len(<<":">>) = 1 /\ <<":">>[1] = ":"
    BY TokenAssumption DEF Tokens
  <2> QED BY <1>1, <2>1, ConcatProperties DEF Tokens
<1> HIDE DEF ac, bd
<1>3. /\ \A i \in 1..Len(ac) : (ac \o c)[i] = ac[i]
      /\ \A i \in 1..Len(bd) : (bd \o d)[i] = bd[i]
  BY <1>1, <1>2, ConcatProperties DEF Tokens
<1>4. ac \o c = bd \o d
  BY DEF ac, bd
<1>5. Len(a) = Len(b)
  <2>1. CASE Len(a) < Len(b)
    <3>1. b[Len(a) + 1] = ":"
      BY <1>1, <1>2, <1>3, <1>4, <2>1
    <3> QED BY <1>1, <2>1, <3>1 DEF ColonFree
  <2>2. CASE Len(b) < Len(a)
    <3>1. a[Len(b) + 1] = ":"
      BY <1>1, <1>2, <1>3, <1>4, <2>2
    <3> QED BY <1>1, <2>2, <3>1 DEF ColonFree
  <2> QED BY <1>1, <2>1, <2>2
<1>6. \A i \in 1..Len(a) : a[i] = b[i]
  BY <1>1, <1>2, <1>3, <1>4, <1>5
<1>7. a = b
  BY <1>5, <1>6, SeqEqual DEF Tokens
<1>8. ac = bd
  BY <1>7 DEF ac, bd
<1>9. c = d
  BY <1>2, <1>4, <1>8, ConcatSimplifications DEF Tokens
<1> QED BY <1>7, <1>9

LEMMA LastColon ==
  ASSUME NEW a \in Tokens, NEW b \in Tokens, NEW c \in Tokens, NEW d \in Tokens,
         ColonFree(a), ColonFree(b), c \o <<":">> \o a = d \o <<":">> \o b
  PROVE  a = b /\ c = d
<1> DEFINE ca == c \o <<":">>
           db == d \o <<":">>
           n == Len(c) + 1 + Len(a)
<1>1. \A s \in Tokens : Len(s) \in Nat
  BY LenProperties DEF Tokens
<1>2. /\ ca \in Tokens /\ Len(ca) = Len(c) + 1 /\ ca[Len(c) + 1] = ":"
      /\ db \in Tokens /\ Len(db) = Len(d) + 1 /\ db[Len(d) + 1] = ":"
  <2>1. <<":">> \in Tokens /\ Len(<<":">>) = 1 /\ <<":">>[1] = ":"
    BY TokenAssumption DEF Tokens
  <2> QED BY <1>1, <2>1, ConcatProperties DEF Tokens
<1> HIDE DEF ca, db
<1>3. ca \o a = db \o b
  BY DEF ca, db
<1>4. n = Len(d) + 1 + Len(b) /\ n \in Nat
  <2>1. Len(ca \o a) = n /\ Len(db \o b) = Len(d) + 1 + Len(b)
    BY <1>1, <1>2, ConcatProperties DEF Tokens
  <2> QED BY <1>1, <1>3, <2>1
<1>5. /\ \A i \in 1..n : (ca \o a)[i] = IF i <= Len(c) + 1 THEN ca[i] ELSE a[i - (Len(c) + 1)]
      /\ \A i \in 1..n : (db \o b)[i] = IF i <= Len(d) + 1 THEN db[i] ELSE b[i - (Len(d) + 1)]
  <2>1. n = Len(ca) + Len(a) /\ n = Len(db) + Len(b)
    BY <1>2, <1>4
  <2> HIDE DEF n
  <2>2. \A i \in 1..n : (ca \o a)[i] = IF i <= Len(ca) THEN ca[i] ELSE a[i - Len(ca)]
    BY <1>2, <2>1, ConcatProperties DEF Tokens
  <2>3. \A i \in 1..n : (db \o b)[i] = IF i <= Len(db) THEN db[i] ELSE b[i - Len(db)]
    BY <1>2, <2>1, ConcatProperties DEF Tokens
  <2> QED BY <1>2, <2>2, <2>3
<1> HIDE DEF n
<1>6. Len(a) = Len(b) /\ Len(c) = Len(d)
  <2>0. n = Len(c) + 1 + Len(a)
    BY DEF n
  <2>1. CASE Len(c) < Len(d)
    <3>1. /\ Len(d) + 1 \in 1..n /\ Len(d) + 1 > Len(c) + 1
          /\ Len(d) + 1 - (Len(c) + 1) \in 1..Len(a)
      BY <1>1, <1>4, <2>0, <2>1
    <3>2. a[Len(d) + 1 - (Len(c) + 1)] = ":"
      BY <1>1, <1>2, <1>3, <1>5, <3>1
    <3> QED BY <3>1, <3>2 DEF ColonFree
  <2>2. CASE Len(d) < Len(c)
    <3>1. /\ Len(c) + 1 \in 1..n /\ Len(c) + 1 > Len(d) + 1
          /\ Len(c) + 1 - (Len(d) + 1) \in 1..Len(b)
      BY <1>1, <1>4, <2>0, <2>2
    <3>2. b[Len(c) + 1 - (Len(d) + 1)] = ":"
      BY <1>1, <1>2, <1>3, <1>5, <3>1
    <3> QED BY <3>1, <3>2 DEF ColonFree
  <2> QED BY <1>1, <1>4, <2>0, <2>1, <2>2
<1>7. \A i \in 1..Len(a) : a[i] = b[i]
  <2> SUFFICES ASSUME NEW i \in 1..Len(a) PROVE a[i] = b[i]
    OBVIOUS
  <2>1. i + (Len(c) + 1) \in 1..n /\ ~(i + (Len(c) + 1) <= Len(c) + 1)
        /\ i + (Len(c) + 1) - (Len(c) + 1) = i
    BY <1>1 DEF n
  <2>2. PICK j \in 1..n : ~(j <= Len(c) + 1) /\ j - (Len(c) + 1) = i
    BY <2>1
  <2>3. (ca \o a)[j] = a[j - (Len(c) + 1)] /\ (db \o b)[j] = b[j - (Len(d) + 1)]
    BY <1>5, <1>6, <2>2
  <2> QED BY <1>3, <1>6, <2>2, <2>3
<1>8. a = b
  BY <1>6, <1>7, SeqEqual DEF Tokens
<1>9. ca = db
  BY <1>2, <1>3, <1>8, ConcatSimplifications DEF Tokens
<1>10. c = d
  <2>1. <<":">> \in Tokens /\ c \o <<":">> = d \o <<":">>
    BY <1>9, TokenAssumption DEF ca, db, Tokens
  <2> QED BY <2>1, ConcatSimplifications DEF Tokens
<1> QED BY <1>8, <1>10

\* Different queries have different keys, whatever text they search for, if the
\* ids of the owners have no colon.
LEMMA KeysTellQueries ==
  ASSUME NEW p \in Query, NEW q \in Query, ListKey(p) = ListKey(q)
  PROVE  /\ p.paging = q.paging
         /\ ColonFree(p.ownerId) /\ ColonFree(q.ownerId) => p = q
<1> DEFINE key3(x) == x.paging \o <<":">> \o x.search
           key2(x) == key3(x) \o <<":">> \o x.status
<1> HIDE DEF key2, key3
<1>first. \A a, b, c, d \in Tokens :
        ColonFree(a) /\ ColonFree(b) /\ a \o <<":">> \o c = b \o <<":">> \o d => a = b /\ c = d
  BY FirstColon
<1>last. \A a, b, c, d \in Tokens :
        ColonFree(a) /\ ColonFree(b) /\ c \o <<":">> \o a = d \o <<":">> \o b => a = b /\ c = d
  BY LastColon
<1>1. /\ p \in [paging : Tokens, search : Tokens, status : Tokens, ownerId : Tokens]
      /\ q \in [paging : Tokens, search : Tokens, status : Tokens, ownerId : Tokens]
  BY QueryAssumption
<1>2. ColonFree(p.status) /\ ColonFree(q.status)
  BY ValidAssumption
<1>2a. ColonFree(p.paging) /\ ColonFree(q.paging)
  BY ValidAssumption
<1>3. <<":">> \in Tokens /\ LIST_CACHE_PREFIX \in Tokens
  BY TokenAssumption DEF Tokens, LIST_CACHE_PREFIX
<1>4. ASSUME NEW s \in Tokens, NEW t \in Tokens PROVE s \o t \in Tokens
  BY ConcatProperties DEF Tokens
<1>5. ASSUME NEW x \in Query
      PROVE  /\ key3(x) \in Tokens /\ key2(x) \in Tokens /\ cacheKeyFor(x) \in Tokens
             /\ cacheKeyFor(x) = key2(x) \o <<":">> \o x.ownerId
  <2>1. x \in [paging : Tokens, search : Tokens, status : Tokens, ownerId : Tokens]
    BY QueryAssumption
  <2>2. key3(x) \in Tokens
    BY <1>3, <1>4, <2>1 DEF key3
  <2>3. key2(x) \in Tokens
    BY <1>3, <1>4, <2>1, <2>2 DEF key2
  <2>4. cacheKeyFor(x) = key2(x) \o <<":">> \o x.ownerId
    BY DEF cacheKeyFor, key2, key3
  <2>5. cacheKeyFor(x) \in Tokens
    BY <1>3, <1>4, <2>1, <2>3, <2>4
  <2> QED BY <2>2, <2>3, <2>4, <2>5
<1>6. cacheKeyFor(p) = cacheKeyFor(q)
  BY <1>3, <1>5, ConcatSimplifications DEF ListKey, Tokens
<1>7. p.paging = q.paging
  <2> DEFINE rest(x) == x.search \o (<<":">> \o (x.status \o (<<":">> \o x.ownerId)))
  <2>1. ASSUME NEW x \in Query
        PROVE  rest(x) \in Tokens /\ cacheKeyFor(x) = x.paging \o <<":">> \o rest(x)
    <3>1. x \in [paging : Tokens, search : Tokens, status : Tokens, ownerId : Tokens]
      BY QueryAssumption
    <3>2. \A s, t, u \in Tokens : s \o (t \o u) = (s \o t) \o u
      BY ConcatAssociative DEF Tokens
    <3> DEFINE r1 == <<":">> \o x.ownerId
               r2 == x.status \o r1
               r3 == <<":">> \o r2
               k0 == x.paging \o <<":">>
               k1 == k0 \o x.search
               k2 == k1 \o <<":">>
               k3 == k2 \o x.status
    <3>3. r1 \in Tokens /\ k0 \in Tokens
      BY <1>3, <1>4, <3>1
    <3>4. r2 \in Tokens /\ k1 \in Tokens
      BY <1>4, <3>1, <3>3
    <3>5. r3 \in Tokens /\ k2 \in Tokens
      BY <1>3, <1>4, <3>1, <3>4
    <3>6. rest(x) \in Tokens
      BY <1>4, <3>1, <3>5
    <3>7. k3 \in Tokens
      BY <1>4, <3>1, <3>5
    <3>8. x.search \in Tokens /\ x.status \in Tokens /\ x.ownerId \in Tokens
      BY <3>1
    <3> HIDE DEF r1, r2, r3, k0, k1, k2, k3
    <3>9. (k0 \o x.search) \o r3 = k0 \o (x.search \o r3)
      BY <3>2, <3>3, <3>5, <3>8
    <3>10. (k1 \o <<":">>) \o r2 = k1 \o (<<":">> \o r2)
      BY <1>3, <3>2, <3>4
    <3>11. (k2 \o x.status) \o r1 = k2 \o (x.status \o r1)
      BY <3>2, <3>3, <3>5, <3>8
    <3>12. (k3 \o <<":">>) \o x.ownerId = k3 \o (<<":">> \o x.ownerId)
      BY <1>3, <3>2, <3>7, <3>8
    <3> USE DEF r1, r2, r3, k0, k1, k2, k3
    <3>13. cacheKeyFor(x) = (k3 \o <<":">>) \o x.ownerId
      BY DEF cacheKeyFor
    <3> QED BY <3>6, <3>9, <3>10, <3>11, <3>12, <3>13
  <2> HIDE DEF rest
  <2>2. p.paging \o <<":">> \o rest(p) = q.paging \o <<":">> \o rest(q)
    BY <1>6, <2>1
  <2>3. /\ p.paging \in Tokens /\ q.paging \in Tokens
        /\ rest(p) \in Tokens /\ rest(q) \in Tokens
    BY <1>1, <2>1
  <2> QED BY ONLY <1>first, <1>2a, <2>2, <2>3
<1>8. ASSUME ColonFree(p.ownerId), ColonFree(q.ownerId)
      PROVE  p = q
  <2>1. p.ownerId = q.ownerId /\ key2(p) = key2(q)
    <3>1. key2(p) \o <<":">> \o p.ownerId = key2(q) \o <<":">> \o q.ownerId
      BY <1>5, <1>6
    <3>2. /\ p.ownerId \in Tokens /\ q.ownerId \in Tokens
          /\ key2(p) \in Tokens /\ key2(q) \in Tokens
      BY <1>1, <1>5
    <3> QED BY ONLY <1>last, <1>8, <3>1, <3>2
  <2>2. p.status = q.status /\ key3(p) = key3(q)
    <3>1. key3(p) \o <<":">> \o p.status = key3(q) \o <<":">> \o q.status
      BY <2>1 DEF key2
    <3>2. /\ p.status \in Tokens /\ q.status \in Tokens
          /\ key3(p) \in Tokens /\ key3(q) \in Tokens
      BY <1>1, <1>5
    <3> QED BY ONLY <1>last, <1>2, <3>1, <3>2
  <2>3. p.search = q.search
    <3>1. p.paging \o <<":">> \o p.search = q.paging \o <<":">> \o q.search
      BY <2>2 DEF key3
    <3>2. /\ p.paging \in Tokens /\ q.paging \in Tokens
          /\ p.search \in Tokens /\ q.search \in Tokens
      BY <1>1
    <3> QED BY ONLY <1>first, <1>2a, <3>1, <3>2
  <2> QED BY <1>1, <1>7, <2>1, <2>2, <2>3
<1> QED BY <1>7, <1>8

\* What comes after the first token of a sequence does not change it.
LEMMA FirstStays ==
  ASSUME NEW s \in Tokens, s # <<>>, NEW t \in Tokens
  PROVE  s \o t \in Tokens /\ s \o t # <<>> /\ (s \o t)[1] = s[1]
<1>1. Len(s) \in Nat \ {0} /\ Len(t) \in Nat
  BY EmptySeq, LenProperties DEF Tokens
<1>2. s \o t \in Tokens /\ Len(s \o t) # 0 /\ (s \o t)[1] = s[1]
  BY <1>1, ConcatProperties DEF Tokens
<1> QED BY <1>2, EmptySeq DEF Tokens

\* The fourth token of a list's key is where "videos:hot" and the pattern
\* "videos:list:*" would have ended or had a colon.
LEMMA FourthToken ==
  ASSUME NEW q \in Query
  PROVE  Len(ListKey(q)) >= 4 /\ ListKey(q)[4] # ":" /\ ListKey(q) \in Tokens
<1> DEFINE k1 == q.paging \o <<":">>
           k2 == k1 \o q.search
           k3 == k2 \o <<":">>
           k4 == k3 \o q.status
           k5 == k4 \o <<":">>
           key == k5 \o q.ownerId
           prefix == LIST_CACHE_PREFIX
<1>1. q.paging \in Tokens /\ q.search \in Tokens /\ q.status \in Tokens /\ q.ownerId \in Tokens
  BY QueryAssumption
<1>2. <<":">> \in Tokens /\ prefix \in Tokens /\ Len(prefix) = 3
  BY TokenAssumption DEF Tokens, LIST_CACHE_PREFIX
<1>3. q.paging # <<>> /\ q.paging[1] # ":"
  <2>1. q.paging # <<>> /\ ColonFree(q.paging)
    BY ValidAssumption
  <2>2. Len(q.paging) \in Nat \ {0}
    BY <1>1, <2>1, EmptySeq DEF Tokens
  <2> QED BY <2>1, <2>2 DEF ColonFree
<1>4. key = cacheKeyFor(q) /\ ListKey(q) = prefix \o cacheKeyFor(q)
  BY DEF cacheKeyFor, ListKey
<1> HIDE DEF k1, k2, k3, k4, k5, key, prefix
<1>5. k1 \in Tokens /\ k1 # <<>> /\ k1[1] = q.paging[1]
  BY <1>1, <1>2, <1>3, FirstStays DEF k1
<1>6. k2 \in Tokens /\ k2 # <<>> /\ k2[1] = q.paging[1]
  BY <1>1, <1>5, FirstStays DEF k2
<1>7. k3 \in Tokens /\ k3 # <<>> /\ k3[1] = q.paging[1]
  BY <1>2, <1>6, FirstStays DEF k3
<1>8. k4 \in Tokens /\ k4 # <<>> /\ k4[1] = q.paging[1]
  BY <1>1, <1>7, FirstStays DEF k4
<1>9. k5 \in Tokens /\ k5 # <<>> /\ k5[1] = q.paging[1]
  BY <1>2, <1>8, FirstStays DEF k5
<1>10. key \in Tokens /\ key # <<>> /\ key[1] = q.paging[1]
  BY <1>1, <1>9, FirstStays DEF key
<1>11. Len(key) \in Nat \ {0}
  BY <1>10, EmptySeq DEF Tokens
<1>12. /\ prefix \o key \in Tokens /\ Len(prefix \o key) = 3 + Len(key)
       /\ (prefix \o key)[4] = key[1]
  <2>1. /\ prefix \o key \in Tokens /\ Len(prefix \o key) = Len(prefix) + Len(key)
        /\ \A i \in 1..(Len(prefix) + Len(key)) :
             (prefix \o key)[i] = IF i <= Len(prefix) THEN prefix[i] ELSE key[i - Len(prefix)]
    BY <1>2, <1>10, ConcatProperties DEF Tokens
  <2>2. 4 \in 1..(Len(prefix) + Len(key)) /\ ~(4 <= Len(prefix)) /\ 4 - Len(prefix) = 1
    BY <1>2, <1>11
  <2>3. (prefix \o key)[4] = key[4 - Len(prefix)]
    BY <2>1, <2>2
  <2> QED BY <1>2, <2>1, <2>2, <2>3
<1>13. ListKey(q) = prefix \o key
  BY <1>4
<1> QED BY <1>3, <1>10, <1>11, <1>12, <1>13

LEMMA ListIsNotHot ==
  ASSUME NEW q \in Query
  PROVE  ListKey(q) # HOT_CACHE_KEY
<1>1. Len(HOT_CACHE_KEY) = 3
  BY DEF HOT_CACHE_KEY
<1>2. Len(ListKey(q)) \in Nat /\ Len(ListKey(q)) >= 4
  BY FourthToken, LenProperties DEF Tokens
<1>3. ASSUME Len(ListKey(q)) = 3 PROVE FALSE
  BY <1>2, <1>3
<1> QED BY <1>1, <1>3

\* The pattern of delByPattern matches no list key.
LEMMA PatternMatchesNoList ==
  ASSUME NEW q \in Query
  PROVE  ~Matches(ListKey(q))
<1> DEFINE p == LIST_CACHE_PREFIX \o <<":">>
           key == ListKey(q)
<1>1. Len(p) = 4 /\ p[4] = ":"
  BY DEF LIST_CACHE_PREFIX
<1>2. key \in Tokens /\ Len(key) >= 4 /\ Len(key) \in Nat /\ key[4] # ":"
  BY FourthToken, LenProperties DEF Tokens
<1> HIDE DEF p, key
<1>3. SubSeq(key, 1, 4)[4] = key[4]
  <2>1. \A i \in 1..4 : key[i] \in Token
    BY <1>2, ElementOfSeq DEF Tokens
  <2>2. \A i \in 1..(4 - 1 + 1) : SubSeq(key, 1, 4)[i] = key[1 + i - 1]
    BY <2>1, SubSeqProperties
  <2> QED BY <2>2
<1> QED BY <1>1, <1>2, <1>3 DEF Matches, p, key

-----------------------------------------------------------------------------
\* A request that is on its way has the key of its own query.
ReadersFit ==
  \A r \in Reader : reading[r].at # "idle" =>
    \/ reading[r].key = HOT_CACHE_KEY /\ reading[r].query = None
    \/ reading[r].query \in Query /\ reading[r].key = ListKey(reading[r].query)

\* An entry is the answer to the query, or one of the queries, of its key.
EntriesFit ==
  \A k \in Key : cache[k] # None =>
    \/ k = HOT_CACHE_KEY /\ cache[k].query = None
    \/ cache[k].query \in Query /\ k = ListKey(cache[k].query)

FitInv == ReadersFit /\ EntriesFit

LEMMA InitFitInv == Init => FitInv
<1>1. Idle.at = "idle"
  BY DEF Idle
<1> QED BY <1>1, HotIsKey DEF Init, FitInv, ReadersFit, EntriesFit

\* Whoever leaves the entries that stay as they are, and the keys of the readers,
\* keeps it.
LEMMA FitKeeps ==
  ASSUME FitInv,
         \A k \in Key : cache'[k] # None => cache'[k] = cache[k],
         \A r \in Reader :
           \/ reading'[r].at = "idle"
           \/ /\ reading[r].at # "idle"
              /\ reading'[r].key = reading[r].key /\ reading'[r].query = reading[r].query
  PROVE  FitInv'
<1>1. EntriesFit'
  BY HotIsKey DEF FitInv, EntriesFit
<1>2. ReadersFit'
  BY DEF FitInv, ReadersFit
<1> QED BY <1>1, <1>2 DEF FitInv

LEMMA NextFitInv ==
  ASSUME TypeOK, FitInv, [Next]_vars
  PROVE  FitInv'
<1>1. Idle.at = "idle"
  BY DEF Idle
<1>2. \A r \in Reader : reading[r] \in ReadingType
  BY DEF TypeOK, ReadingType
<1>3. CASE UNCHANGED vars
  BY <1>3 DEF vars, FitInv, ReadersFit, EntriesFit
<1>4. ASSUME NEW r \in Reader, NEW k, NEW q, Miss(r, k, q),
             \/ k = HOT_CACHE_KEY /\ q = None
             \/ q \in Query /\ k = ListKey(q)
      PROVE  FitInv'
  <2> DEFINE m == [at |-> "reading", key |-> k, query |-> q, version |-> 0, overtaken |-> FALSE]
  <2>1. m.key = k /\ m.query = q
    OBVIOUS
  <2>2. cache' = cache /\ \A s \in Reader : reading'[s] = IF s = r THEN m ELSE reading[s]
    BY <1>4 DEF Miss, TypeOK
  <2> HIDE DEF m
  <2>3. ReadersFit'
    BY <1>4, <2>1, <2>2 DEF FitInv, ReadersFit
  <2> QED BY <2>2, <2>3 DEF FitInv, EntriesFit
<1>5. ASSUME NEW r \in Reader, NEW q \in Query, findAll(r, q) PROVE FitInv'
  BY <1>4, <1>5 DEF findAll
<1>6. ASSUME NEW r \in Reader, findHot(r) PROVE FitInv'
  BY <1>4, <1>6 DEF findHot
<1>7. ASSUME NEW r \in Reader, ReadTable(r) PROVE FitInv'
  <2> DEFINE m == [reading[r] EXCEPT !.at = "storing", !.version = version]
  <2>1. m.key = reading[r].key /\ m.query = reading[r].query
    BY <1>2 DEF ReadingType
  <2>2. cache' = cache /\ \A s \in Reader : reading'[s] = IF s = r THEN m ELSE reading[s]
    BY <1>7 DEF ReadTable, TypeOK
  <2>3. reading[r].at # "idle"
    BY <1>7 DEF ReadTable
  <2> HIDE DEF m
  <2> QED BY <2>1, <2>2, <2>3, FitKeeps
<1>8. ASSUME NEW r \in Reader, setJson(r) PROVE FitInv'
  <2> DEFINE e == [query |-> reading[r].query, version |-> reading[r].version,
                   overtaken |-> reading[r].overtaken, ttl |-> TRUE]
  <2>1. /\ \A k \in Key : cache'[k] = IF k = reading[r].key THEN e ELSE cache[k]
        /\ \A s \in Reader : reading'[s] = IF s = r THEN Idle ELSE reading[s]
        /\ e.query = reading[r].query /\ reading[r].at # "idle"
    BY <1>8 DEF setJson, TypeOK
  <2> HIDE DEF e
  <2>2. ReadersFit'
    BY <1>1, <2>1 DEF FitInv, ReadersFit
  <2>3. \/ reading[r].key = HOT_CACHE_KEY /\ reading[r].query = None
        \/ reading[r].query \in Query /\ reading[r].key = ListKey(reading[r].query)
    BY <2>1 DEF FitInv, ReadersFit
  <2>4. EntriesFit'
    BY <2>1, <2>3 DEF FitInv, EntriesFit
  <2> QED BY <2>2, <2>4 DEF FitInv
<1>9. ASSUME NEW r \in Reader, ReadFails(r) PROVE FitInv'
  <2>1. cache' = cache /\ \A s \in Reader : reading'[s] = IF s = r THEN Idle ELSE reading[s]
    BY <1>9 DEF ReadFails, TypeOK
  <2> QED BY <1>1, <2>1 DEF FitInv, ReadersFit, EntriesFit
<1>10. ASSUME NEW k \in Key, Expire(k) PROVE FitInv'
  <2>1. reading' = reading /\ \A j \in Key : cache'[j] # None => cache'[j] = cache[j]
    BY <1>10 DEF Expire, TypeOK
  <2> QED BY <2>1, HotIsKey DEF FitInv, ReadersFit, EntriesFit
<1>11. CASE ChangeVideos \/ MarkFailed \/ FlushViews
  BY <1>11 DEF ChangeVideos, MarkFailed, FlushViews, FitInv, ReadersFit, EntriesFit
<1>12. ASSUME NEW Ks, reading' = Overtaken(Ks),
              \A k \in Key : cache'[k] # None => cache'[k] = cache[k]
       PROVE  FitInv'
  <2>1. \A r \in Reader :
          /\ Overtaken(Ks)[r].at = reading[r].at
          /\ Overtaken(Ks)[r].key = reading[r].key /\ Overtaken(Ks)[r].query = reading[r].query
    BY <1>2 DEF Overtaken, ReadingType
  <2> QED BY <1>12, <2>1, FitKeeps
<1>13. ASSUME NEW n \in Change, ScanLists(n) PROVE FitInv'
  <2>1. reading' = Overtaken(ListKeys) /\ \A k \in Key : cache'[k] # None => cache'[k] = cache[k]
    BY <1>13 DEF ScanLists
  <2> QED BY <1>12, <2>1
<1>14. ASSUME NEW n \in Change, DeleteHot(n) PROVE FitInv'
  <2>1. /\ reading' = Overtaken({HOT_CACHE_KEY})
        /\ \A k \in Key : cache'[k] # None => cache'[k] = cache[k]
    BY <1>14 DEF DeleteHot, TypeOK
  <2> QED BY <1>12, <2>1
<1>15. ASSUME NEW n \in Change, InvalidationLost(n) PROVE FitInv'
  BY <1>15 DEF InvalidationLost, FitInv, ReadersFit, EntriesFit
<1> QED BY <1>3, <1>5, <1>6, <1>7, <1>8, <1>9, <1>10, <1>11, <1>13, <1>14, <1>15 DEF Next

\* findAll may answer a query from the cache with the result of another only if an
\* ownerId has a colon: cacheKeyFor leaves the colons in the search text as they
\* are, but page parameters and status, which the pipe checks, have none, and tell
\* any two queries apart that ask for plain owners.
THEOREM OwnEntryForPlainOwners == Spec => []MixedByOwnersOnly
<1>1. TypeOK /\ FitInv /\ [Next]_vars => FitInv'
  BY NextFitInv
<1>2. FitInv => MixedByOwnersOnly
  <2> SUFFICES ASSUME FitInv PROVE MixedByOwnersOnly
    OBVIOUS
  <2>1. cache[HOT_CACHE_KEY] # None => cache[HOT_CACHE_KEY].query = None
    BY HotIsKey, ListIsNotHot DEF FitInv, EntriesFit
  <2>2. ASSUME NEW q \in Query, cache[ListKey(q)] # None
        PROVE  /\ cache[ListKey(q)].query \in Query
               /\ ListKey(cache[ListKey(q)].query) = ListKey(q)
    BY <2>2, HotIsKey, ListIsNotHot DEF FitInv, EntriesFit
  <2> QED BY <2>1, <2>2, KeysTellQueries DEF MixedByOwnersOnly
<1> QED BY <1>1, <1>2, InitFitInv, TypeCorrect, PTL DEF Spec

\* Not an invalidation but the end of its time to live is what removes a list
\* from Redis: delByPattern, for create, update, remove and markReady, never does.
THEOREM ListsOutliveInvalidation == Spec => ListsOnlyExpire
<1> DEFINE OnlyExpires ==
      \A q \in Query :
        cache[ListKey(q)] # None /\ cache'[ListKey(q)] = None => Expire(ListKey(q))
<1>1. ASSUME TypeOK, [Next]_vars PROVE OnlyExpires
  <2>1. CASE cache' = cache
    BY <2>1
  <2>2. ASSUME NEW r \in Reader, setJson(r) PROVE OnlyExpires
    <3> DEFINE e == [query |-> reading[r].query, version |-> reading[r].version,
                     overtaken |-> reading[r].overtaken, ttl |-> TRUE]
    <3>1. \A k \in Key : cache'[k] = e \/ cache'[k] = cache[k]
      BY <2>2 DEF setJson, TypeOK
    <3>2. e # None
      <4>1. e \in Entry
        BY <1>1 DEF Entry, TypeOK
      <4> QED BY <4>1, NoneAssumption
    <3> HIDE DEF e
    <3> QED BY <3>1, <3>2, HotIsKey
  <2>3. ASSUME NEW k \in Key, Expire(k) PROVE OnlyExpires
    <3>1. \A j \in Key : j # k => cache'[j] = cache[j]
      BY <2>3 DEF Expire, TypeOK
    <3> QED BY <2>3, <3>1, HotIsKey
  <2>4. ASSUME NEW n \in Change, ScanLists(n) PROVE OnlyExpires
    <3>1. \A q \in Query : cache'[ListKey(q)] = cache[ListKey(q)]
      BY <2>4, HotIsKey, PatternMatchesNoList DEF ScanLists
    <3> QED BY <3>1
  <2>5. ASSUME NEW n \in Change, DeleteHot(n) PROVE OnlyExpires
    <3>1. \A q \in Query : cache'[ListKey(q)] = cache[ListKey(q)]
      BY <2>5, HotIsKey, ListIsNotHot DEF DeleteHot, TypeOK
    <3> QED BY <3>1
  <2> QED BY <1>1, <2>1, <2>2, <2>3, <2>4, <2>5
        DEF Next, vars, findAll, findHot, Miss, ReadTable, ReadFails, ChangeVideos, MarkFailed,
            FlushViews, InvalidationLost
<1>2. TypeOK /\ [Next]_vars => [OnlyExpires]_vars
  BY <1>1
<1> QED BY <1>2, TypeCorrect, PTL DEF Spec, ListsOnlyExpire
=============================================================================
