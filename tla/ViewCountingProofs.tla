------------------------- MODULE ViewCountingProofs -------------------------
(***************************************************************************)
(* Proofs about ViewCounting, for any finite set of view requests and any  *)
(* number of viewers, videos, overlapping ticks and readers.               *)
(***************************************************************************)
EXTENDS ViewCounting, FiniteSetTheorems, TLAPS

USE DEF TickAt, ReadAt, RequestAt, ticks

\* Sets of views are finite, so that the counters they stand for are numbers.
LEMMA ViewsAreFinite ==
  \A S \in SUBSET View : IsFiniteSet(S) /\ Cardinality(S) \in Nat
  BY ViewAssumption, FS_Subset, FS_CardinalityType

\* A reader under way works on a video, and a tick writes after its scan.
TypeInv ==
  /\ TypeOK
  /\ \A t \in Tick : tick[t] = "writing" => todo[t] = {}
  /\ \A d \in Reader : reading[d].at # "idle" => reading[d].video \in Video

LEMMA InitType == Init => TypeInv
  BY BoundAssumption DEF Init, TypeInv, TypeOK, NoDelta, NotReading

\* Every step keeps the types.
LEMMA NextType == TypeInv /\ [Next]_vars => TypeInv'
<1> SUFFICES ASSUME TypeInv, [Next]_vars PROVE TypeInv'
  OBVIOUS
<1> USE BoundAssumption, RequestAssumption DEF TypeInv, TypeOK, NoDelta
<1>1. ASSUME NEW r \in View, ClaimView(r)
      PROVE  TypeInv'
  BY <1>1 DEF ClaimView, seenKey, SeenKey
<1>2. ASSUME NEW r \in View, RefuseView(r)
      PROVE  TypeInv'
  BY <1>2 DEF RefuseView
<1>3. ASSUME NEW r \in View, IncrPending(r)
      PROVE  TypeInv'
  BY <1>3 DEF IncrPending
<1>4. ASSUME NEW k \in SeenKey, ExpireSeen(k)
      PROVE  TypeInv'
  BY <1>4 DEF ExpireSeen
<1>5. ASSUME NEW t \in Tick, StartTick(t)
      PROVE  TypeInv'
  BY <1>5 DEF StartTick
<1>6. ASSUME NEW t \in Tick, NEW v \in Video, GetDelKey(t, v)
      PROVE  TypeInv'
  <2>1. updates' \in [Tick -> [Video -> SUBSET View]]
    BY <1>6 DEF GetDelKey
  <2>2. \A u \in Tick : tick'[u] = "idle" => updates'[u] = NoDelta
    BY <1>6 DEF GetDelKey
  <2> QED
    BY <1>6, <2>1, <2>2 DEF GetDelKey
<1>7. ASSUME NEW t \in Tick, EndScan(t)
      PROVE  TypeInv'
  BY <1>7 DEF EndScan
<1>8. ASSUME NEW t \in Tick, NEW v \in Video, UpdateViewCount(t, v)
      PROVE  TypeInv'
  <2>1. updates' \in [Tick -> [Video -> SUBSET View]]
    BY <1>8 DEF UpdateViewCount
  <2>2. \A u \in Tick : tick'[u] = "idle" => updates'[u] = NoDelta
    BY <1>8 DEF UpdateViewCount
  <2>3. viewCount' \in [Video -> SUBSET View] /\ dropped' \subseteq View
    <3>1. updates[t][v] \in SUBSET View /\ viewCount[v] \union updates[t][v] \in SUBSET View
      OBVIOUS
    <3>2. CASE v \in rows
      BY <1>8, <3>1, <3>2 DEF UpdateViewCount
    <3>3. CASE v \notin rows
      BY <1>8, <3>1, <3>3 DEF UpdateViewCount
    <3> QED
      BY <3>2, <3>3
  <2>4. UNCHANGED <<rows, seen, pending, request, tick, todo, reading, lost,
                    expiries, crashes>>
    BY <1>8 DEF UpdateViewCount
  <2> QED
    BY <2>1, <2>2, <2>3, <2>4
<1>9. ASSUME NEW t \in Tick, EndTick(t)
      PROVE  TypeInv'
  BY <1>9 DEF EndTick
<1>10. ASSUME NEW d \in Reader, NEW v \in Video, ReadRow(d, v)
      PROVE  TypeInv'
  <2>1. Cardinality(Counted(v) \ lost) \in Nat
    BY ViewsAreFinite DEF Counted
  <2> QED
    BY <1>10, <2>1 DEF ReadRow
<1>11. ASSUME NEW d \in Reader, ReadPending(d)
      PROVE  TypeInv'
  <2> DEFINE v == reading[d].video
             n == Cardinality(reading[d].base) + Cardinality(pending[v])
  <2>1. n \in Nat
    <3>1. reading[d].base \in SUBSET View /\ pending[v] \in SUBSET View
      BY <1>11 DEF ReadPending
    <3>2. Cardinality(reading[d].base) \in Nat /\ Cardinality(pending[v]) \in Nat
      BY <3>1, ViewsAreFinite, Zenon
    <3> QED
      BY <3>2
  <2>2. reading' \in [Reader -> [at : ReadAt, video : Video \union {None},
                                base : SUBSET View, viewsCount : Nat]]
    <3>1. reading' = [reading EXCEPT ![d].at = "answered", ![d].viewsCount = n]
      BY <1>11 DEF ReadPending
    <3>2. /\ reading'[d] = [reading[d] EXCEPT !.at = "answered", !.viewsCount = n]
          /\ \A e \in Reader : e # d => reading'[e] = reading[e]
          /\ reading' = [e \in Reader |-> reading'[e]]
      BY <3>1
    <3> HIDE DEF n
    <3>3. [reading[d] EXCEPT !.at = "answered", !.viewsCount = n]
            \in [at : ReadAt, video : Video \union {None}, base : SUBSET View,
                viewsCount : Nat]
      <4>1. reading[d] \in [at : ReadAt, video : Video \union {None}, base : SUBSET View,
                          viewsCount : Nat]
        OBVIOUS
      <4> QED
        BY <2>1, <4>1
    <3> QED
      BY <3>2, <3>3
  <2>3. \A e \in Reader : reading'[e].at # "idle" => reading'[e].video \in Video
    BY <1>11 DEF ReadPending
  <2> QED
    BY <1>11, <2>2, <2>3 DEF ReadPending
<1>12. ASSUME NEW d \in Reader, EndRead(d)
      PROVE  TypeInv'
  BY <1>12 DEF EndRead, NotReading
<1>13. ASSUME NEW v \in Video, RemoveVideo(v)
      PROVE  TypeInv'
  BY <1>13 DEF RemoveVideo
<1>14. ASSUME Crash
      PROVE  TypeInv'
  BY <1>14 DEF Crash
<1>15. CASE UNCHANGED vars
  BY <1>15 DEF vars
<1>q. QED
  BY <1>1, <1>2, <1>3, <1>4, <1>5, <1>6, <1>7, <1>8, <1>9, <1>10, <1>11, <1>12,
     <1>13, <1>14, <1>15
     DEF Next, RequestStep, TickStep, ReaderStep

\* Type correctness: a tick that has ended has written what it took.
THEOREM TypeCorrect == Spec => []TypeOK
<1>1. TypeInv => TypeOK
  BY DEF TypeInv
<1> QED
  BY <1>1, InitType, NextType, PTL DEF Spec

-----------------------------------------------------------------------------
\* Places.  Only counted views are anywhere, in the places of their own video.
\* With it the disjointness of the places is inductive: INCR adds a view that
\* was nowhere, and every other step moves views from one place to another.
PlacesInv ==
  /\ \A v \in Video :
       /\ pending[v] \subseteq Counted(v)
       /\ viewCount[v] \subseteq Counted(v)
       /\ \A t \in Tick : updates[t][v] \subseteq Counted(v)
  /\ \A r \in dropped \union lost : request[r] = "counted"

LEMMA InitPlaces == Init => PlacesInv /\ NoViewTwice /\ NoViewForgotten
  BY DEF Init, PlacesInv, NoViewTwice, NoViewForgotten, NoDelta

\* Only counted views come into the places.
LEMMA NextPlaces == TypeInv /\ PlacesInv /\ [Next]_vars => PlacesInv'
<1> SUFFICES ASSUME TypeInv, PlacesInv, [Next]_vars PROVE PlacesInv'
  OBVIOUS
<1> USE BoundAssumption, RequestAssumption
        DEF TypeInv, TypeOK, NoDelta, PlacesInv, Counted
<1>1. ASSUME NEW r \in View, ClaimView(r)
      PROVE  PlacesInv'
  BY <1>1 DEF ClaimView
<1>2. ASSUME NEW r \in View, RefuseView(r)
      PROVE  PlacesInv'
  BY <1>2 DEF RefuseView
<1>3. ASSUME NEW r \in View, IncrPending(r)
      PROVE  PlacesInv'
  BY <1>3 DEF IncrPending
<1>4. ASSUME NEW k \in SeenKey, ExpireSeen(k)
      PROVE  PlacesInv'
  BY <1>4 DEF ExpireSeen
<1>5. ASSUME NEW t \in Tick, StartTick(t)
      PROVE  PlacesInv'
  BY <1>5 DEF StartTick
<1>6. ASSUME NEW t \in Tick, NEW v \in Video, GetDelKey(t, v)
      PROVE  PlacesInv'
  BY <1>6 DEF GetDelKey
<1>7. ASSUME NEW t \in Tick, EndScan(t)
      PROVE  PlacesInv'
  BY <1>7 DEF EndScan
<1>8. ASSUME NEW t \in Tick, NEW v \in Video, UpdateViewCount(t, v)
      PROVE  PlacesInv'
  BY <1>8 DEF UpdateViewCount
<1>9. ASSUME NEW t \in Tick, EndTick(t)
      PROVE  PlacesInv'
  BY <1>9 DEF EndTick
<1>10. ASSUME NEW d \in Reader, NEW v \in Video, ReadRow(d, v)
      PROVE  PlacesInv'
  BY <1>10 DEF ReadRow
<1>11. ASSUME NEW d \in Reader, ReadPending(d)
      PROVE  PlacesInv'
  BY <1>11 DEF ReadPending
<1>12. ASSUME NEW d \in Reader, EndRead(d)
      PROVE  PlacesInv'
  BY <1>12 DEF EndRead
<1>13. ASSUME NEW v \in Video, RemoveVideo(v)
      PROVE  PlacesInv'
  BY <1>13 DEF RemoveVideo
<1>14. ASSUME Crash
      PROVE  PlacesInv'
  BY <1>14 DEF Crash
<1>15. CASE UNCHANGED vars
  BY <1>15 DEF vars
<1>q. QED
  BY <1>1, <1>2, <1>3, <1>4, <1>5, <1>6, <1>7, <1>8, <1>9, <1>10, <1>11, <1>12,
     <1>13, <1>14, <1>15
     DEF Next, RequestStep, TickStep, ReaderStep

\* No step puts a view into two places.
LEMMA NextTwice == TypeInv /\ PlacesInv /\ NoViewTwice /\ [Next]_vars => NoViewTwice'
<1> SUFFICES ASSUME TypeInv, PlacesInv, NoViewTwice, [Next]_vars PROVE NoViewTwice'
  OBVIOUS
<1> USE BoundAssumption, RequestAssumption
        DEF TypeInv, TypeOK, NoDelta, PlacesInv, NoViewTwice, Counted
<1>1. ASSUME NEW r \in View, ClaimView(r)
      PROVE  NoViewTwice'
  BY <1>1 DEF ClaimView
<1>2. ASSUME NEW r \in View, RefuseView(r)
      PROVE  NoViewTwice'
  BY <1>2 DEF RefuseView
<1>3. ASSUME NEW r \in View, IncrPending(r)
      PROVE  NoViewTwice'
  BY <1>3 DEF IncrPending
<1>4. ASSUME NEW k \in SeenKey, ExpireSeen(k)
      PROVE  NoViewTwice'
  BY <1>4 DEF ExpireSeen
<1>5. ASSUME NEW t \in Tick, StartTick(t)
      PROVE  NoViewTwice'
  BY <1>5 DEF StartTick
<1>6. ASSUME NEW t \in Tick, NEW v \in Video, GetDelKey(t, v)
      PROVE  NoViewTwice'
  BY <1>6 DEF GetDelKey
<1>7. ASSUME NEW t \in Tick, EndScan(t)
      PROVE  NoViewTwice'
  BY <1>7 DEF EndScan
<1>8. ASSUME NEW t \in Tick, NEW v \in Video, UpdateViewCount(t, v)
      PROVE  NoViewTwice'
  BY <1>8 DEF UpdateViewCount
<1>9. ASSUME NEW t \in Tick, EndTick(t)
      PROVE  NoViewTwice'
  BY <1>9 DEF EndTick
<1>10. ASSUME NEW d \in Reader, NEW v \in Video, ReadRow(d, v)
      PROVE  NoViewTwice'
  BY <1>10 DEF ReadRow
<1>11. ASSUME NEW d \in Reader, ReadPending(d)
      PROVE  NoViewTwice'
  BY <1>11 DEF ReadPending
<1>12. ASSUME NEW d \in Reader, EndRead(d)
      PROVE  NoViewTwice'
  BY <1>12 DEF EndRead
<1>13. ASSUME NEW v \in Video, RemoveVideo(v)
      PROVE  NoViewTwice'
  BY <1>13 DEF RemoveVideo
<1>14. ASSUME Crash
      PROVE  NoViewTwice'
  BY <1>14 DEF Crash
<1>15. CASE UNCHANGED vars
  BY <1>15 DEF vars
<1>q. QED
  BY <1>1, <1>2, <1>3, <1>4, <1>5, <1>6, <1>7, <1>8, <1>9, <1>10, <1>11, <1>12,
     <1>13, <1>14, <1>15
     DEF Next, RequestStep, TickStep, ReaderStep

\* No step takes a view out of all places.
LEMMA NextForgotten == TypeInv /\ NoViewForgotten /\ [Next]_vars => NoViewForgotten'
<1> SUFFICES ASSUME TypeInv, NoViewForgotten, [Next]_vars PROVE NoViewForgotten'
  OBVIOUS
<1> USE BoundAssumption, RequestAssumption
        DEF TypeInv, TypeOK, NoDelta, NoViewForgotten, Counted
<1>1. ASSUME NEW r \in View, ClaimView(r)
      PROVE  NoViewForgotten'
  BY <1>1 DEF ClaimView
<1>2. ASSUME NEW r \in View, RefuseView(r)
      PROVE  NoViewForgotten'
  BY <1>2 DEF RefuseView
<1>3. ASSUME NEW r \in View, IncrPending(r)
      PROVE  NoViewForgotten'
  BY <1>3 DEF IncrPending
<1>4. ASSUME NEW k \in SeenKey, ExpireSeen(k)
      PROVE  NoViewForgotten'
  BY <1>4 DEF ExpireSeen
<1>5. ASSUME NEW t \in Tick, StartTick(t)
      PROVE  NoViewForgotten'
  BY <1>5 DEF StartTick
<1>6. ASSUME NEW t \in Tick, NEW v \in Video, GetDelKey(t, v)
      PROVE  NoViewForgotten'
  BY <1>6 DEF GetDelKey
<1>7. ASSUME NEW t \in Tick, EndScan(t)
      PROVE  NoViewForgotten'
  BY <1>7 DEF EndScan
<1>8. ASSUME NEW t \in Tick, NEW v \in Video, UpdateViewCount(t, v)
      PROVE  NoViewForgotten'
  BY <1>8 DEF UpdateViewCount
<1>9. ASSUME NEW t \in Tick, EndTick(t)
      PROVE  NoViewForgotten'
  BY <1>9 DEF EndTick
<1>10. ASSUME NEW d \in Reader, NEW v \in Video, ReadRow(d, v)
      PROVE  NoViewForgotten'
  BY <1>10 DEF ReadRow
<1>11. ASSUME NEW d \in Reader, ReadPending(d)
      PROVE  NoViewForgotten'
  BY <1>11 DEF ReadPending
<1>12. ASSUME NEW d \in Reader, EndRead(d)
      PROVE  NoViewForgotten'
  BY <1>12 DEF EndRead
<1>13. ASSUME NEW v \in Video, RemoveVideo(v)
      PROVE  NoViewForgotten'
  BY <1>13 DEF RemoveVideo
<1>14. ASSUME Crash
      PROVE  NoViewForgotten'
  BY <1>14 DEF Crash
<1>15. CASE UNCHANGED vars
  BY <1>15 DEF vars
<1>q. QED
  BY <1>1, <1>2, <1>3, <1>4, <1>5, <1>6, <1>7, <1>8, <1>9, <1>10, <1>11, <1>12,
     <1>13, <1>14, <1>15
     DEF Next, RequestStep, TickStep, ReaderStep

\* No view is counted twice, however many ticks overlap.
THEOREM ViewsCountedOnce == Spec => []NoViewTwice
  BY InitType, NextType, InitPlaces, NextPlaces, NextTwice, PTL DEF Spec

\* Every counted view is somewhere, and lost only with a process.
THEOREM ViewsAccountedFor == Spec => []NoViewForgotten
  BY InitType, NextType, InitPlaces, NextForgotten, PTL DEF Spec

-----------------------------------------------------------------------------
\* Readers.  What a reader found in the column was counted, and stays in the
\* column or goes with the row, so that it never is in Redis again: the sum of
\* the two numbers is the size of a union of disjoint sets of counted views.
BaseInv ==
  \A d \in Reader :
    LET v == reading[d].video IN
    reading[d].at = "row" =>
      reading[d].base \subseteq (viewCount[v] \union dropped) \intersect Counted(v)

LEMMA InitRead == Init => BaseInv /\ NeverOvercounts
  BY DEF Init, BaseInv, NeverOvercounts, NotReading

\* A counted view stays counted.
LEMMA CountedStays ==
  TypeInv /\ [Next]_vars => \A v \in Video : Counted(v) \subseteq Counted(v)'
<1> SUFFICES ASSUME TypeInv, [Next]_vars
             PROVE  \A r \in View : request[r] = "counted" => request'[r] = "counted"
  BY DEF Counted
<1> USE DEF TypeInv, TypeOK
<1>1. ASSUME NEW q \in View, ClaimView(q)
      PROVE  \A r \in View : request[r] = "counted" => request'[r] = "counted"
  BY <1>1 DEF ClaimView
<1>2. ASSUME NEW q \in View, RefuseView(q)
      PROVE  \A r \in View : request[r] = "counted" => request'[r] = "counted"
  BY <1>2 DEF RefuseView
<1>3. ASSUME NEW q \in View, IncrPending(q)
      PROVE  \A r \in View : request[r] = "counted" => request'[r] = "counted"
  BY <1>3 DEF IncrPending
<1>4. ASSUME NEW k \in SeenKey, ExpireSeen(k)
      PROVE  \A r \in View : request[r] = "counted" => request'[r] = "counted"
  BY <1>4 DEF ExpireSeen
<1>5. ASSUME NEW t \in Tick, StartTick(t)
      PROVE  \A r \in View : request[r] = "counted" => request'[r] = "counted"
  BY <1>5 DEF StartTick
<1>6. ASSUME NEW t \in Tick, NEW v \in Video, GetDelKey(t, v)
      PROVE  \A r \in View : request[r] = "counted" => request'[r] = "counted"
  BY <1>6 DEF GetDelKey
<1>7. ASSUME NEW t \in Tick, EndScan(t)
      PROVE  \A r \in View : request[r] = "counted" => request'[r] = "counted"
  BY <1>7 DEF EndScan
<1>8. ASSUME NEW t \in Tick, NEW v \in Video, UpdateViewCount(t, v)
      PROVE  \A r \in View : request[r] = "counted" => request'[r] = "counted"
  BY <1>8 DEF UpdateViewCount
<1>9. ASSUME NEW t \in Tick, EndTick(t)
      PROVE  \A r \in View : request[r] = "counted" => request'[r] = "counted"
  BY <1>9 DEF EndTick
<1>10. ASSUME NEW d \in Reader, NEW v \in Video, ReadRow(d, v)
      PROVE  \A r \in View : request[r] = "counted" => request'[r] = "counted"
  BY <1>10 DEF ReadRow
<1>11. ASSUME NEW d \in Reader, ReadPending(d)
      PROVE  \A r \in View : request[r] = "counted" => request'[r] = "counted"
  BY <1>11 DEF ReadPending
<1>12. ASSUME NEW d \in Reader, EndRead(d)
      PROVE  \A r \in View : request[r] = "counted" => request'[r] = "counted"
  BY <1>12 DEF EndRead
<1>13. ASSUME NEW v \in Video, RemoveVideo(v)
      PROVE  \A r \in View : request[r] = "counted" => request'[r] = "counted"
  BY <1>13 DEF RemoveVideo
<1>14. ASSUME Crash
      PROVE  \A r \in View : request[r] = "counted" => request'[r] = "counted"
  BY <1>14 DEF Crash
<1>15. CASE UNCHANGED vars
  BY <1>15 DEF vars
<1>q. QED
  BY <1>1, <1>2, <1>3, <1>4, <1>5, <1>6, <1>7, <1>8, <1>9, <1>10, <1>11, <1>12,
     <1>13, <1>14, <1>15
     DEF Next, RequestStep, TickStep, ReaderStep

\* What a reader holds stays in the column or goes with the row.
LEMMA NextBase == TypeInv /\ PlacesInv /\ BaseInv /\ [Next]_vars => BaseInv'
<1> SUFFICES ASSUME TypeInv, PlacesInv, BaseInv, [Next]_vars PROVE BaseInv'
  OBVIOUS
<1> USE DEF TypeInv, TypeOK, PlacesInv, BaseInv, Counted
<1>1. ASSUME NEW r \in View, ClaimView(r)
      PROVE  BaseInv'
  BY <1>1 DEF ClaimView
<1>2. ASSUME NEW r \in View, RefuseView(r)
      PROVE  BaseInv'
  BY <1>2 DEF RefuseView
<1>3. ASSUME NEW r \in View, IncrPending(r)
      PROVE  BaseInv'
  BY <1>3 DEF IncrPending
<1>4. ASSUME NEW k \in SeenKey, ExpireSeen(k)
      PROVE  BaseInv'
  BY <1>4 DEF ExpireSeen
<1>5. ASSUME NEW t \in Tick, StartTick(t)
      PROVE  BaseInv'
  BY <1>5 DEF StartTick
<1>6. ASSUME NEW t \in Tick, NEW v \in Video, GetDelKey(t, v)
      PROVE  BaseInv'
  BY <1>6 DEF GetDelKey
<1>7. ASSUME NEW t \in Tick, EndScan(t)
      PROVE  BaseInv'
  BY <1>7 DEF EndScan
<1>8. ASSUME NEW t \in Tick, NEW v \in Video, UpdateViewCount(t, v)
      PROVE  BaseInv'
  <2>1. reading' = reading /\ request' = request
    BY <1>8 DEF UpdateViewCount
  <2>2. /\ dropped \subseteq dropped'
        /\ \A w \in Video : viewCount[w] \subseteq viewCount'[w]
    BY <1>8 DEF UpdateViewCount
  <2>3. \A d \in Reader : reading[d].at = "row" => reading[d].video \in Video
    OBVIOUS
  <2> QED BY <2>1, <2>2, <2>3
<1>9. ASSUME NEW t \in Tick, EndTick(t)
      PROVE  BaseInv'
  BY <1>9 DEF EndTick
<1>10. ASSUME NEW d \in Reader, NEW v \in Video, ReadRow(d, v)
      PROVE  BaseInv'
  BY <1>10 DEF ReadRow
<1>11. ASSUME NEW d \in Reader, ReadPending(d)
      PROVE  BaseInv'
  BY <1>11 DEF ReadPending
<1>12. ASSUME NEW d \in Reader, EndRead(d)
      PROVE  BaseInv'
  BY <1>12 DEF EndRead, NotReading
<1>13. ASSUME NEW v \in Video, RemoveVideo(v)
      PROVE  BaseInv'
  BY <1>13 DEF RemoveVideo
<1>14. ASSUME Crash
      PROVE  BaseInv'
  BY <1>14 DEF Crash
<1>15. CASE UNCHANGED vars
  BY <1>15 DEF vars
<1>q. QED
  BY <1>1, <1>2, <1>3, <1>4, <1>5, <1>6, <1>7, <1>8, <1>9, <1>10, <1>11, <1>12,
     <1>13, <1>14, <1>15
     DEF Next, RequestStep, TickStep, ReaderStep

\* The sum findOne answers.
LEMMA SumIsCounted ==
  ASSUME TypeInv, PlacesInv, NoViewTwice, BaseInv,
         NEW d \in Reader, reading[d].at = "row"
  PROVE  LET v == reading[d].video
         IN  Cardinality(reading[d].base) + Cardinality(pending[v])
               <= Cardinality(Counted(v))
<1> DEFINE v == reading[d].video
           B == reading[d].base
           P == pending[v]
<1>1. v \in Video /\ B \in SUBSET View /\ P \in SUBSET View
  BY DEF TypeInv, TypeOK
<1>2. B \subseteq viewCount[v] \union dropped /\ B \union P \subseteq Counted(v)
  BY <1>1 DEF BaseInv, PlacesInv
<1>3. B \intersect P = {}
  BY <1>1, <1>2 DEF NoViewTwice
<1>4. /\ IsFiniteSet(B) /\ IsFiniteSet(P) /\ IsFiniteSet(Counted(v))
      /\ Cardinality(B) \in Nat /\ Cardinality(P) \in Nat
  <2>1. Counted(v) \in SUBSET View
    BY DEF Counted
  <2> QED
    BY <1>1, <2>1, ViewsAreFinite, Zenon
<1>5. Cardinality(B \union P) = Cardinality(B) + Cardinality(P)
  <2>1. Cardinality(B \union P) =
          Cardinality(B) + Cardinality(P) - Cardinality(B \intersect P)
    BY <1>4, FS_Union
  <2>2. Cardinality(B \intersect P) = 0
    BY <1>3, FS_EmptySet
  <2> QED
    BY <1>4, <2>1, <2>2
<1>6. Cardinality(B \union P) <= Cardinality(Counted(v))
  BY <1>2, <1>4, FS_Subset
<1> QED
  BY <1>5, <1>6

\* An answer stays right, because counted views only become more, and a new
\* answer is right by the sum.
LEMMA NextRead ==
  /\ TypeInv /\ PlacesInv /\ NoViewTwice /\ BaseInv /\ NeverOvercounts
  /\ [Next]_vars
  => NeverOvercounts'
<1> SUFFICES ASSUME TypeInv, PlacesInv, NoViewTwice, BaseInv, NeverOvercounts,
                    [Next]_vars
             PROVE  NeverOvercounts'
  OBVIOUS
<1> DEFINE After(v) == {r \in View : videoOf[r] = v /\ request'[r] = "counted"}
<1>1. ASSUME NEW v \in Video, NEW n \in Nat, n <= Cardinality(Counted(v))
      PROVE  n <= Cardinality(After(v))
  <2>1. Counted(v) \subseteq After(v)
    BY CountedStays DEF Counted
  <2>2. Counted(v) \in SUBSET View /\ After(v) \in SUBSET View
    BY DEF Counted
  <2> HIDE DEF After
  <2>3. /\ Cardinality(Counted(v)) \in Nat
        /\ Cardinality(After(v)) \in Nat
        /\ IsFiniteSet(After(v))
    BY <2>2, ViewsAreFinite, Zenon
  <2>4. Cardinality(Counted(v)) <= Cardinality(After(v))
    BY <2>1, <2>3, FS_Subset
  <2> QED
    BY <1>1, <2>3, <2>4
<1> SUFFICES ASSUME NEW d \in Reader, reading'[d].at = "answered"
             PROVE  reading'[d].viewsCount <= Cardinality(After(reading'[d].video))
  BY DEF NeverOvercounts, Counted
<1> HIDE DEF After
<1>2. CASE reading'[d] = reading[d]
  <2>1. reading[d].video \in Video /\ reading[d].viewsCount \in Nat
    BY <1>2 DEF TypeInv, TypeOK
  <2>2. reading[d].viewsCount <= Cardinality(Counted(reading[d].video))
    BY <1>2 DEF NeverOvercounts
  <2> QED
    BY <1>1, <1>2, <2>1, <2>2
<1>3. CASE reading'[d] # reading[d]
  <2> DEFINE v == reading[d].video
             n == Cardinality(reading[d].base) + Cardinality(pending[v])
  <2>1. ReadPending(d)
    <3>1. UNCHANGED reading \/ \E e \in Reader : ReaderStep(e)
      BY DEF Next, vars, RequestStep, TickStep, ClaimView, RefuseView, IncrPending,
         ExpireSeen, StartTick, GetDelKey, EndScan, UpdateViewCount, EndTick,
         RemoveVideo, Crash
    <3>2. PICK e \in Reader : ReaderStep(e)
      BY <1>3, <3>1
    <3>3. reading \in [Reader -> [at : ReadAt, video : Video \union {None},
                                  base : SUBSET View, viewsCount : Nat]]
      BY DEF TypeInv, TypeOK
    <3>4. \A f \in Reader : f # e => reading'[f] = reading[f]
      BY <3>2, <3>3 DEF ReaderStep, ReadPending, EndRead, ReadRow
    <3>5. ~EndRead(d) /\ ~\E u \in Video : ReadRow(d, u)
      <4>1. ~EndRead(d)
        BY <3>3 DEF EndRead, NotReading
      <4>2. ASSUME NEW u \in Video, ReadRow(d, u)
            PROVE  reading'[d].at = "row"
        BY <3>3, <4>2 DEF ReadRow
      <4> QED
        BY <4>1, <4>2
    <3> QED
      BY <1>3, <3>2, <3>4, <3>5 DEF ReaderStep
  <2>2. v \in Video /\ reading[d].base \in SUBSET View /\ pending[v] \in SUBSET View
    BY <2>1 DEF ReadPending, TypeInv, TypeOK
  <2>3. Cardinality(reading[d].base) \in Nat /\ Cardinality(pending[v]) \in Nat
    BY <2>2, ViewsAreFinite, Zenon
  <2>4. n \in Nat /\ n <= Cardinality(Counted(v))
    BY <2>1, <2>3, SumIsCounted DEF ReadPending
  <2>5. n <= Cardinality(After(v))
    BY <1>1, <2>2, <2>4
  <2>6. reading'[d].viewsCount = n /\ reading'[d].video = v
    BY <2>1 DEF ReadPending, TypeInv, TypeOK
  <2> QED
    BY <2>5, <2>6
<1> QED
  BY <1>2, <1>3

\* GET /videos/:id never answers more views than were counted.
THEOREM AnswersNeverOvercount == Spec => []NeverOvercounts
  BY InitType, NextType, InitPlaces, NextPlaces, NextTwice, InitRead, NextBase,
     NextRead, PTL DEF Spec

-----------------------------------------------------------------------------
LEMMA PassedAreFinite ==
  \A k : IsFiniteSet(Passed(k)) /\ Cardinality(Passed(k)) \in Nat
<1>1. \A k : Passed(k) \in SUBSET View
  BY DEF Passed
<1> HIDE DEF Passed
<1> QED BY <1>1, ViewsAreFinite, Zenon

LEMMA InitDedupe == Init => DedupeHolds
<1> SUFFICES ASSUME Init, NEW k \in SeenKey PROVE Cardinality(Passed(k)) = expiries[k] + 0
  BY DEF Init, DedupeHolds
<1>1. Passed(k) = {} /\ expiries[k] = 0
  BY DEF Init, Passed
<1>2. Cardinality({}) = 0
  BY FS_EmptySet
<1> QED BY <1>1, <1>2

\* A step that lets no view pass.
LEMMA NoNewPassed ==
  ASSUME TypeInv, DedupeHolds, UNCHANGED <<seen, expiries>>,
         \A r \in View : request'[r] \in {"claimed", "counted", "cut"}
                           <=> request[r] \in {"claimed", "counted", "cut"}
  PROVE  DedupeHolds'
<1>1. \A k : Passed(k)' = Passed(k)
  BY DEF Passed
<1> QED BY <1>1 DEF DedupeHolds

LEMMA NextDedupe == TypeInv /\ DedupeHolds /\ [Next]_vars => DedupeHolds'
<1> SUFFICES ASSUME TypeInv, DedupeHolds, [Next]_vars PROVE DedupeHolds'
  OBVIOUS
<1>t. /\ request \in [View -> RequestAt] /\ expiries \in [SeenKey -> 0..MaxExpiries]
      /\ seen \subseteq SeenKey
  BY DEF TypeInv, TypeOK
<1>1. ASSUME NEW r \in View, ClaimView(r) PROVE DedupeHolds'
  <2> DEFINE k == seenKey(r)
  <2>1. /\ k \in SeenKey /\ k \notin seen /\ seen' = seen \union {k} /\ expiries' = expiries
        /\ request[r] = "idle" /\ request' = [request EXCEPT ![r] = "claimed"]
    BY <1>1, RequestAssumption DEF ClaimView, seenKey, SeenKey
  <2>2. Passed(k)' = Passed(k) \union {r} /\ r \notin Passed(k)
    BY <1>t, <2>1 DEF Passed
  <2>3. \A j : j # k => Passed(j)' = Passed(j)
    BY <1>t, <2>1 DEF Passed
  <2> HIDE DEF k
  <2>4. Cardinality(Passed(k)) = expiries[k] /\ expiries[k] \in Nat
    BY <1>t, <2>1, BoundAssumption, PassedAreFinite DEF DedupeHolds
  <2>5. Cardinality(Passed(k) \union {r}) = Cardinality(Passed(k)) + 1
    BY <2>2, PassedAreFinite, FS_AddElement
  <2>6. Cardinality(Passed(k)') = expiries[k] + 1
    BY <2>2, <2>4, <2>5, PassedAreFinite
  <2> SUFFICES ASSUME NEW j \in SeenKey
               PROVE  Cardinality(Passed(j)') = expiries[j] + (IF j \in seen' THEN 1 ELSE 0)
    BY <2>1 DEF DedupeHolds
  <2>7. CASE j = k
    BY <2>1, <2>6, <2>7
  <2>8. CASE j # k
    <3>1. Cardinality(Passed(j)) = expiries[j] + (IF j \in seen THEN 1 ELSE 0)
      BY DEF DedupeHolds
    <3> QED BY <2>1, <2>3, <2>8, <3>1
  <2> QED BY <2>7, <2>8
<1>2. ASSUME NEW k \in SeenKey, ExpireSeen(k) PROVE DedupeHolds'
  <2>1. /\ k \in seen /\ seen' = seen \ {k} /\ expiries' = [expiries EXCEPT ![k] = @ + 1]
        /\ request' = request
    BY <1>2 DEF ExpireSeen
  <2>2. \A j : Passed(j)' = Passed(j)
    BY <2>1 DEF Passed
  <2> SUFFICES ASSUME NEW j \in SeenKey
               PROVE  Cardinality(Passed(j)) = expiries'[j] + (IF j \in seen' THEN 1 ELSE 0)
    BY <2>2 DEF DedupeHolds
  <2>3. Cardinality(Passed(j)) = expiries[j] + (IF j \in seen THEN 1 ELSE 0) /\ expiries[j] \in Nat
    BY <1>t, BoundAssumption DEF DedupeHolds
  <2>4. CASE j = k
    <3>1. expiries'[k] = expiries[k] + 1 /\ k \notin seen'
      BY <1>t, <2>1
    <3> HIDE DEF Passed
    <3> QED BY <2>1, <2>3, <2>4, <3>1
  <2>5. CASE j # k
    BY <1>t, <2>1, <2>3, <2>5
  <2> QED BY <2>4, <2>5
<1>3. ASSUME NEW r \in View, RefuseView(r) PROVE DedupeHolds'
  BY <1>3, <1>t, NoNewPassed DEF RefuseView
<1>4. ASSUME NEW r \in View, IncrPending(r) PROVE DedupeHolds'
  BY <1>4, <1>t, NoNewPassed DEF IncrPending
<1>5. CASE Crash
  BY <1>5, <1>t, NoNewPassed DEF Crash
<1>6. CASE UNCHANGED <<seen, expiries, request>>
  BY <1>6, NoNewPassed
<1>7. \/ UNCHANGED <<seen, expiries, request>> \/ Crash
      \/ \E r \in View : RequestStep(r)
      \/ \E k \in SeenKey : ExpireSeen(k)
  BY DEF Next, TickStep, ReaderStep, StartTick, GetDelKey, EndScan, UpdateViewCount, EndTick,
         ReadRow, ReadPending, EndRead, RemoveVideo, vars
<1> QED BY <1>1, <1>2, <1>3, <1>4, <1>5, <1>6, <1>7 DEF RequestStep

\* Within one life of its key in Redis exactly one view of a viewer passes, however
\* many requests race for SET NX.
THEOREM OneViewPerWindow == Spec => []DedupeHolds
  BY InitType, NextType, InitDedupe, NextDedupe, PTL DEF Spec

-----------------------------------------------------------------------------
\* What every step may rely on: types, places, and no view in two of them.
ViewInv == TypeInv /\ PlacesInv /\ NoViewTwice

LEMMA AlwaysViewInv == Spec => []ViewInv
  BY InitType, NextType, InitPlaces, NextPlaces, NextTwice, PTL DEF Spec, ViewInv

\* The size of two sets of views that share none.
LEMMA SizesAdd ==
  ASSUME NEW S \in SUBSET View, NEW T \in SUBSET View, S \intersect T = {}
  PROVE  Cardinality(S \union T) = Cardinality(S) + Cardinality(T)
<1>1. Cardinality(S \union T) = Cardinality(S) + Cardinality(T) - Cardinality(S \intersect T)
  BY ViewsAreFinite, FS_Union
<1>2. Cardinality(S) \in Nat /\ Cardinality(T) \in Nat /\ Cardinality(S \intersect T) = 0
  BY ViewsAreFinite, FS_EmptySet
<1> QED BY <1>1, <1>2

\* Since no view is in two places, what is added to a place was not there.
LEMMA NextAddsUp == ViewInv /\ [Next]_vars => [AddUp]_vars
<1> SUFFICES ASSUME ViewInv, Next PROVE AddUp
  OBVIOUS
<1> USE DEF NoDelta
<1>0. TypeOK /\ PlacesInv /\ NoViewTwice
  BY DEF ViewInv, TypeInv
<1>1. ASSUME NEW r \in View, IncrPending(r) PROVE AddUp
  <2> DEFINE v == videoOf[r]
  <2>1. v \in Video /\ r \notin pending[v] /\ pending[v] \in SUBSET View
    BY <1>0, <1>1, RequestAssumption DEF IncrPending, PlacesInv, Counted, TypeOK
  <2>2. Cardinality(pending[v] \union {r}) = Cardinality(pending[v]) + 1
    BY <2>1, ViewsAreFinite, FS_AddElement
  <2>3. pending' = [pending EXCEPT ![v] = pending[v] \union {r}]
    BY <1>1 DEF IncrPending
  <2>4. \A w \in Video : w # v => pending'[w] = pending[w]
    BY <1>0, <2>3 DEF TypeOK
  <2>5. pending'[v] = pending[v] \union {r}
    BY <1>0, <2>1, <2>3 DEF TypeOK
  <2>6. updates' = updates /\ viewCount' = viewCount
    BY <1>1 DEF IncrPending
  <2> QED BY <2>2, <2>4, <2>5, <2>6 DEF AddUp
<1>2. ASSUME NEW t \in Tick, NEW v \in Video, GetDelKey(t, v) PROVE AddUp
  <2>1. pending' = [pending EXCEPT ![v] = {}] /\ viewCount' = viewCount
    BY <1>2 DEF GetDelKey
  <2>2. \A w \in Video : pending'[w] \in {pending[w], {}}
    BY <1>0, <2>1 DEF TypeOK
  <2>3. \A u \in Tick, w \in Video :
          updates'[u][w] = IF u = t /\ w = v THEN updates[t][v] \union pending[v]
                           ELSE updates[u][w]
    BY <1>0, <1>2 DEF GetDelKey, TypeOK
  <2>4. /\ updates[t][v] \in SUBSET View /\ pending[v] \in SUBSET View
        /\ updates[t][v] \intersect pending[v] = {}
    BY <1>0 DEF TypeOK, NoViewTwice
  <2>5. Cardinality(updates[t][v] \union pending[v])
          = Cardinality(updates[t][v]) + Cardinality(pending[v])
    BY <2>4, SizesAdd
  <2> QED BY <2>1, <2>2, <2>3, <2>5 DEF AddUp
<1>3. ASSUME NEW t \in Tick, NEW v \in Video, UpdateViewCount(t, v) PROVE AddUp
  <2>1. pending' = pending
    BY <1>3 DEF UpdateViewCount
  <2>2. \A u \in Tick, w \in Video : updates'[u][w] \in {updates[u][w], {}}
    BY <1>0, <1>3 DEF UpdateViewCount, TypeOK
  <2>3. \A w \in Video :
          viewCount'[w] # viewCount[w] =>
            w = v /\ viewCount'[w] = viewCount[w] \union updates[t][w]
    BY <1>0, <1>3 DEF UpdateViewCount, TypeOK
  <2>4. /\ viewCount[v] \in SUBSET View /\ updates[t][v] \in SUBSET View
        /\ viewCount[v] \intersect updates[t][v] = {}
    BY <1>0 DEF TypeOK, NoViewTwice
  <2>5. Cardinality(viewCount[v] \union updates[t][v])
          = Cardinality(viewCount[v]) + Cardinality(updates[t][v])
    BY <2>4, SizesAdd
  <2>6. updates[t][v] # {} /\ updates'[t][v] = {}
    BY <1>0, <1>3 DEF UpdateViewCount, TypeOK
  <2> QED BY <2>1, <2>2, <2>3, <2>5, <2>6 DEF AddUp
<1>4. ASSUME NEW v \in Video, RemoveVideo(v) PROVE AddUp
  BY <1>0, <1>4 DEF RemoveVideo, AddUp, TypeOK
<1>5. CASE Crash
  <2>1. pending' = pending /\ viewCount' = viewCount /\ updates' = [t \in Tick |-> NoDelta]
    BY <1>5 DEF Crash
  <2>2. \A t \in Tick, v \in Video : updates'[t][v] = {}
    BY <2>1
  <2> QED BY <2>1, <2>2 DEF AddUp
<1>6. CASE UNCHANGED <<pending, updates, viewCount>>
  BY <1>6 DEF AddUp
<1>7. \/ UNCHANGED <<pending, updates, viewCount>> \/ Crash
      \/ \E r \in View : IncrPending(r)
      \/ \E t \in Tick, v \in Video : GetDelKey(t, v) \/ UpdateViewCount(t, v)
      \/ \E v \in Video : RemoveVideo(v)
  BY DEF Next, RequestStep, TickStep, ReaderStep, ClaimView, RefuseView, ExpireSeen,
         StartTick, EndScan, EndTick, ReadRow, ReadPending, EndRead
<1> QED BY <1>1, <1>2, <1>3, <1>4, <1>5, <1>6, <1>7

\* The sets of the model count as the numbers of the code: whatever overlaps,
\* INCR adds one, a scanned key adds its counter to the delta, and an update adds
\* its delta to the column.
THEOREM SetsCountAsNumbers == Spec => CountersAddUp
  BY NextAddsUp, AlwaysViewInv, PTL DEF Spec, CountersAddUp

-----------------------------------------------------------------------------
\* The way of a view.  Under ViewInv its fate is told by the place it is in.
LEMMA FateByPlace ==
  ASSUME ViewInv, NEW r \in View
  PROVE  /\ Fate(r) = "stored" <=> r \in viewCount[videoOf[r]]
         /\ Fate(r) = "dropped" <=> r \in dropped
         /\ Fate(r) = "lost" <=> r \in lost
         /\ Fate(r) = "asked" <=> request[r] # "counted"
         /\ fateBar[r] = Fate(r)
  BY RequestAssumption DEF ViewInv, TypeInv, TypeOK, PlacesInv, NoViewTwice, Counted, Fate, fateBar

\* A view in the delta of a tick is counted and nothing more.
LEMMA DeltaIsCounted ==
  ASSUME ViewInv, NEW t \in Tick, NEW v \in Video, NEW r \in updates[t][v]
  PROVE  r \in View /\ videoOf[r] = v /\ Fate(r) = "counted"
  BY DEF ViewInv, TypeInv, TypeOK, PlacesInv, NoViewTwice, Counted, Fate

\* If views go to their new fate together and no other moves, the ledger does so.
LEMMA FatesBecome ==
  ASSUME NEW S, NEW f,
         \A r \in View : Fate(r)' = IF r \in S THEN f ELSE Fate(r)
  PROVE  Ledger!Become(S, f)
<1>1. fateBar' = [r \in View |-> Fate(r)']
  BY DEF fateBar
<1>2. \A r \in View : fateBar[r] = Fate(r)
  BY DEF fateBar
<1> QED BY <1>1, <1>2 DEF Ledger!Become

LEMMA CountStep == ASSUME ViewInv, NEW r \in View, IncrPending(r) PROVE Ledger!Count(r)
<1>1. fateBar[r] = "asked"
  BY FateByPlace DEF IncrPending
<1>2. \A q \in View : request'[q] = IF q = r THEN "counted" ELSE request[q]
  BY DEF IncrPending, ViewInv, TypeInv, TypeOK
<1>3. UNCHANGED <<viewCount, dropped, lost>>
  BY DEF IncrPending
<1>4. r \notin viewCount[videoOf[r]] /\ r \notin dropped /\ r \notin lost
  BY FateByPlace, <1>1
<1>5. \A q \in View : Fate(q)' = IF q \in {r} THEN "counted" ELSE Fate(q)
  BY <1>2, <1>3, <1>4 DEF Fate
<1>6. UNCHANGED <<rows, crashes>>
  BY DEF IncrPending
<1> QED BY <1>1, <1>5, <1>6, FatesBecome DEF Ledger!Count

LEMMA UpdateStep ==
  ASSUME ViewInv, NEW t \in Tick, NEW v \in Video, UpdateViewCount(t, v)
  PROVE  Ledger!Store(v) \/ Ledger!Drop(v)
<1> DEFINE S == updates[t][v]
<1>1. S \in SUBSET Ledger!ViewsOf(v, "counted")
  <2> SUFFICES ASSUME NEW r \in S PROVE r \in Ledger!ViewsOf(v, "counted")
    OBVIOUS
  <2> QED BY DeltaIsCounted, FateByPlace DEF Ledger!ViewsOf
<1>2. UNCHANGED <<rows, crashes, request, lost>>
  BY DEF UpdateViewCount
<1>3. \A r \in View : r \in S => videoOf[r] = v /\ Fate(r) = "counted"
  BY DeltaIsCounted
<1>4. CASE v \in rows
  <2>1. viewCount' = [viewCount EXCEPT ![v] = viewCount[v] \union S] /\ dropped' = dropped
    BY <1>4 DEF UpdateViewCount
  <2>2. \A w \in Video : viewCount'[w] = IF w = v THEN viewCount[v] \union S ELSE viewCount[w]
    BY <2>1 DEF ViewInv, TypeInv, TypeOK
  <2>3. \A r \in View : Fate(r)' = IF r \in S THEN "stored" ELSE Fate(r)
    <3> SUFFICES ASSUME NEW r \in View PROVE Fate(r)' = IF r \in S THEN "stored" ELSE Fate(r)
      OBVIOUS
    <3>1. videoOf[r] \in Video
      BY RequestAssumption
    <3>2. r \in viewCount'[videoOf[r]] <=> r \in viewCount[videoOf[r]] \/ r \in S
      BY <1>3, <2>2, <3>1
    <3> QED BY <1>2, <2>1, <3>2 DEF Fate
  <2>4. Ledger!Become(S, "stored")
    BY <2>3, FatesBecome
  <2> QED BY <1>1, <1>2, <1>4, <2>4 DEF Ledger!Store
<1>5. CASE v \notin rows
  <2>1. viewCount' = viewCount /\ dropped' = dropped \union S
    BY <1>5 DEF UpdateViewCount
  <2>2. \A r \in View : Fate(r)' = IF r \in S THEN "dropped" ELSE Fate(r)
    BY <1>2, <1>3, <2>1 DEF Fate
  <2>3. Ledger!Become(S, "dropped")
    BY <2>2, FatesBecome
  <2> QED BY <1>1, <1>2, <1>5, <2>3 DEF Ledger!Drop
<1> QED BY <1>4, <1>5

LEMMA DieStep == ASSUME ViewInv, Crash PROVE Ledger!Die
<1> DEFINE S == UNION {updates[t][v] : t \in Tick, v \in Video}
<1>1. \A r \in S : r \in View /\ Fate(r) = "counted"
  <2> SUFFICES ASSUME NEW t \in Tick, NEW v \in Video, NEW r \in updates[t][v]
               PROVE  r \in View /\ Fate(r) = "counted"
    OBVIOUS
  <2> QED BY DeltaIsCounted
<1>2. S \in SUBSET {r \in View : fateBar[r] = "counted"}
  BY <1>1, FateByPlace
<1>3. /\ viewCount' = viewCount /\ dropped' = dropped /\ rows' = rows
      /\ crashes' = crashes + 1 /\ lost' = lost \union S
  BY DEF Crash
<1>4. \A r \in View : request'[r] = "counted" <=> request[r] = "counted"
  BY DEF Crash, ViewInv, TypeInv, TypeOK
<1> HIDE DEF S
<1>5. \A r \in View : Fate(r)' = IF r \in S THEN "lost" ELSE Fate(r)
  BY <1>1, <1>3, <1>4 DEF Fate
<1>6. Ledger!Become(S, "lost")
  BY <1>5, FatesBecome
<1> QED BY <1>2, <1>3, <1>6 DEF Ledger!Die

LEMMA CloseStep == ASSUME ViewInv, NEW v \in Video, RemoveVideo(v) PROVE Ledger!Close(v)
<1> DEFINE S == Ledger!ViewsOf(v, "stored")
<1>1. \A r \in View : r \in S <=> videoOf[r] = v /\ r \in viewCount[v]
  BY FateByPlace DEF Ledger!ViewsOf
<1>2. /\ \A w \in Video : viewCount'[w] = IF w = v THEN {} ELSE viewCount[w]
      /\ dropped' = dropped \union viewCount[v]
      /\ UNCHANGED <<request, lost, crashes>> /\ v \in rows /\ rows' = rows \ {v}
  BY DEF RemoveVideo, ViewInv, TypeInv, TypeOK
<1>3. \A r \in View : r \in viewCount[v] => videoOf[r] = v
  BY DEF ViewInv, PlacesInv, Counted
<1> HIDE DEF S
<1>4. \A r \in View : Fate(r)' = IF r \in S THEN "dropped" ELSE Fate(r)
  <2> SUFFICES ASSUME NEW r \in View PROVE Fate(r)' = IF r \in S THEN "dropped" ELSE Fate(r)
    OBVIOUS
  <2>1. videoOf[r] \in Video
    BY RequestAssumption
  <2>2. CASE r \in S
    BY <1>1, <1>2, <2>1, <2>2 DEF Fate
  <2>3. CASE r \notin S
    <3>1. r \notin viewCount[v]
      BY <1>1, <1>3, <2>3
    <3>2. r \in viewCount'[videoOf[r]] <=> r \in viewCount[videoOf[r]]
      BY <1>2, <2>1, <3>1
    <3>3. r \in dropped' <=> r \in dropped
      BY <1>2, <3>1
    <3> QED BY <1>2, <2>3, <3>2, <3>3 DEF Fate
  <2> QED BY <2>2, <2>3
<1>5. Ledger!Become(S, "dropped")
  BY <1>4, FatesBecome
<1> QED BY <1>2, <1>5 DEF Ledger!Close, S

\* Everything else moves no view: it is in Redis or with a tick, or not counted.
LEMMA QuietStep ==
  ASSUME ViewInv, UNCHANGED <<rows, viewCount, dropped, lost, crashes>>,
         \A r \in View : request'[r] = "counted" <=> request[r] = "counted"
  PROVE  UNCHANGED Ledger!ledgerVars
<1>1. \A r \in View : Fate(r)' = Fate(r)
  BY DEF Fate
<1>2. fateBar' = fateBar
  BY <1>1 DEF fateBar
<1> QED BY <1>2 DEF Ledger!ledgerVars

LEMMA LedgerStep == ViewInv /\ [Next]_vars => [Ledger!Next]_(Ledger!ledgerVars)
<1> SUFFICES ASSUME ViewInv, [Next]_vars PROVE [Ledger!Next]_(Ledger!ledgerVars)
  OBVIOUS
<1>1. ASSUME NEW r \in View, IncrPending(r) PROVE Ledger!Next
  BY <1>1, CountStep DEF Ledger!Next
<1>2. ASSUME NEW t \in Tick, NEW v \in Video, UpdateViewCount(t, v) PROVE Ledger!Next
  BY <1>2, UpdateStep DEF Ledger!Next
<1>3. ASSUME NEW v \in Video, RemoveVideo(v) PROVE Ledger!Next
  BY <1>3, CloseStep DEF Ledger!Next
<1>4. CASE Crash
  BY <1>4, DieStep DEF Ledger!Next
<1>5. ASSUME NEW r \in View, ClaimView(r) \/ RefuseView(r)
      PROVE  UNCHANGED Ledger!ledgerVars
  <2>1. /\ UNCHANGED <<rows, viewCount, dropped, lost, crashes>>
        /\ \A q \in View : request'[q] = "counted" <=> request[q] = "counted"
    BY <1>5 DEF ClaimView, RefuseView, ViewInv, TypeInv, TypeOK
  <2> QED BY <2>1, QuietStep
<1>6. CASE UNCHANGED <<rows, viewCount, dropped, lost, crashes, request>>
  BY <1>6, QuietStep
<1>7. \/ UNCHANGED <<rows, viewCount, dropped, lost, crashes, request>> \/ Crash
      \/ \E r \in View : IncrPending(r) \/ ClaimView(r) \/ RefuseView(r)
      \/ \E t \in Tick, v \in Video : UpdateViewCount(t, v)
      \/ \E v \in Video : RemoveVideo(v)
  BY DEF Next, RequestStep, TickStep, ReaderStep, ExpireSeen, GetDelKey,
         StartTick, EndScan, EndTick, ReadRow, ReadPending, EndRead, vars
<1> QED BY <1>1, <1>2, <1>3, <1>4, <1>5, <1>6, <1>7

\* Every counted view goes its way forward once: out of Redis into the column of
\* a row that exists, or away for a missing row or a crash, and out of the column
\* with the row only.
THEOREM ViewsMoveForward == Spec => ImplementsLedger
<1>1. Init => Ledger!Init
  <2> SUFFICES ASSUME Init PROVE Ledger!Init
    OBVIOUS
  <2>1. \A r \in View : Fate(r) = "asked"
    BY RequestAssumption DEF Init, Fate, NoDelta
  <2>2. fateBar = [r \in View |-> "asked"]
    BY <2>1 DEF fateBar
  <2> QED BY <2>2 DEF Init, Ledger!Init
<1> QED BY <1>1, LedgerStep, AlwaysViewInv, PTL DEF Spec, ImplementsLedger, Ledger!Spec
=============================================================================
