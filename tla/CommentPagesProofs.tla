------------------------- MODULE CommentPagesProofs -------------------------
(***************************************************************************)
(* Proofs about CommentPages, for any number of comments, any times, ties  *)
(* among them and any size of the pages.                                   *)
(***************************************************************************)
EXTENDS CommentPages, Integers, FiniteSetTheorems, TLAPS

\* The rows that come before a comment in every listing, and their number.
Preceding(c) == {d \in rows : Before(d, c)}
Place(c) == Cardinality(Preceding(c))

\* Comments in the table have a time, and none leaves it unless it is removed.
RowsKnown ==
  /\ \A c \in met : createdAt[c] > 0
  /\ ~removed => rows = met
  /\ \A c \in Comment : received[c] > 0 => c \in met
  /\ at # "counting" => items = {}

\* The walk has not gone past a comment that was there from the start without
\* receiving it: its place is not before the current page.
NotPassed(c) ==
  \/ received[c] > 0
  \/ /\ at \in {"asking", "counting"}
     /\ skip <= Place(c)
     /\ at = "counting" => c \in items \/ skip + limit <= Place(c)

NonePassed == \A c \in start : ~removed /\ ~Tied(c) => NotPassed(c)

\* The walk has gone past every comment that it has received.
Passed(c) ==
  /\ received[c] + (IF c \in items THEN 1 ELSE 0) <= 1
  /\ at # "done" /\ c \in rows /\ received[c] > 0 => Place(c) < skip
  /\ c \in rows /\ c \in items => Place(c) < skip + limit

ReceivedPassed == met = start => \A c \in Comment : ~Tied(c) => Passed(c)

(***************************************************************************)
(* Arithmetic of pages                                                     *)
(***************************************************************************)
\* limit is at least 1, and what follows for division and multiplication.
LEMMA LimitPositive == \A l \in Limits : l \in Nat /\ l >= 1
  BY LimitAssumption

LEMMA Division ==
  ASSUME NEW a \in Nat, NEW l \in Nat, l >= 1
  PROVE  a \div l \in Nat /\ (a \div l) * l <= a /\ a < (a \div l) * l + l
  BY SMT

LEMMA NextMultiple ==
  ASSUME NEW p \in Nat, NEW l \in Nat
  PROVE  p * l \in Nat /\ (p + 1) * l = p * l + l
  BY SMT

LEMMA MultiplesGrow ==
  ASSUME NEW p \in Nat, NEW q \in Nat, NEW l \in Nat, l >= 1
  PROVE  p < q => (p + 1) * l <= q * l
  BY SMT

\* A page has room for limit rows.
LEMMA PageSize ==
  ASSUME NEW a \in Nat, NEW m \in Nat
  PROVE  IsFiniteSet((a + 1)..(a + m)) /\ Cardinality((a + 1)..(a + m)) <= m
<1> DEFINE b == a + 1
           c == a + m
<1>1. b \in Int /\ c \in Int /\ c - b + 1 = m
  OBVIOUS
<1> HIDE DEF b, c
<1>2. IsFiniteSet(b..c) /\ Cardinality(b..c) = IF b > c THEN 0 ELSE c - b + 1
  BY <1>1, FS_Interval
<1>3. IsFiniteSet(b..c) /\ Cardinality(b..c) <= m
  BY <1>1, <1>2
<1> QED BY <1>3 DEF b, c

\* PaginationQueryDto.skip and bildPageMeta agree, whatever the total: there is
\* a next page exactly if rows are left behind the rows of this one, so that no
\* page is announced that would be empty, and none is left out.
THEOREM HasNextExact ==
  ASSUME limit \in Limits, page \in Nat \ {0}, NEW total \in Nat
  PROVE  hasNext(total) <=> skip + limit < total
<1> DEFINE a == total + limit - 1
           q == a \div limit
<1>1. limit \in Nat /\ limit >= 1
  BY LimitPositive
<1>2. a \in Nat
  BY <1>1
<1>3. q \in Nat /\ q * limit <= a /\ a < q * limit + limit
  BY <1>1, <1>2, Division
<1>4. page * limit \in Nat /\ q * limit \in Nat /\ skip + limit = page * limit
  <2>1. page - 1 \in Nat /\ page = (page - 1) + 1
    OBVIOUS
  <2>2. (page - 1) * limit \in Nat /\ page * limit = (page - 1) * limit + limit
    BY <1>1, <2>1, NextMultiple
  <2> HIDE DEF q
  <2>3. q * limit \in Nat
    BY <1>1, <1>3, NextMultiple
  <2> QED BY <1>1, <2>2, <2>3 DEF skip
<1>5. hasNext(total) <=> page < q
  BY DEF hasNext, totalPages
<1> HIDE DEF q
<1>6. ASSUME page < q PROVE page * limit < total
  <2>1. (page + 1) * limit <= q * limit
    BY <1>1, <1>3, <1>6, MultiplesGrow
  <2>2. (page + 1) * limit = page * limit + limit
    BY <1>1, NextMultiple
  <2> QED BY <1>1, <1>3, <1>4, <2>1, <2>2
<1>7. ASSUME ~(page < q) PROVE ~(page * limit < total)
  <2>1. q * limit <= page * limit
    <3>1. CASE q = page
      BY <1>4, <3>1
    <3>2. CASE q < page
      <4>1. (q + 1) * limit <= page * limit
        BY <1>1, <1>3, <3>2, MultiplesGrow
      <4>2. (q + 1) * limit = q * limit + limit
        BY <1>1, <1>3, NextMultiple
      <4> QED BY <1>1, <1>4, <4>1, <4>2
    <3> QED BY <1>3, <1>7, <3>1, <3>2
  <2> QED BY <1>1, <1>3, <1>4, <2>1
<1> QED BY <1>4, <1>5, <1>6, <1>7

(***************************************************************************)
(* Listings                                                                *)
(***************************************************************************)
\* There are finitely many rows, and a row comes after fewer than all of them.
LEMMA RowsFinite ==
  ASSUME TypeOK
  PROVE  /\ IsFiniteSet(rows) /\ Cardinality(rows) \in Nat
         /\ Cardinality(rows) <= Cardinality(Comment)
         /\ Cardinality(Comment) \in Nat
<1>1. rows \subseteq Comment
  BY DEF TypeOK
<1> QED BY <1>1, CommentAssumption, FS_Subset, FS_CardinalityType

LEMMA PlaceNatural ==
  ASSUME TypeOK, NEW c
  PROVE  /\ IsFiniteSet(Preceding(c))
         /\ Place(c) \in Nat
         /\ c \in rows => Place(c) < Cardinality(rows)
<1>1. Preceding(c) \subseteq rows
  BY DEF Preceding
<1>2. IsFiniteSet(Preceding(c)) /\ Place(c) \in Nat
  BY <1>1, RowsFinite, FS_Subset, FS_CardinalityType DEF Place
<1>3. ASSUME c \in rows PROVE Place(c) < Cardinality(rows)
  <2>1. ~Before(c, c)
    BY <1>3 DEF Before, TypeOK
  <2>2. Preceding(c) \in SUBSET (rows \ {c})
    BY <2>1 DEF Preceding
  <2>3. IsFiniteSet(rows \ {c}) /\ Cardinality(rows \ {c}) = Cardinality(rows) - 1
    BY <1>3, RowsFinite, FS_RemoveElement
  <2>4. Place(c) <= Cardinality(rows \ {c})
    BY <2>2, <2>3, FS_Subset DEF Place
  <2> QED BY <1>2, <2>3, <2>4, RowsFinite
<1> QED BY <1>2, <1>3

\* Every row is in a listing.
LEMMA ListingComplete ==
  ASSUME TypeOK, NEW l \in Listings, NEW c \in rows
  PROVE  \E i \in 1..Cardinality(rows) : l[i] = c
<1> DEFINE n == Cardinality(rows)
<1>1. n \in Nat /\ IsFiniteSet(rows)
  BY RowsFinite
<1>2. l \in [1..n -> rows] /\ \A i, j \in 1..n : i < j => l[i] # l[j]
  BY DEF Listings
<1>3. l \in Injection(1..n, rows)
  <2>1. ASSUME NEW i \in 1..n, NEW j \in 1..n, l[i] = l[j] PROVE i = j
    BY <1>1, <1>2, <2>1
  <2> QED BY <1>2, <2>1 DEF Injection, IsInjective
<1>4. Cardinality(1..n) = n
  BY <1>1, FS_Interval
<1>5. l \in Surjection(1..n, rows)
  BY <1>1, <1>3, <1>4, FS_Injection
<1> QED BY <1>5 DEF Surjection

\* A comment with a time of its own has one place in all of them.
LEMMA PlaceInListing ==
  ASSUME TypeOK, NEW l \in Listings, NEW c \in rows, ~Tied(c)
  PROVE  /\ Place(c) + 1 \in 1..Cardinality(rows)
         /\ \A i \in 1..Cardinality(rows) : l[i] = c <=> i = Place(c) + 1
<1> DEFINE n == Cardinality(rows)
<1>1. n \in Nat
  BY RowsFinite
<1>2. /\ l \in [1..n -> rows]
      /\ \A i, j \in 1..n : i < j => l[i] # l[j] /\ ~Before(l[j], l[i])
  BY DEF Listings
<1>3. PICK k \in 1..n : l[k] = c
  BY ListingComplete
<1>4. \A d \in rows \ {c} : Before(d, c) \/ Before(c, d)
  BY DEF Tied, Before, TypeOK
<1>5. \A i \in 1..n : i # k => l[i] # c
  BY <1>1, <1>2, <1>3
<1> HIDE DEF n
<1>6. \A i \in 1..n : Before(l[i], c) <=> i < k
  <2> SUFFICES ASSUME NEW i \in 1..n PROVE Before(l[i], c) <=> i < k
    OBVIOUS
  <2>1. CASE i = k
    BY <1>3, <2>1 DEF Before, TypeOK
  <2>2. CASE i < k
    <3>1. ~Before(c, l[i])
      BY <1>2, <1>3, <2>2
    <3>2. l[i] \in rows \ {c}
      BY <1>2, <1>5, <2>2
    <3> QED BY <1>4, <2>2, <3>1, <3>2
  <2>3. CASE k < i
    <3>1. ~Before(l[i], c)
      BY <1>2, <1>3, <2>3
    <3> QED BY <2>3, <3>1
  <2> QED BY <1>1, <2>1, <2>2, <2>3
<1> DEFINE f == [i \in 1..(k - 1) |-> l[i]]
<1>7. f \in Bijection(1..(k - 1), Preceding(c))
  <2>1. \A i \in 1..(k - 1) : i \in 1..n /\ i < k
    BY <1>1
  <2>2. \A i \in 1..(k - 1) : l[i] \in Preceding(c)
    BY <1>2, <1>6, <2>1 DEF Preceding
  <2>3. \A i, j \in 1..(k - 1) : l[i] = l[j] => i = j
    BY <1>1, <1>2, <2>1
  <2>4. ASSUME NEW d \in Preceding(c) PROVE \E i \in 1..(k - 1) : l[i] = d
    <3>1. d \in rows /\ Before(d, c)
      BY DEF Preceding
    <3>2. PICK i \in 1..n : l[i] = d
      BY <3>1, ListingComplete DEF n
    <3>3. i < k
      BY <1>6, <3>1, <3>2
    <3> QED BY <1>1, <3>2, <3>3
  <2>5. f \in [1..(k - 1) -> Preceding(c)]
    BY <2>2
  <2>6. f \in Injection(1..(k - 1), Preceding(c))
    BY <2>3, <2>5 DEF Injection, IsInjective
  <2>7. f \in Surjection(1..(k - 1), Preceding(c))
    BY <2>4, <2>5 DEF Surjection
  <2> QED BY <2>6, <2>7 DEF Bijection
<1>8. Place(c) = k - 1
  <2>1. IsFiniteSet(1..(k - 1)) /\ Cardinality(1..(k - 1)) = k - 1
    BY <1>1, FS_Interval
  <2>2. ExistsBijection(1..(k - 1), Preceding(c))
    BY <1>7 DEF ExistsBijection
  <2> QED BY <2>1, <2>2, FS_Bijection DEF Place
<1> QED BY <1>1, <1>3, <1>5, <1>8 DEF n

LEMMA SkipNatural ==
  ASSUME TypeOK
  PROVE  skip \in Nat /\ limit \in Nat /\ limit >= 1 /\ page \in Nat \ {0}
<1>1. limit \in Nat /\ limit >= 1
  BY LimitPositive DEF TypeOK
<1>2. page \in Nat \ {0} /\ page - 1 \in Nat
  BY RowsFinite DEF TypeOK
<1> QED BY <1>1, <1>2, NextMultiple DEF skip

\* What findMany answers of the comments with a time of their own.
LEMMA ItemsByPlace ==
  ASSUME TypeOK, findMany, NEW c \in Comment, ~Tied(c)
  PROVE  c \in items' <=> c \in rows /\ skip <= Place(c) /\ Place(c) < skip + limit
<1> DEFINE n == Cardinality(rows)
<1>1. PICK l \in Listings :
        items' = {l[i] : i \in {i \in DOMAIN l : skip < i /\ i <= skip + limit}}
  BY DEF findMany
<1>2. DOMAIN l = 1..n /\ l \in [1..n -> rows] /\ n \in Nat
  BY RowsFinite DEF Listings
<1>3. c \in items' <=> \E i \in 1..n : skip < i /\ i <= skip + limit /\ l[i] = c
  BY <1>1, <1>2
<1>4. CASE c \notin rows
  BY <1>2, <1>3, <1>4
<1>5. CASE c \in rows
  <2>1. /\ Place(c) + 1 \in 1..n
        /\ \A i \in 1..n : l[i] = c <=> i = Place(c) + 1
    BY <1>5, PlaceInListing
  <2>2. c \in items' <=> skip < Place(c) + 1 /\ Place(c) + 1 <= skip + limit
    BY <1>3, <2>1
  <2> QED BY <1>5, <2>2, SkipNatural, PlaceNatural
<1> QED BY <1>4, <1>5

\* An answer has no more rows than the page.
LEMMA ItemsFit ==
  ASSUME TypeOK, findMany
  PROVE  items' \subseteq rows /\ Cardinality(items') <= limit
<1> DEFINE n == Cardinality(rows)
<1>1. PICK l \in Listings :
        items' = {l[i] : i \in {i \in DOMAIN l : skip < i /\ i <= skip + limit}}
  BY DEF findMany
<1>2. DOMAIN l = 1..n /\ l \in [1..n -> rows] /\ n \in Nat
  BY RowsFinite DEF Listings
<1> DEFINE S == {i \in DOMAIN l : skip < i /\ i <= skip + limit}
           f == [i \in S |-> l[i]]
<1>3. skip \in Nat /\ limit \in Nat
  BY SkipNatural
<1>4. IsFiniteSet(S) /\ Cardinality(S) \in Nat /\ Cardinality(S) <= limit
  <2>1. S \in SUBSET ((skip + 1)..(skip + limit))
    BY <1>2, <1>3
  <2>2. /\ IsFiniteSet((skip + 1)..(skip + limit))
        /\ Cardinality((skip + 1)..(skip + limit)) <= limit
    BY <1>3, PageSize
  <2>3. IsFiniteSet(S) /\ Cardinality(S) <= Cardinality((skip + 1)..(skip + limit))
    BY <2>1, <2>2, FS_Subset
  <2>4. Cardinality(S) \in Nat /\ Cardinality((skip + 1)..(skip + limit)) \in Nat
    BY <2>2, <2>3, FS_CardinalityType
  <2> HIDE DEF S
  <2> QED BY <1>3, <2>2, <2>3, <2>4
<1>5. items' = {l[i] : i \in S}
  BY <1>1
<1>6. items' \subseteq rows
  BY <1>1, <1>2
<1> HIDE DEF S
<1>7. f \in Surjection(S, items')
  BY <1>5 DEF Surjection
<1>8. IsFiniteSet(items') /\ Cardinality(items') <= Cardinality(S)
  BY <1>4, <1>7, FS_Surjection
<1>9. Cardinality(items') \in Nat
  BY <1>8, FS_CardinalityType
<1> QED BY <1>3, <1>4, <1>6, <1>8, <1>9

(***************************************************************************)
(* The invariant                                                           *)
(***************************************************************************)
IInv == TypeOK /\ RowsKnown /\ NonePassed /\ ReceivedPassed

LEMMA InitIInv == Init => IInv
<1> SUFFICES ASSUME Init PROVE IInv
  OBVIOUS
<1>1. Cardinality(Comment) \in Nat \ {0}
  BY CommentAssumption, FS_CardinalityType, FS_EmptySet
<1>2. Cardinality(items) = 0 /\ limit \in Nat /\ 0 <= limit
  BY FS_EmptySet, LimitPositive DEF Init
<1>3. TypeOK
  <2>1. page \in 1..Cardinality(Comment)
    BY <1>1 DEF Init
  <2> QED BY <1>2, <2>1 DEF Init, TypeOK
<1>4. RowsKnown
  BY DEF Init, RowsKnown
<1>5. skip = 0
  BY <1>2 DEF Init, skip
<1>6. NonePassed
  <2>1. \A c \in start : Place(c) \in Nat
    BY <1>3, PlaceNatural
  <2> QED BY <1>5, <2>1 DEF Init, NonePassed, NotPassed
<1>7. ReceivedPassed
  BY DEF Init, ReceivedPassed, Passed
<1> QED BY <1>3, <1>4, <1>6, <1>7 DEF IInv

\* Requests do not move comments.
LEMMA TableKept ==
  ASSUME UNCHANGED <<rows, createdAt, order, start, met, removed>>
  PROVE  \A c : Place(c)' = Place(c) /\ Tied(c)' = Tied(c)
<1> SUFFICES ASSUME NEW c PROVE Place(c)' = Place(c) /\ Tied(c)' = Tied(c)
  OBVIOUS
<1>1. Preceding(c)' = Preceding(c)
  BY DEF Preceding, Before
<1>2. Tied(c)' = Tied(c)
  BY DEF Tied
<1> QED BY <1>1, <1>2 DEF Place

LEMMA StutterKeeps == IInv /\ UNCHANGED vars => IInv'
<1> SUFFICES ASSUME IInv, UNCHANGED vars PROVE IInv'
  OBVIOUS
<1> USE DEF vars, request
<1>1. \A c : Place(c)' = Place(c) /\ Tied(c)' = Tied(c)
  BY TableKept
<1>2. skip' = skip
  BY DEF skip
<1>3. TypeOK' /\ RowsKnown'
  BY DEF IInv, TypeOK, RowsKnown
<1>4. NonePassed'
  BY <1>1, <1>2 DEF IInv, NonePassed, NotPassed
<1>5. ReceivedPassed'
  BY <1>1, <1>2 DEF IInv, ReceivedPassed, Passed
<1> QED BY <1>3, <1>4, <1>5 DEF IInv

LEMMA FindKeeps == IInv /\ findMany => IInv'
<1> SUFFICES ASSUME IInv, findMany PROVE IInv'
  OBVIOUS
<1>1. \A c : Place(c)' = Place(c) /\ Tied(c)' = Tied(c)
  BY TableKept DEF findMany
<1>2. skip' = skip /\ skip \in Nat /\ limit \in Nat
  BY SkipNatural DEF findMany, skip, IInv
<1>3. TypeOK
  BY DEF IInv
<1>4. TypeOK'
  BY <1>3, ItemsFit DEF findMany, TypeOK
<1>5. RowsKnown'
  BY DEF findMany, IInv, RowsKnown
<1>6. NonePassed'
  <2> SUFFICES ASSUME NEW c \in start, ~removed, ~Tied(c), ~(received[c] > 0)
               PROVE  skip <= Place(c) /\ (c \in items' \/ skip + limit <= Place(c))
    BY <1>1, <1>2 DEF findMany, NonePassed, NotPassed
  <2>1. c \in rows /\ c \in Comment
    BY <1>3 DEF IInv, RowsKnown, TypeOK
  <2>2. skip <= Place(c)
    BY DEF IInv, NonePassed, NotPassed, findMany
  <2>3. Place(c) \in Nat
    BY <1>3, PlaceNatural
  <2>4. c \in items' <=> Place(c) < skip + limit
    BY <1>3, <2>1, <2>2, ItemsByPlace
  <2> QED BY <1>2, <2>2, <2>3, <2>4
<1>7. ReceivedPassed'
  <2> SUFFICES ASSUME met = start, NEW c \in Comment, ~Tied(c) PROVE Passed(c)'
    BY <1>1 DEF findMany, ReceivedPassed
  <2>1. Passed(c) /\ items = {} /\ at = "asking"
    BY DEF IInv, ReceivedPassed, RowsKnown, findMany
  <2>2. c \in items' <=> c \in rows /\ skip <= Place(c) /\ Place(c) < skip + limit
    BY <1>3, ItemsByPlace
  <2>3. Place(c) \in Nat /\ received[c] \in Nat
    BY <1>3, PlaceNatural DEF TypeOK
  <2>4. c \in items' => received[c] = 0
    BY <1>2, <2>1, <2>2, <2>3 DEF Passed
  <2> QED BY <1>1, <1>2, <2>1, <2>2, <2>3, <2>4 DEF Passed, findMany
<1> QED BY <1>4, <1>5, <1>6, <1>7 DEF IInv

LEMMA FailureKeeps == IInv /\ RequestFails => IInv'
<1> SUFFICES ASSUME IInv, RequestFails PROVE IInv'
  OBVIOUS
<1>1. \A c : Place(c)' = Place(c) /\ Tied(c)' = Tied(c)
  BY TableKept DEF RequestFails
<1>2. skip' = skip
  BY DEF RequestFails, skip
<1>3. TypeOK'
  BY FS_EmptySet, SkipNatural DEF IInv, TypeOK, RequestFails
<1>4. RowsKnown'
  BY DEF RequestFails, IInv, RowsKnown
<1>5. NonePassed'
  BY <1>1, <1>2 DEF RequestFails, IInv, NonePassed, NotPassed
<1>6. ReceivedPassed'
  <2> SUFFICES ASSUME met = start, NEW c \in Comment, ~Tied(c) PROVE Passed(c)'
    BY <1>1 DEF RequestFails, ReceivedPassed
  <2>1. Passed(c) /\ received[c] \in Nat
    BY DEF IInv, ReceivedPassed, RequestFails, TypeOK
  <2> QED BY <1>1, <1>2, <2>1 DEF Passed, RequestFails
<1> QED BY <1>3, <1>4, <1>5, <1>6 DEF IInv

\* The next page begins where this one ends.
LEMMA SkipAdvances ==
  ASSUME TypeOK, page' = page + 1, limit' = limit
  PROVE  skip' = skip + limit
<1>1. page - 1 \in Nat /\ page = (page - 1) + 1 /\ limit \in Nat
  BY SkipNatural
<1>2. page * limit = (page - 1) * limit + limit
  BY <1>1, NextMultiple
<1> QED BY <1>1, <1>2 DEF skip

\* The end of the walk: a comment that is not passed and was not in front of
\* this page is in it, since its place is less than the total.
LEMMA CountKeeps == IInv /\ count => IInv'
<1> SUFFICES ASSUME IInv, count PROVE IInv'
  OBVIOUS
<1> DEFINE n == Cardinality(rows)
<1>1. \A c : Place(c)' = Place(c) /\ Tied(c)' = Tied(c)
  BY TableKept DEF count
<1>2. TypeOK /\ n \in Nat /\ n <= Cardinality(Comment) /\ Cardinality(Comment) \in Nat
  BY RowsFinite DEF IInv
<1>3. skip \in Nat /\ limit \in Nat /\ limit >= 1 /\ page \in Nat \ {0}
  BY <1>2, SkipNatural
<1>4. hasNext(n) <=> skip + limit < n
  BY <1>2, <1>3, HasNextExact DEF TypeOK
<1>5. \/ hasNext(n) /\ page' = page + 1 /\ at' = "asking" /\ skip' = skip + limit
      \/ ~hasNext(n) /\ page' = page /\ at' = "done"
  BY <1>2, SkipAdvances DEF count
<1>6. \A c \in Comment : /\ received[c] \in Nat
                        /\ received'[c] = received[c] + IF c \in items THEN 1 ELSE 0
  BY <1>2 DEF count, TypeOK
<1>7. at = "counting" /\ items' = {}
      /\ UNCHANGED <<rows, createdAt, order, limit, start, met, removed>>
  BY DEF count
<1>8. TypeOK'
  <2>1. page' \in 1..Cardinality(Comment)
    <3>1. CASE hasNext(n)
      <4>1. page < n
        <5>1. page - 1 \in Nat /\ skip = (page - 1) * limit
          BY <1>3 DEF skip
        <5>2. page - 1 <= (page - 1) * limit
          BY <1>3, <5>1, SMT
        <5> QED BY <1>2, <1>3, <1>4, <3>1, <5>1, <5>2
      <4> QED BY <1>2, <1>3, <1>5, <3>1, <4>1
    <3>2. CASE ~hasNext(n)
      BY <1>2, <1>5, <3>2 DEF TypeOK
    <3> QED BY <3>1, <3>2
  <2>2. received' \in [Comment -> Nat]
    BY <1>2 DEF count, TypeOK
  <2>3. Cardinality(items') <= limit'
    BY <1>3, <1>7, FS_EmptySet
  <2>4. at' \in {"asking", "counting", "done"}
    BY <1>5
  <2> QED BY <1>2, <1>7, <2>1, <2>2, <2>3, <2>4 DEF TypeOK
<1> HIDE DEF n
<1>9. RowsKnown'
  <2>1. \A c \in Comment : received'[c] > 0 => c \in met
    BY <1>2, <1>6 DEF IInv, RowsKnown, TypeOK
  <2> QED BY <1>7, <2>1 DEF IInv, RowsKnown
<1>10. NonePassed'
  <2> SUFFICES ASSUME NEW c \in start, ~removed, ~Tied(c) PROVE NotPassed(c)'
    BY <1>1, <1>7 DEF NonePassed
  <2>1. c \in rows /\ c \in Comment
    BY <1>2 DEF IInv, RowsKnown, TypeOK
  <2>2. Place(c) \in Nat /\ Place(c) < n
    BY <1>2, <2>1, PlaceNatural DEF n
  <2>3. received[c] > 0 \/ c \in items \/ skip + limit <= Place(c)
    BY <1>7 DEF IInv, NonePassed, NotPassed
  <2>4. CASE received[c] > 0 \/ c \in items
    <3>1. received'[c] > 0
      BY <1>6, <2>1, <2>4
    <3> QED BY <3>1 DEF NotPassed
  <2>5. CASE skip + limit <= Place(c)
    <3>1. hasNext(n)
      BY <1>2, <1>3, <1>4, <2>2, <2>5 DEF n
    <3> QED BY <1>1, <1>5, <2>5, <3>1 DEF NotPassed
  <2> QED BY <2>3, <2>4, <2>5
<1>11. ReceivedPassed'
  <2> SUFFICES ASSUME met = start, NEW c \in Comment, ~Tied(c) PROVE Passed(c)'
    BY <1>1, <1>7 DEF ReceivedPassed
  <2>1. Passed(c) /\ Place(c) \in Nat
    BY <1>2, PlaceNatural DEF IInv, ReceivedPassed
  <2>2. received'[c] <= 1
    BY <1>6, <2>1 DEF Passed
  <2>3. ASSUME c \in rows, received'[c] > 0 PROVE Place(c) < skip + limit
    BY <1>3, <1>6, <1>7, <2>1, <2>3 DEF Passed
  <2>4. received'[c] \in Nat
    BY <1>6
  <2> QED BY <1>1, <1>5, <1>7, <2>2, <2>3, <2>4 DEF Passed
<1> QED BY <1>8, <1>9, <1>10, <1>11 DEF IInv

\* A comment that is created moves others back, and never forward.
LEMMA CreateKeeps ==
  ASSUME IInv, NEW c \in Comment, create(c)
  PROVE  IInv'
<1> USE DEF request
<1>1. PICK t \in 1..MaxTime : createdAt' = [createdAt EXCEPT ![c] = t]
  BY DEF create
<1>2. /\ rows' = rows \union {c} /\ met' = met \union {c}
      /\ UNCHANGED <<order, limit, page, at, items, received, start, removed>>
  BY DEF create
<1>3. TypeOK /\ c \notin met /\ c \notin rows
  BY DEF create, IInv, RowsKnown, TypeOK
<1>4. \A d \in Comment : d # c => createdAt'[d] = createdAt[d]
  BY <1>1, <1>3 DEF TypeOK
<1>5. createdAt' \in [Comment -> 0..MaxTime] /\ createdAt'[c] > 0
  BY <1>1, <1>3, BoundAssumption DEF TypeOK
<1>6. TypeOK'
  BY <1>2, <1>3, <1>5 DEF TypeOK
<1>7. RowsKnown'
  BY <1>2, <1>3, <1>4, <1>5 DEF IInv, RowsKnown, TypeOK
<1>8. skip' = skip
  BY <1>2 DEF skip
<1>9. NonePassed'
  <2> SUFFICES ASSUME NEW d \in start, ~removed, ~Tied(d)' PROVE NotPassed(d)'
    BY <1>2 DEF NonePassed
  <2>1. d \in met /\ d # c /\ d \in Comment
    BY <1>3 DEF TypeOK
  <2>2. ~Tied(d)
    BY <1>2, <1>3, <1>4, <2>1 DEF Tied, TypeOK
  <2>3. NotPassed(d)
    BY <2>2 DEF IInv, NonePassed
  <2>4. Preceding(d) \subseteq Preceding(d)'
    BY <1>2, <1>3, <1>4, <2>1 DEF Preceding, Before, TypeOK
  <2>5. /\ Place(d) \in Nat
        /\ IsFiniteSet(Preceding(d)') /\ Place(d)' \in Nat
    <3>1. TypeOK => IsFiniteSet(Preceding(d)) /\ Place(d) \in Nat
      BY PlaceNatural
    <3>2. (TypeOK => IsFiniteSet(Preceding(d)) /\ Place(d) \in Nat)'
      <4>1. IsFiniteSet(rows')
        <5>1. rows' \subseteq Comment
          BY <1>6 DEF TypeOK
        <5> QED BY <5>1, CommentAssumption, FS_Subset
      <4>2. Preceding(d)' \subseteq rows'
        BY DEF Preceding
      <4> QED BY <4>1, <4>2, FS_Subset, FS_CardinalityType DEF Place
    <3> QED BY <1>3, <1>6, <3>1, <3>2
  <2>6. Place(d) <= Place(d)'
    BY <2>4, <2>5, FS_Subset DEF Place
  <2>7. skip \in Nat /\ limit \in Nat
    BY <1>3, SkipNatural
  <2> QED BY <1>2, <1>8, <2>3, <2>5, <2>6, <2>7 DEF NotPassed
<1>10. ReceivedPassed'
  <2>1. met' # start'
    BY <1>2, <1>3 DEF TypeOK
  <2> QED BY <2>1 DEF ReceivedPassed
<1> QED BY <1>6, <1>7, <1>9, <1>10 DEF IInv

\* A comment that is removed moves others forward, and never back.
LEMMA RemoveKeeps ==
  ASSUME IInv, NEW c \in Comment, remove(c)
  PROVE  IInv'
<1> USE DEF request
<1>1. /\ rows' = rows \ {c} /\ removed' = TRUE
      /\ UNCHANGED <<createdAt, order, limit, page, at, items, received, start, met>>
  BY DEF remove
<1>2. TypeOK /\ TypeOK' /\ RowsKnown'
  BY <1>1 DEF IInv, RowsKnown, TypeOK
<1>3. NonePassed'
  BY <1>1 DEF NonePassed
<1>4. ReceivedPassed'
  <2> SUFFICES ASSUME met = start, NEW d \in Comment, ~Tied(d) PROVE Passed(d)'
    BY <1>1 DEF ReceivedPassed, Tied
  <2>1. Passed(d)
    BY DEF IInv, ReceivedPassed
  <2>2. Preceding(d)' \subseteq Preceding(d)
    BY <1>1 DEF Preceding, Before
  <2>3. IsFiniteSet(Preceding(d)) /\ Place(d) \in Nat
    BY <1>2, PlaceNatural
  <2>4. Place(d)' \in Nat /\ Place(d)' <= Place(d)
    BY <2>2, <2>3, FS_Subset, FS_CardinalityType DEF Place
  <2>5. skip' = skip /\ skip \in Nat /\ limit \in Nat
    BY <1>1, <1>2, SkipNatural DEF skip
  <2> QED BY <1>1, <2>1, <2>3, <2>4, <2>5 DEF Passed
<1> QED BY <1>2, <1>3, <1>4 DEF IInv

LEMMA AlwaysIInv == Spec => []IInv
<1>1. IInv /\ [Next]_vars => IInv'
  BY StutterKeeps, FindKeeps, CountKeeps, FailureKeeps, CreateKeeps, RemoveKeeps DEF Next
<1> QED BY <1>1, InitIInv, PTL DEF Spec

(***************************************************************************)
(* The theorems                                                            *)
(***************************************************************************)

\* An answer of listForVideo has at most limit rows, and the client never asks
\* for more pages than there are comments.
THEOREM TypeCorrect == Spec => []TypeOK
<1>1. IInv => TypeOK
  BY DEF IInv
<1> QED BY <1>1, AlwaysIInv, PTL

\* A client that follows hasNext misses no comment that was there all the time,
\* in either order, with pages of any size and whatever is created meanwhile.
THEOREM NothingIsSkipped == Spec => []NothingSkipped
<1>1. IInv => NothingSkipped
  BY DEF IInv, NonePassed, NotPassed, NothingSkipped
<1> QED BY <1>1, AlwaysIInv, PTL

\* It receives no comment twice unless comments are created meanwhile, whatever
\* is removed and however often it repeats a request.
THEOREM RepeatsExplained == Spec => []RepeatedForAReason
<1>1. IInv => RepeatedForAReason
  <2> SUFFICES ASSUME IInv, met = start, NEW c \in Comment, ~Tied(c) PROVE received[c] <= 1
    BY DEF RepeatedForAReason
  <2>1. Passed(c) /\ received[c] \in Nat
    BY DEF IInv, ReceivedPassed, TypeOK
  <2> QED BY <2>1 DEF Passed
<1> QED BY <1>1, AlwaysIInv, PTL
=============================================================================
