---------------------------- MODULE ViewCounting ----------------------------
(***************************************************************************)
(* How VideosService counts views without a database write per view        *)
(* (docs/ARCHITECTURE.md, flow 2): incrementViewCount claims a view with   *)
(* SET NX and counts it with INCR, flushPendingViews moves the counters to *)
(* the column view_count with GETDEL and updateMany, and findOne adds the  *)
(* counter of Redis to the column.  Each awaited call is an action.        *)
(*                                                                         *)
(* A counter is modelled by the set of the views it counts: its number is  *)
(* the size of the set, INCR adds one view, and "increment: delta" adds    *)
(* the delta's views.  A view in two places at once would be counted       *)
(* twice, and a view in none would be forgotten.                           *)
(***************************************************************************)
EXTENDS Naturals, FiniteSets

CONSTANTS
  View,         \* the requests GET /videos/:id/view
  viewerOf,     \* the viewerKey (client address) of each request
  videoOf,      \* the id in the path of each request, a video or not
  Viewer,
  Video,
  Tick,         \* ticks of the flush timer that may overlap
  Reader,       \* concurrent handlers of GET /videos/:id
  None,         \* no video
  MaxExpiries,  \* bound: how often a seen key runs out
  MaxCrashes    \* bound: how often a process dies

ASSUME RequestAssumption == viewerOf \in [View -> Viewer] /\ videoOf \in [View -> Video]
ASSUME ViewAssumption == IsFiniteSet(View)
ASSUME NoneAssumption == None \notin Video
ASSUME BoundAssumption == MaxExpiries \in Nat /\ MaxCrashes \in Nat

VARIABLES
  rows,         \* the ids with a row in table videos
  viewCount,    \* column view_count, as the set of views in it
  seen,         \* keys videos:seen:<viewer>:<video>, as pairs
  pending,      \* keys videos:pending:<video>, as sets of views
  request,      \* how far each view request has come
  tick,         \* how far each tick has come
  todo,         \* the keys its scan still has to return
  updates,      \* the deltas it has taken and not yet written
  reading,      \* how far each reader has come
  dropped,      \* views whose video has no row
  lost,         \* views taken by a tick that died
  expiries,     \* how often each seen key has run out
  crashes       \* how often a process has died

vars == <<rows, viewCount, seen, pending, request, tick, todo, updates,
          reading, dropped, lost, expiries, crashes>>
ticks == <<tick, todo, updates>>

SeenKey == Viewer \X Video
seenKey(r) == <<viewerOf[r], videoOf[r]>>

NoDelta   == [v \in Video |-> {}]
NotReading ==
  [at |-> "idle", video |-> None, base |-> {}, viewsCount |-> 0]

Init ==
  /\ rows \in SUBSET Video
  /\ viewCount = NoDelta
  /\ seen = {}
  /\ pending = NoDelta
  /\ request = [r \in View |-> "idle"]
  /\ tick = [t \in Tick |-> "idle"]
  /\ todo = [t \in Tick |-> {}]
  /\ updates = [t \in Tick |-> NoDelta]
  /\ reading = [d \in Reader |-> NotReading]
  /\ dropped = {}
  /\ lost = {}
  /\ expiries = [k \in SeenKey |-> 0]
  /\ crashes = 0

\* The views of a video that were answered with counted: true.
Counted(v) == {r \in View : videoOf[r] = v /\ request[r] = "counted"}

(***************************************************************************)
(* incrementViewCount                                                      *)
(***************************************************************************)

\* SET without NX answers OK to everybody (not part of Next).
ClaimAlways(r) ==
  /\ request[r] = "idle"
  /\ seen' = seen \union {seenKey(r)}
  /\ request' = [request EXCEPT ![r] = "claimed"]
  /\ UNCHANGED <<rows, viewCount, pending, ticks, reading, dropped, lost, expiries, crashes>>

\* SET seen NX EX 1800 answers OK: this viewer is the first in the window.
\* Nobody looks whether the video exists.
ClaimView(r) ==
  /\ request[r] = "idle"
  /\ seenKey(r) \notin seen
  /\ seen' = seen \union {seenKey(r)}
  /\ request' = [request EXCEPT ![r] = "claimed"]
  /\ UNCHANGED <<rows, viewCount, pending, ticks, reading, dropped, lost, expiries, crashes>>

\* SET NX answers null: counted is false.
RefuseView(r) ==
  /\ request[r] = "idle"
  /\ seenKey(r) \in seen
  /\ request' = [request EXCEPT ![r] = "refused"]
  /\ UNCHANGED <<rows, viewCount, seen, pending, ticks, reading, dropped, lost,
                 expiries, crashes>>

\* INCR of the pending counter, and the answer counted: true.
IncrPending(r) ==
  /\ request[r] = "claimed"
  /\ pending' = [pending EXCEPT ![videoOf[r]] = @ \union {r}]
  /\ request' = [request EXCEPT ![r] = "counted"]
  /\ UNCHANGED <<rows, viewCount, seen, ticks, reading, dropped, lost, expiries, crashes>>

\* The 30 minutes of a seen key are over.
ExpireSeen(k) ==
  /\ k \in seen
  /\ expiries[k] < MaxExpiries
  /\ seen' = seen \ {k}
  /\ expiries' = [expiries EXCEPT ![k] = @ + 1]
  /\ UNCHANGED <<rows, viewCount, pending, request, ticks, reading, dropped, lost, crashes>>

(***************************************************************************)
(* flushPendingViews                                                       *)
(***************************************************************************)

\* The timer fires, whether or not the tick before has ended, and the scan
\* begins.  SCAN promises the keys that are there from its beginning to its end.
StartTick(t) ==
  /\ tick[t] = "idle"
  /\ tick' = [tick EXCEPT ![t] = "scanning"]
  /\ todo' = [todo EXCEPT ![t] = {v \in Video : pending[v] # {}}]
  /\ UNCHANGED <<rows, viewCount, seen, pending, request, updates, reading,
                 dropped, lost, expiries, crashes>>

\* The counter is read and stays (not part of Next).
GetKey(t, v) ==
  /\ tick[t] = "scanning"
  /\ v \in todo[t]
  /\ todo' = [todo EXCEPT ![t] = @ \ {v}]
  /\ updates' = [updates EXCEPT ![t][v] = @ \union pending[v]]
  /\ UNCHANGED <<rows, viewCount, seen, pending, request, tick, reading,
                 dropped, lost, expiries, crashes>>

\* The scan returns a key, which GETDEL reads and deletes in one step.  The
\* counter may be gone by now: the delta is 0 and there is no update.
GetDelKey(t, v) ==
  /\ tick[t] = "scanning"
  /\ v \in todo[t] \/ pending[v] # {}
  /\ todo' = [todo EXCEPT ![t] = @ \ {v}]
  /\ updates' = [updates EXCEPT ![t][v] = @ \union pending[v]]
  /\ pending' = [pending EXCEPT ![v] = {}]
  /\ UNCHANGED <<rows, viewCount, seen, request, tick, reading, dropped, lost,
                 expiries, crashes>>

\* The early return is taken with updates to send (not part of Next).
EndScanReturn(t) ==
  /\ tick[t] = "scanning"
  /\ todo[t] = {}
  /\ tick' = [tick EXCEPT ![t] = "idle"]
  /\ updates' = [updates EXCEPT ![t] = NoDelta]
  /\ UNCHANGED <<rows, viewCount, seen, pending, request, todo, reading,
                 dropped, lost, expiries, crashes>>

\* The stream ends, and Promise.all sends the updates.
EndScan(t) ==
  /\ tick[t] = "scanning"
  /\ todo[t] = {}
  /\ tick' = [tick EXCEPT ![t] = "writing"]
  /\ UNCHANGED <<rows, viewCount, seen, pending, request, todo, updates,
                 reading, dropped, lost, expiries, crashes>>

\* The column is set to the delta instead of incremented (not part of Next).
SetViewCount(t, v) ==
  /\ tick[t] = "writing"
  /\ updates[t][v] # {}
  /\ viewCount' = [viewCount EXCEPT ![v] = updates[t][v]]
  /\ updates' = [updates EXCEPT ![t][v] = {}]
  /\ UNCHANGED <<rows, seen, pending, request, tick, todo, reading, dropped,
                 lost, expiries, crashes>>

\* updateMany increments the column of the row, or matches no row.
UpdateViewCount(t, v) ==
  /\ tick[t] = "writing"
  /\ updates[t][v] # {}
  /\ \/ /\ v \in rows
        /\ viewCount' = [viewCount EXCEPT ![v] = @ \union updates[t][v]]
        /\ UNCHANGED dropped
     \/ /\ v \notin rows
        /\ dropped' = dropped \union updates[t][v]
        /\ UNCHANGED viewCount
  /\ updates' = [updates EXCEPT ![t][v] = {}]
  /\ UNCHANGED <<rows, seen, pending, request, tick, todo, reading, lost,
                 expiries, crashes>>

\* All updates are done, and the tick ends with the deletion of videos:hot.
EndTick(t) ==
  /\ tick[t] = "writing"
  /\ updates[t] = NoDelta
  /\ tick' = [tick EXCEPT ![t] = "idle"]
  /\ UNCHANGED <<rows, viewCount, seen, pending, request, todo, updates,
                 reading, dropped, lost, expiries, crashes>>

\* The process with the flush timer dies, by itself or because an update
\* rejects and nobody handles the rejection: what its ticks had taken from
\* Redis is in no place any more.  Some view requests are cut off with it
\* between SET and INCR, and their viewers are refused until the key runs out.
Crash ==
  /\ crashes < MaxCrashes
  /\ crashes' = crashes + 1
  /\ lost' = lost \union UNION {updates[t][v] : t \in Tick, v \in Video}
  /\ tick' = [t \in Tick |-> "idle"]
  /\ todo' = [t \in Tick |-> {}]
  /\ updates' = [t \in Tick |-> NoDelta]
  /\ \E cut \in SUBSET {r \in View : request[r] = "claimed"} :
       request' = [r \in View |-> IF r \in cut THEN "cut" ELSE request[r]]
  /\ UNCHANGED <<rows, viewCount, seen, pending, reading, dropped, expiries>>

(***************************************************************************)
(* findOne and remove                                                      *)
(***************************************************************************)

\* prisma.video.findUnique found the row.
ReadRow(d, v) ==
  /\ reading[d].at = "idle"
  /\ v \in rows
  /\ reading' = [reading EXCEPT ![d] =
       [at |-> "row", video |-> v, base |-> viewCount[v], viewsCount |-> 0]]
  /\ UNCHANGED <<rows, viewCount, seen, pending, request, ticks, dropped, lost,
                 expiries, crashes>>

\* GET of the pending counter, and the answer viewCount + pending.
ReadPending(d) ==
  LET v == reading[d].video IN
  /\ reading[d].at = "row"
  /\ reading' = [reading EXCEPT
       ![d].at = "answered",
       ![d].viewsCount = Cardinality(reading[d].base) + Cardinality(pending[v])]
  /\ UNCHANGED <<rows, viewCount, seen, pending, request, ticks, dropped, lost,
                 expiries, crashes>>

\* The answer is sent; the reader may read again.
EndRead(d) ==
  /\ reading[d].at = "answered"
  /\ reading' = [reading EXCEPT ![d] = NotReading]
  /\ UNCHANGED <<rows, viewCount, seen, pending, request, ticks, dropped, lost,
                 expiries, crashes>>

\* VideosService.remove deletes the row and leaves the keys in Redis.
RemoveVideo(v) ==
  /\ v \in rows
  /\ rows' = rows \ {v}
  /\ dropped' = dropped \union viewCount[v]
  /\ viewCount' = [viewCount EXCEPT ![v] = {}]
  /\ UNCHANGED <<seen, pending, request, ticks, reading, lost, expiries, crashes>>

-----------------------------------------------------------------------------
RequestStep(r) == ClaimView(r) \/ RefuseView(r) \/ IncrPending(r)
TickStep(t) == EndScan(t) \/ EndTick(t)
                 \/ \E v \in Video : GetDelKey(t, v) \/ UpdateViewCount(t, v)
ReaderStep(d) == ReadPending(d) \/ EndRead(d) \/ \E v \in Video : ReadRow(d, v)

Next ==
  \/ \E r \in View : RequestStep(r)
  \/ \E k \in SeenKey : ExpireSeen(k)
  \/ \E t \in Tick : StartTick(t) \/ TickStep(t)
  \/ \E d \in Reader : ReaderStep(d)
  \/ \E v \in Video : RemoveVideo(v)
  \/ Crash

Spec == Init /\ [][Next]_vars

\* The timer keeps firing and a tick that started goes on.  Scans end because
\* a key is returned at most once more after it was taken.
FairSpec ==
  /\ Spec
  /\ \A t \in Tick : WF_vars(StartTick(t)) /\ WF_vars(TickStep(t))

(***************************************************************************)
(* Properties                                                              *)
(***************************************************************************)
TickAt    == {"idle", "scanning", "writing"}
ReadAt    == {"idle", "row", "answered"}
RequestAt == {"idle", "claimed", "counted", "refused", "cut"}

\* Type invariant.  A tick that has ended holds nothing: every delta it took
\* from Redis has been written by then.
TypeOK ==
  /\ rows \subseteq Video
  /\ viewCount \in [Video -> SUBSET View]
  /\ seen \subseteq SeenKey
  /\ pending \in [Video -> SUBSET View]
  /\ request \in [View -> RequestAt]
  /\ tick \in [Tick -> TickAt]
  /\ todo \in [Tick -> SUBSET Video]
  /\ updates \in [Tick -> [Video -> SUBSET View]]
  /\ \A t \in Tick : tick[t] = "idle" => todo[t] = {} /\ updates[t] = NoDelta
  /\ reading \in [Reader -> [at : ReadAt, video : Video \union {None},
                             base : SUBSET View, viewsCount : Nat]]
  /\ dropped \subseteq View
  /\ lost \subseteq View
  /\ expiries \in [SeenKey -> 0..MaxExpiries]
  /\ crashes \in 0..MaxCrashes

\* A view is in at most one of: the counter in Redis, the delta of one tick,
\* the column, the views without a row, the views lost.  So no view is ever
\* counted twice, although ticks overlap and each moves views by two calls.
NoViewTwice ==
  /\ \A v \in Video :
       /\ pending[v] \intersect (viewCount[v] \union dropped \union lost) = {}
       /\ viewCount[v] \intersect (dropped \union lost) = {}
       /\ \A t \in Tick :
            updates[t][v] \intersect
              (pending[v] \union viewCount[v] \union dropped \union lost) = {}
       /\ \A t, u \in Tick :
            t # u => updates[t][v] \intersect updates[u][v] = {}
  /\ dropped \intersect lost = {}

\* A view that was answered with counted: true is in one of the places, and
\* in its own video's: neither overlapping ticks nor a view counted during a
\* flush make a view disappear, and views are lost only when a process dies.
NoViewForgotten ==
  /\ crashes = 0 => lost = {}
  /\ \A r \in View :
       request[r] = "counted" =>
         \/ r \in pending[videoOf[r]] \union viewCount[videoOf[r]]
         \/ r \in dropped \union lost
         \/ \E t \in Tick : r \in updates[t][videoOf[r]]

\* Each life of a seen key, those that ran out and the one that goes on, has let
\* exactly one view pass: it is counted, on its way, or was cut off before INCR
\* by a process that died.  So nobody counts twice in the window, and nobody is
\* refused without such a view.
Passed(k) == {r \in View : seenKey(r) = k /\ request[r] \in {"claimed", "counted", "cut"}}
DedupeHolds ==
  \A k \in SeenKey :
    Cardinality(Passed(k)) = expiries[k] + (IF k \in seen THEN 1 ELSE 0)

\* The viewsCount that GET /videos/:id answers never exceeds the views counted
\* so far: findOne reads the row before the counter, so that a flush in between
\* hides views for a moment and never shows them twice.
NeverOvercounts ==
  \A d \in Reader :
    reading[d].at = "answered" =>
      reading[d].viewsCount <= Cardinality(Counted(reading[d].video))

\* A view that sits in Redis is flushed into the column in the end, or turns
\* out to have no row, or is lost with the process.
PendingIsFlushed ==
  \A r \in View :
    r \in pending[videoOf[r]] ~> r \in viewCount[videoOf[r]] \union dropped \union lost

\* The sets count as the numbers of the code do.  INCR adds one to the counter, a
\* key that a scan returns adds its counter to the delta, and "increment: delta"
\* adds the delta to the column; a view counted twice would add nothing to a set.
AddUp ==
  \A v \in Video :
    /\ pending'[v] \notin {pending[v], {}} =>
         Cardinality(pending'[v]) = Cardinality(pending[v]) + 1
    /\ \A t \in Tick : updates'[t][v] \notin {updates[t][v], {}} =>
         Cardinality(updates'[t][v]) = Cardinality(updates[t][v]) + Cardinality(pending[v])
    /\ viewCount'[v] \notin {viewCount[v], {}} =>
         \E t \in Tick :
           /\ updates[t][v] # {} /\ updates'[t][v] = {}
           /\ Cardinality(viewCount'[v]) = Cardinality(viewCount[v]) + Cardinality(updates[t][v])

CountersAddUp == [][AddUp]_vars

(***************************************************************************)
(* ViewCounting implements ViewLedger                                      *)
(***************************************************************************)
Fate(r) ==
  IF r \in viewCount[videoOf[r]] THEN "stored"
  ELSE IF r \in dropped THEN "dropped"
  ELSE IF r \in lost THEN "lost"
  ELSE IF request[r] = "counted" THEN "counted"
  ELSE "asked"

fateBar == [r \in View |-> Fate(r)]

Ledger == INSTANCE ViewLedger WITH open <- rows, fate <- fateBar, deaths <- crashes

\* Every view goes its way forward, once: out of Redis into the column of a row
\* that exists, and out of it with the row only, whatever ticks do at the same time.
ImplementsLedger == Ledger!Spec
=============================================================================
