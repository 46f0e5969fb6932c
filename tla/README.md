# A verification of video-be-new

TLA+ models of the KTVideo backend (NestJS, Prisma on PostgreSQL, Redis, MinIO,
BullMQ), checked by TLC on small instances, with theorems about them for
instances of any size, whose proofs TLAPS checks. File names below are relative
to the repository; `videos.service.ts` stands for
`src/modules/videos/videos.service.ts`, and so on.

## 1. The system

Two kinds of processes run the same modules: the API (`main.ts`) answers HTTP
requests, and the worker (`worker.ts`) takes jobs from the BullMQ queue
`video_queue`. They share a database, a Redis server and a bucket. **No service
uses a transaction over several statements** (the one exception pairs two reads),
so every `await` is a point where other requests, timers and jobs run, and where
the process may die with the earlier calls done and the later ones not. That is
where the hard behaviour of this code is, and there are no tests in the
repository that reach it.

| Component | State | Operations | Talks to |
|---|---|---|---|
| Videos (`videos.service.ts`) | table `videos`, objects `videos/<owner>/<uuid>` | create, update, remove, markReady, markFailed | storage, producer, caches |
| Queue and worker (`video.producer.ts`, `video.processor.ts`, `worker.ts`) | BullMQ jobs: state, attempts, lock, stalls | endqueueProcessing, processVideoJob | markReady, markFailed |
| View counting (`videos.service.ts`) | Redis `seen` keys and `pending` counters, column `view_count` | incrementViewCount, flushPendingViews on a timer, findOne | hot cache |
| Read caches (`videos.service.ts`, `redis.service.ts`) | Redis entries for lists and hot videos | findAll, findHot, invalidateListCaches | table `videos` |
| Comments (`comments.service.ts`) | table `comments` with two cascades | create, listForVideo, update, remove | table `videos` |
| Sessions (`auth.service.ts`, `users.service.ts`) | table `refesh_tokens`, column `password_hash` | register, login, refesh, logout, changePassword | cookies of the client |
| Avatars (`users.service.ts`, `storage.service.ts`) | column `avata_url`, objects `avatars/<user>/<uuid>` | updateAvatar | storage |
| Storage (`storage.service.ts`) | the bucket | uploadFile, remove, urlFor, keyFromUrl | MinIO |
| Pagination (`paginnation.dto.ts`) | none | skip, bildPageMeta | findAll, listForVideo |
| Request pipeline (`app.module.ts`, controllers, guards, filter, interceptor) | the requests that run, and the call each awaits | guards, pipe, handlers call by call, status of exceptions | every service |
| Health (`app.controller.ts`) | none | health, ready | database, Redis |
| Start and seed (`docker-entrypoint.sh`, `seed.ts`, `main.ts`, `env.validation.ts`, `storage.service.ts`) | how far each container has come; sample rows; the bucket and its policy | migrate, seed, validateEnv, connect, create and open the bucket | database, MinIO |

What makes each part correct, and what is hard about it:

- **Videos and worker.** Row, object and job are three stores written one after
  the other. A row must never lead to a missing object, an object or a row must
  not be forgotten, a status must be final once nobody works on the video, and it
  must agree with the job. Against it: deletion during the upload, deletion under
  the worker, retries, locks that lapse while the processor runs on, workers that
  die with several jobs, cut-off handlers, and a storage error that is swallowed.
- **Views.** A view moves from request to counter to tick to column in four calls;
  it must be counted once and not be forgotten. Against it: ticks that overlap
  (the interval does not wait), views during a flush, videos without a row, a
  crash between GETDEL and the update, a reader between the two reads of findOne.
- **Caches.** An entry must not stay stale, nor answer another query. Against it: invalidations that nobody
  awaits, that are lost, or that overtake a slow reader; a pattern and keys built
  in different places.
- **Comments.** The parent is checked long before the reply is inserted; threads
  must stay flat and within a video, and a deletion must take its thread only.
- **Sessions.** A refresh reads, revokes and issues by three calls, a change of
  password updates and revokes by two; rotation, logout and the change must hold
  for requests that overlap and for calls that never come. The token travels in
  a cookie, and the answers that set it come late, in another order or never.
- **Avatars.** Upload, row and removal of the old picture; the key to remove is
  computed back from the URL.
- **Requests.** A handler checks first and writes later, and what it checked may be
  gone by then. What it throws becomes a status in one filter: a lost race must
  not look like a failure of the server, a refusal must not leave half of the work
  behind, and an outage of Redis must not hold up requests that do not need it.
- **Start.** Every container migrates, seeds and prepares the bucket when it starts,
  next to the others, and may die at any call. A start must not fail half-way for
  good, and sample data must not come twice.
- **Pages.** Rows move between pages while a client walks over them, ties in the
  order are broken anew by each statement, and rows and total have two snapshots.

## 2. Modules

Each component has a module with its state, one action per awaited call, and its
properties; `MC<module>` holds the instances for TLC; `<module>Proofs` holds the
inductive invariant and the theorems (`ServerProofs` those of `Startup` and
`Requests`, `SessionsProofs` those of `BrowserSessions` as well). The word "history" in a declaration marks
variables that only properties read. Definitions that end in "(not part of Next)"
are mutated forms of the definition after them, kept to show that the
properties notice a plausible bug there.

### VideoPromise, VideoLifecycle

`VideoPromise` is what a client of `GET /videos/:id` may rely on: a video is
published as PROCESSING, is settled (READY or FAILED) as long as it is open,
is closed, is removed, and never comes back. `VideoLifecycle` is the code: an
upload draws both the row id and the object key, which never repeat, so one value
`v` stands for both.

| In the model | In the code |
|---|---|
| `status`, `owner`, `playbackUrl` | the row of `videos` |
| `bucket` | objects in MinIO |
| `creating[v]` | how far `create` has come: `UploadFile`, `CreateVideo`, `EndqueueProcessing`, or `CreateInterrupted` |
| `removing[d]` | how far a `remove` handler has come: `FindVideo` (assertOwnerOrAdmin), `DeleteVideo` / `DeleteMissing` (P2025), `RemoveObject` / `RemoveObjectFails` (the swallowed error) |
| `running[s]` | a job slot in `processVideoJob`: `MarkReady`, `ProcessThrows`, `MarkFailed` / `...Missing` / `...Rejected`, then BullMQ's `CompleteJob` / `FailJob` |
| `job[v]` | BullMQ's record; `FetchJob`, `PromoteDelayed`, `LockLost`, `RequeueStalled`, `WorkerCrash` are external and follow from how `worker.ts` uses the library |
| `faults` | how often each kind of fault has happened, bounded by `FaultBudget` |

A slot whose lock has lapsed runs on, as the real processor does, and its
completion or failure is refused by BullMQ. The refinement mapping reads the phase
off `creating` and `status`, and a video is open while create has yet to add the
job, the job waits, runs or is delayed, or a slot runs it.

### ViewLedger, ViewCounting

`ViewLedger` is what becomes of a counted view: it enters the column of a video that
exists, or its video turns out to have no row, or it is lost when a process dies, once
and for good; out of the column it goes with the row only.
Views are individuals: the counter, a tick's delta and the column are *sets* of
views, and numbers are their sizes. That makes "counted twice" and "forgotten"
visible, and `CountersAddUp` checks that the sets count as the numbers do. `ClaimView`/`RefuseView` is SET NX, `IncrPending` INCR, `StartTick`,
`GetDelKey`, `EndScan`, `UpdateViewCount`, `EndTick` one tick of
flushPendingViews, any number of which overlap; `ReadRow`, `ReadPending` findOne.
An update that rejects is a `Crash`: nobody handles the rejection of the
timer's promise, and Node ends the process. SCAN promises only the keys that are
there from its start to its end (`todo`); it may return others.

### VideoCache

Contents are versions, the number of changes that the table has seen. A reader
misses (`findAll`, `findHot`), reads (`ReadTable`) and fills (`setJson`) by separate
steps; `ChangeVideos`, `MarkFailed` and `FlushViews` are the three kinds of change
with the invalidations each really starts; `ScanLists` and `DeleteHot` carry them
out some time, or `InvalidationLost` ends them. Keys are sequences of tokens, built
and matched as in the code, so that a pattern that matches nothing does so in the
model. An entry carries the query that it answers, which the code does not store:
that is how the model sees two queries that share a key. Page, limit, order and
sortBy, which the pipe checks and which have no colons, are one token; the status is a
member of an enumeration (`ValidAssumption`). `search` and `ownerId`, of which the pipe
asks no more than that they are strings, are any sequences of tokens, colons included.

### CommentBoard, Comments, CommentPages

`CommentBoard` is what users may rely on: a request that was found in order takes
effect in one step, on a video and a thread that are there and for a user who may do
it, or is refused because it cannot take effect; a deletion takes the whole thread.
`Comments` has create with its two reads before the insert, update and remove with
the check apart from the write, and the cascades of `schema.prisma` (`Cascade`, the
smallest set closed under replies). The foreign keys are enforced at the insert
(`ReferencesExist`), as PostgreSQL does. Its mapping to `CommentBoard` reads the
request off how far the handler has come: `FindVideo`, `FindForUpdate` and
`FindForRemove` ask, the second calls answer, `ResolveParent` is not seen.
A reply whose parent is deleted after it was resolved to its root joins the
thread all the same, which is why a request names the video and not the parent.

`CommentPages` has one client that follows
`hasNext` over the pages of listForVideo while comments come and go; ORDER BY
created_at alone leaves ties open, so `findMany` may take any of the `Listings`.

### Sessions, BrowserSessions

Tokens are rows; `from` tells which token each was exchanged for. `FindStored`,
`RevokeStored`, `IssueTokens` are refesh, `FindForChange`, `UpdatePassword`,
`EndSessions` changePassword, and `Interrupt` cuts a handler off anywhere.
Passwords are compared by what bcrypt keeps of them (`significant`, 72 bytes).

`BrowserSessions` extends it with AuthController: each browser has a cookie, each
handler works for a browser (`client`), and answers that set or clear the cookie
are under way (`answers`) until they arrive in any order (`Receive`) or are lost
(`Lose`). Its actions are those of `Sessions` with what the controller adds.
`MCSessions` explores both in one run: clients that use any token at any time,
without browsers, and browsers whose user changes the password before the first
token only (`browsing` tells which).

### Avatar

Keys and URLs are sequences of segments; `urlFor`, `keyFromUrl` (the split at
"/bucket/") and MinIO's resolution of a path are modelled by what they do to the
segments. The removal of the old picture is not awaited and is carried out any
time later (`remove`) or never (`RemovalLost`). The module's specification is called
`AvatarSpec`, its type invariant `AvatarTypeOK` and so on, since `MCServer` runs it next
to two others.

### Requests

A route (`AuthController`, `VideosController`, ...) is its handler's list of calls in
the order of the code: which table or service, which status it throws if the row is
missing or is not the caller's, and which rows an insert refers to. A request is
admitted by the guards (`Admit`) or refused by them or by the pipe (`Refuse`), performs
one call per step (`Perform`) and ends with an answer (`Respond`), an exception of its
own (`Throw`) or the failure of a dependency (`DependencyFails`); `catch` and
`mapPrismaError` are the filter. `rows` has one row of each table, the one that the
requests race for. `RedisGoes` takes Redis away and brings it back; a command waits
meanwhile, since `maxRetriesPerRequest` is null.

### Startup

`at[p]` is how far container `p` has come in docker-entrypoint.sh (`MigrateDeploy`), seed.ts
(`Upsert`, `Count`, `CreateSamples`; `SeedFails` for the `|| true`), `validateEnv`, `Connect`
and StorageService.onModuleInit (`BucketExists`, `MakeBucket`, `SetBucketPolicy`). `Down`
ends a start or a process at any step, and users delete and upload videos in between.

`MCServer` extends `Startup`, `Requests` and `Avatar` and runs them in one instance. They
share no variable: starts are explored without requests, and requests and changes of
avatars while the containers are up, so that the three state spaces are added.

## 3. What TLC checks

| Run | Instance | What it shows |
|---|---|---|
| `lifecycle_safety` | 2 uploads, 1 remover, 1 worker with 2 slots, 2 attempts, one fault of each of the 5 kinds (704 k states) | `TypeOK`, `NoDanglingOriginal`, `OrphansAreCounted`, `PlayableWhenReady`, `VerdictMatchesJob`, `ProcessingIsPending`, and `ImplementsPromise`, the refinement |
| `lifecycle_liveness` | 2 uploads, 2 removers, 1 slot, 1 dead worker (54 k) | `EveryUploadIsJudged`, `DeletedOriginalGoes`, `EveryJobRests` |
| `lifecycle_failed_early` | 1 upload, 3 attempts, no fault | finding: FAILED is shown after the first attempt |
| `views` | 3 requests of 2 viewers, 2 ticks, 1 expiry, 1 crash; for 2 videos without a reader, or for 1 video with one (147 k) | `NoViewTwice`, `NoViewForgotten`, `DedupeHolds`, `NeverOvercounts`, `CountersAddUp`, `PendingIsFlushed`, and `ImplementsLedger`, the refinement |
| `comments` | 3 comments, 2 videos, an author and an administrator, 2 handlers; one text too short for `create`, one, all tags, too long for `update` (1.3 M) | `ThreadsAreFlat`, `EveryCommentListed`, `DeletionTakesThread`, `EditsAreAuthorised`, and `ImplementsBoard`, the refinement |
| `comment_pages` | 4 comments, 4 times, limit 1 or 2 (1.3 M) | `NothingSkipped`, `RepeatedForAReason` |
| `sessions` | 1 user, 3 passwords, 3 tokens, 2 handlers; free clients, or 1 browser (1.6 M) | `LiveIsUnspent`, `ForksOverlap`, `RevokedForAReason`, `OldPasswordEnds`, `CookieSpentForAReason`, `LogoutEndsSession` |
| `cache` | hot list and one other with 2 readers, or four others with 1 reader: two pages of a search for "intro:READY", and one for "intro" with status "READY", without an ownerId and with ":", which shares the key of the first; 2 changes (359 k) | `HotStaleForAReason`, `MixedByOwnersOnly`, `CachesCatchUp` |
| `cache_shared_key` | the same with 1 change | finding: two queries share a key, and one gets the cached answer of the other (`AnswersFitQueries`) |
| `cache_list_stale` | 1 reader, 1 change | finding: the invalidation pattern matches no list key |
| `avatar_compose` | the environment of docker-compose.yml | finding: avatar URLs lead nowhere |
| `server` | 3 containers that start 4 times, one without REDIS_HOST; 2 requests of any of the 25 kinds; 4 changes of 2 users' avatars, 3 at a time (271 k) | `BucketIsPublic`, `SamplesForAReason`; `ServerErrorForAReason`, `ClientErrorsChangeNothing`, `RequestsAnswered`; `AvatarsResolve`, `NoPictureLeftBehind` |

The type invariants of `ViewCounting`, `Comments`, `CommentPages`, `Sessions`,
`BrowserSessions`, `VideoCache`, `Avatar`, `Startup` and `Requests` are not in these
runs: they are proved (section 4).

**Why the bounds are enough to be interesting.** Two of each actor are the least
that can race: two slots of one worker allow a double run of one job and a crash
that takes two jobs; two ticks and two videos allow overlapping flushes and a tick
cut off between two updates. `MaxStalled = 1` with a dead worker and a lapsed lock
lets a job stall once too often. Two attempts are enough for a retry; the three of
the producer are used where the number itself is in question. Three comments are
a reply to a reply, three tokens a token exchanged twice. Two changes of the table
let one deletion excuse a stale entry and the other not. Three containers are two
that overlap and one that ends at its check of the environment; four starts are two
side by side and each once more. Two requests are enough for one to take away the row
that the other has just seen, in every pair of the 25 kinds. One browser with two
handlers has two refreshes of one cookie under way, and a logout next to a refresh. Four comments at up to
four times on pages of one or two give every page boundary between one and four
pages with all ties. The theorems of section 4 do without these bounds.

**Symmetry** permutes videos and slots, comments, handlers, or tokens, which
no definition tells apart; runs of liveness properties use none. `ImplementsPromise`,
`ImplementsBoard` and the action properties of `Comments` are step properties that treat these values
alike, so that symmetry is sound for them. `views`, `cache` and `server`, which check
liveness next to safety, use none either; in `server` the names of
pictures, which are random, are drawn in a fixed order instead (`DrawnInOrder`).

**CHECK_DEADLOCK FALSE** is said where a bounded supply ends: uploads (each drawn
once), comment ids and picture names (random, never drawn again), and the walk of
CommentPages, which ends at its last page, and the starts of `server`, after the last
of which all containers may be down. The other runs check for deadlock.

**Fairness.**

- `VideoLifecycle!FairSpec`: a handler that has started goes on while its process
  lives, workers take waiting jobs, BullMQ promotes delayed jobs and checks for
  stalled ones, and a slot that runs a job goes on. The event loop, the worker's
  fetch loop and BullMQ's timers do exactly this. Uploads, deletions, failing
  attempts and faults are never bound to happen.
- `ViewCounting!FairSpec`: setInterval keeps firing and a tick goes on. Requests,
  expiry and readers are not fair.
- `VideoCache!FairSpec`: a request that has missed is answered or fails, and Redis
  expires the entry of each key. Invalidation is not assumed: `CachesCatchUp`
  holds although every one may be lost.
- `Requests!FairRequests`: the event loop goes on with every request that has been
  admitted. A request that waits for Redis during an outage has no step to take, and
  Redis is never bound to come back: `RequestsAnswered` says which requests are
  answered all the same.

## 4. What TLAPS proves

For all values of the constants, under the assumptions named in each module
(`None` is no other value, `Attempts` is positive, and the like):

| Module | Theorems |
|---|---|
| `VideoLifecycleProofs` | `TypeCorrect`, `OriginalsNeverDangle`, `ReadyIsPlayable`, `ProcessingNeverForgotten`, `VerdictsAgree`, `OrphansBounded`, `PromiseKept` |
| `ViewCountingProofs` | `TypeCorrect`, `ViewsCountedOnce`, `ViewsAccountedFor`, `AnswersNeverOvercount`, `OneViewPerWindow`, `SetsCountAsNumbers`, `ViewsMoveForward` |
| `CommentsProofs` | `TypeCorrect`, `ThreadsStayFlat`, `AllCommentsListed`, `DeletionsTakeThreads`, `EditsStayAuthorised`, `RequestsTakeEffectAtOnce` |
| `CommentPagesProofs` | `HasNextExact`, `TypeCorrect`, `NothingIsSkipped`, `RepeatsExplained` |
| `SessionsProofs` | `TypeCorrect`, `RotationRetires`, `ForksNeedOverlap`, `SessionsKept`, `ChangeEndsSessions`; with browsers `BrowsersUseSessions`, `BrowserTypeCorrect`, `CookiesSpentForAReason`, `LogoutIsFinal` |
| `VideoCacheProofs` | `TypeCorrect`, `HotInvalidated`, `OwnEntryForPlainOwners`, `ListsOutliveInvalidation` |
| `AvatarProofs` | `TypeCorrect`, `AvatarsServed`, `NothingLeftBehind` (if `PlainUrl`: the public URL is an origin without a path) |
| `ServerProofs` | `StartupTypeCorrect`, `BucketOpened`, `SamplesAccountedFor`; `RequestsTypeCorrect`, `RacesAreRefused`, `RefusalsChangeNothing` |

None of these properties is inductive by itself. What was missing, in each case, is
what an actor knows between two of its calls:

- **VideoLifecycle**, in layers. `ActorsInv`: an actor that is not at rest works on
  a video, a job in flight has an attempt and a stall left, only an active job is
  locked. `ObjectsInv`: a row follows a stored object, a READY row has its own URL,
  and a remover that is about to delete an object has deleted its row. `JobsInv`: a
  run, or a job at rest, that is past the update of the status has left PROCESSING
  behind. `VerdictInv`: until a lock lapses a run holds the lock of its job, so that
  a job has at most one run. `OrphansBounded` goes by steps instead: `StepLeaks`
  shows that a step either leaks nothing or leaks one object and spends one fault.
  `PromiseKept` is the refinement, by simulation: `StepCloses` maps a step that changes
  no phase and opens no processing to `Close` (of nothing, if need be), `RunSettles` a
  verdict to `Settle`, and CreateVideo and DeleteVideo are `Publish` and `Remove`. It
  needs `ObjectsInv`, so that a video whose row is deleted or judged has been published.
- **ViewCounting**: `PlacesInv` (what a place holds is counted and of that video),
  and `BaseInv` (what a reader holds of the column is still in the column or went
  with the row), from which the sum that findOne answers is bounded by cardinality. `DedupeHolds` is
  inductive: it counts the views that a key has let pass against its expiries, one more
  while the key is in Redis.
  `SetsCountAsNumbers` and the refinement `ViewsMoveForward` both rest on `NoViewTwice`:
  what an update adds to the column was not there, and the fate of a view can be told
  from its place (`FateByPlace`).
- **Comments**: `HandlersKnow`, what a handler's check still means when it writes:
  parents only ever disappear, and videos and authors of comments never change.
  `CascadeOfOne` and `CascadeOfVideo` compute the cascade in a flat forest.
  `RequestsTakeEffectAtOnce` is the refinement: at the second call the same invariant
  says that author, root and video are what the first call saw, if they are still there,
  and `HandlersAsk` that every handler carries a request of the board; `BoardStep` has
  one lemma per step of the board.
- **CommentPages**: `PlaceInListing` turns sorting into counting: a comment that shares
  its time with nobody stands, in every listing, right behind the comments that precede
  it. Unless one was removed, such a comment only moves back; so the client, who has
  asked for every page so far, has received it or has it ahead (`NonePassed`), and with no
  creation it has received only what lies before its page (`ReceivedPassed`). At the end
  `HasNextExact` says that there is nothing behind the last page.
- **Sessions**: `NotTwice` (a handler never exchanges a token it has exchanged),
  `Registered`, and `OutdatedForAReason` (a handler that carries an old password is
  late, or the change is not finished). With browsers, `BrowserNextAllowed` shows that
  every step is one of `Sessions` or leaves its tables alone, so that its invariant
  comes for free; on top of it `OneHolder` (a token is held by one browser: as its cookie,
  in an answer to it, or in a refresh that works for it), `AnswersFresh` (a token in an
  answer was used by nobody yet) and `LoggedOut`.
- **VideoCache**: `ReaderStaleForAReason`, the excuses of an entry for the value
  that a reader is about to store. `OwnEntryForPlainOwners` needs `ReadersFit` and
  `EntriesFit` (a request under way and an entry have the key of their query, and lists
  never that of the hot videos) and `KeysTellQueries`: the paging can be read off before
  the first colon of a key, and, if the owners have no colon, owner and status behind the
  last two, so that the text that is left is the search, colons and all. The module
  assumes of queries only what the pipe ensures (`ValidAssumption`). By `FourthToken` no
  list key matches the invalidation's pattern, so that `ListsOutliveInvalidation` says of
  every query what the first finding shows of one.
- **Avatar**: `KeyFromUrlInverts` (under `PlainUrl` the split yields the key), then
  that the picture a row shows is removed by nobody: `DrawnFirst`, `ShownIsKept`.
- **Startup**: `BucketKnown` (whoever goes past the bucket has seen one, and a private one
  has somebody who is about to open it, or a start that died first) and `SamplesDue`:
  each start that is about to insert, beyond the first, is paid for by an overlap or by
  a deletion of all videos. That count is what makes `SamplesForAReason` inductive.
- **Requests**: `GoodRoute`, proved per controller: a route refers to no row that it has
  not looked up or that the schema does not protect, and after its first write come
  only calls that cannot be refused. A request that runs has made all calls before its
  `pc`, and has written only if one of them is a write (`RequestsStarted`).

**Model-checked only**: the liveness properties `EveryUploadIsJudged`,
`DeletedOriginalGoes`, `EveryJobRests`, `PendingIsFlushed`, `CachesCatchUp` and
`RequestsAnswered`, which need fairness and ENABLED (outside TLAPS). Every safety
property of every passing run is a theorem.

## 5. Findings

Four runs end in a counterexample, each against a sentence of the repository:

1. `cache_list_stale`. List keys are `videos:list` followed directly by the query,
   the invalidation deletes `videos:list:*`; no list entry is ever deleted.
2. `avatar_compose`. docker-compose.yml puts the bucket into MINIO_PUBLIC_URL and
   urlFor adds it again: avatar URLs lead to no object, and keyFromUrl yields a wrong
   key, whose removal succeeds silently. (Playback URLs are the worker's, which has a
   MINIO_PUBLIC_URL of its own without the bucket, docker-compose.yml:107.)
3. `lifecycle_failed_early`. docs/DATABASE.md says FAILED means three failed
   attempts; the code writes it after each, and a later attempt may write READY.
4. `cache_shared_key`. docs/ARCHITECTURE.md:127 says that each combination of filters
   has a cache of its own. cacheKeyFor joins with colons and escapes none, and `ownerId`
   is checked to be a string only (`query-video.dto.ts:21-24`): `search=intro:READY` and
   `search=intro&status=READY&ownerId=:` have one key, and whichever comes second gets
   the page of the other until it expires. `MixedByOwnersOnly` is what holds, and is
   proved for all queries: free text in `search` does no harm, and a mixture takes a
   colon in an ownerId, within one page and never with the hot videos.

Further disagreements that one look at the code decides, and for which no run is
kept:

- `create-comment.dto.ts:7` has `@MinLength(2000)` where update has `@MaxLength`:
  the example of the same DTO is refused (`CreateMinLength` in `Comments`).
- docs/API.md:134 reserves the edit of a comment to its owner;
  assertOwnerOrAdmin lets administrators through.
- docs/API.md:101 says viewsCount includes the pending views; between GETDEL and
  the update they are in neither place, and the answer goes down for a moment.
  `NeverOvercounts` is the half that holds.
- docs/ARCHITECTURE.md:70 lets clients poll until READY or FAILED; an API process
  that dies between row and job leaves PROCESSING for ever. `ProcessingIsPending`
  names this exception.
- docs/ARCHITECTURE.md:132-136 puts the throttler before authentication; the guards
  run in the order of `app.module.ts:61-63`, where it comes last, so that requests
  refused with 401 or 403 are not counted. Its counters are those of one process.
- docs/OPERATIONS.md:84 and :100 rely on `health/ready` failing. `app.controller.ts`
  catches what its calls throw and answers 200 with "not ready", which `r.ok` in
  docker-compose.yml:80 takes for healthy; and during an outage of Redis the ping
  waits instead of failing (`RequestsAnswered` excepts it).
- `main.ts:22` reads `corsOrigins`, `configuration.ts:34` defines `corsOrigin`: the
  origins that are configured are not applied.
- README.md:42 says that migration and seed run when the API container starts; the
  worker's container has the same entrypoint and runs them too, which is what
  `SamplesForAReason` is about.
- README.md:105 (`MINIO_BUCKET`) says that the bucket is created if there is none. A
  start that ends between makeBucket and setBucketPolicy leaves it private for ever,
  since the next start finds it. `BucketIsPublic` names this exception.
- docs/OPERATIONS.md:45 has both processes shut down gently; the API's shutdown hooks
  end the connections to the database and Redis without waiting for the handlers
  that run. The models let a process die at any step, which includes this.

## 6. Plan

The order is by weight of the behaviour: first what several processes write
(lifecycle, views), then what requests race for (comments, sessions, caches,
avatars, pages), then what surrounds them (browsers and their cookies, the request
pipeline and health, the start of the containers). All of that is done, with all
safety properties proved, and so are the refinements of VideoPromise,
ViewLedger and CommentBoard. What is left:

1. `VideoPages`: the cached pages of findAll, each as old as its entry, and a walk in an
   order by view count or update time, which change meanwhile.
2. An orderly shutdown of the worker as an action of its own, with a property of what it
   spares compared to a crash.
3. An abstract specification of sessions (one live chain of tokens per login) that
   BrowserSessions implements.

## 7. Not modelled

- The shutdown of the worker: `WorkerCrash` lets it end at any point with any of its
  jobs unfinished, and an orderly `worker.close()` leaves no state that this does not.
- findAll's orders by fields that change: see the plan.
- The values of `configuration.ts`, CORS, Helmet, Swagger and API versions: settings
  that no step changes. Bodies of requests: the pipe refuses some and lets others
  through, and `Refuse` stands for both outcomes wherever a route has input to check.
- What a sample video contains, beyond its owner. `VideoLifecycle` knows uploads only:
  the samples of `seed.ts` are READY rows whose `originalKey` (line 83) has no object in
  the bucket and whose playback URL is another site's, so that `NoDanglingOriginal`,
  `PlayableWhenReady` and their theorems do not speak of them, and removing one removes
  no object.
- Input that the pipe lets through and the database refuses (a NUL in a text, a page
  number beyond its integers), and a JWT of a user without a row, whom no code deletes:
  `ServerErrorForAReason` and `ClientErrorsChangeNothing` speak of requests without these.
- The extension in the key of a picture, which is what follows the last dot of the
  name that the client gives (`storage.service.ts:44`) and goes into the URL as it is
  (line 90): a picture whose extension has a `?` or `#` is not found under its URL.
  `AvatarKey` takes the name as a segment that MinIO reads back unchanged.
- The counters of the throttler: its 429 is one of the answers of `Refuse` at any time.
- Titles, descriptions, sizes and types of files, logging, the envelope of
  responses: no property depends on them.
- Expiry of refresh tokens: a refusal that may come at any time and changes
  nothing. Access tokens are stateless and live on until they expire, also after a
  logout; that is what a JWT is, and the models do not claim otherwise.
- PostgreSQL, Redis, MinIO, BullMQ and bcrypt are modelled as far as the code
  relies on them: single statements and commands are atomic, unique and foreign
  keys hold, SCAN, SET NX, GETDEL and expiry do what their manuals say, and BullMQ
  delivers a job at least once until attempts or stalls are used up.
