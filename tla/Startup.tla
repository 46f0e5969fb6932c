------------------------------- MODULE Startup -------------------------------
(***************************************************************************)
(* How the processes of the system start: docker-entrypoint.sh migrates    *)
(* and seeds the database, then the application reads its environment,     *)
(* connects and prepares the bucket.  API and worker run the same start,   *)
(* in any number of containers and at any time, and may die at each step.  *)
(***************************************************************************)
EXTENDS Naturals, FiniteSets

CONSTANTS
  Process,      \* containers
  environment,  \* the names that are set in the environment of each
  MaxStarts,    \* bound of the starts
  MaxEmptied    \* bound of how often users delete all videos

Name == {"RUN_MIGRATIONS", "DATABASE_URL", "JWT_ACCESS_SECRET", "JWT_REFRESH_SECRET",
         "REDIS_HOST"}

ASSUME EnvironmentAssumption == environment \in [Process -> SUBSET Name]
ASSUME BoundAssumption == MaxStarts \in Nat /\ MaxEmptied \in Nat
ASSUME FiniteAssumption == IsFiniteSet(Process)

VARIABLES
  at,           \* how far each process has come
  starts,       \* how often a process was started
  accounts,     \* the sample users that exist
  samples,      \* how many sets of sample videos there are
  uploads,      \* whether there are other videos
  bucket,       \* "none", "private" without a policy, or "public"
  inserted,     \* history: how often sample videos were inserted
  overlaps,     \* history: counts made while another seed was about to insert
  emptied,      \* history: how often users have deleted all videos
  cut           \* history: a start died before it had set the policy

videos == <<samples, uploads, inserted, overlaps, emptied>>
vars == <<at, starts, accounts, videos, bucket, cut>>

Init ==
  /\ at = [p \in Process |-> "down"]
  /\ starts = 0
  /\ accounts = {}
  /\ samples = 0
  /\ uploads = FALSE
  /\ bucket = "none"
  /\ inserted = 0
  /\ overlaps = 0
  /\ emptied = 0
  /\ cut = FALSE

Proceed(p, here, there) ==
  /\ at[p] = here
  /\ at' = [at EXCEPT ![p] = there]

(***************************************************************************)
(* docker-entrypoint.sh and seed.ts                                        *)
(***************************************************************************)
Start(p) ==
  /\ starts < MaxStarts
  /\ starts' = starts + 1
  /\ Proceed(p, "down",
       IF "RUN_MIGRATIONS" \in environment[p] THEN "migrating" ELSE "validating")
  /\ UNCHANGED <<accounts, videos, bucket, cut>>

\* prisma migrate deploy holds a lock and does nothing the second time.
MigrateDeploy(p) ==
  /\ Proceed(p, "migrating", "admin")
  /\ UNCHANGED <<starts, accounts, videos, bucket, cut>>

\* The two upserts: admin, then user.
Upsert(p) ==
  /\ \/ Proceed(p, "admin", "user")
     \/ Proceed(p, "user", "counting")
  /\ accounts' = accounts \union {at[p]}
  /\ UNCHANGED <<starts, videos, bucket, cut>>

Inserting == {p \in Process : at[p] = "inserting"}

Overlap == overlaps' = IF Inserting = {} THEN overlaps ELSE overlaps + 1

\* The samples are inserted whatever the count (not part of Next).
CountNothing(p) ==
  /\ Proceed(p, "counting", "inserting")
  /\ Overlap
  /\ UNCHANGED <<starts, accounts, samples, uploads, inserted, emptied, bucket, cut>>

NoVideos == samples = 0 /\ ~uploads

\* prisma.video.count
Count(p) ==
  /\ \/ NoVideos /\ Proceed(p, "counting", "inserting") /\ Overlap
     \/ ~NoVideos /\ Proceed(p, "counting", "validating") /\ UNCHANGED overlaps
  /\ UNCHANGED <<starts, accounts, samples, uploads, inserted, emptied, bucket, cut>>

\* prisma.video.createMany: twelve videos made of six samples, of both owners.
CreateSamples(p) ==
  /\ Proceed(p, "inserting", "validating")
  /\ samples' = samples + 1
  /\ inserted' = inserted + 1
  /\ UNCHANGED <<starts, accounts, uploads, overlaps, emptied, bucket, cut>>

\* A seed that exits with 1 is forgiven by "|| true".
SeedFails(p) ==
  /\ at[p] \in {"admin", "user", "counting", "inserting"}
  /\ at' = [at EXCEPT ![p] = "validating"]
  /\ UNCHANGED <<starts, accounts, videos, bucket, cut>>

(***************************************************************************)
(* The application                                                         *)
(***************************************************************************)
EnvVar == Name \ {"RUN_MIGRATIONS"}

\* The process ends if a variable is missing.
validateEnv(p) ==
  /\ Proceed(p, "validating", IF EnvVar \subseteq environment[p] THEN "connecting" ELSE "down")
  /\ UNCHANGED <<starts, accounts, videos, bucket, cut>>

\* PrismaService.onModuleInit
Connect(p) ==
  /\ Proceed(p, "connecting", "looking")
  /\ UNCHANGED <<starts, accounts, videos, bucket, cut>>

\* StorageService.onModuleInit: bucketExists.
BucketExists(p) ==
  /\ Proceed(p, "looking", IF bucket = "none" THEN "making" ELSE "up")
  /\ UNCHANGED <<starts, accounts, videos, bucket, cut>>

\* A bucket that another process has made meanwhile is an error, with which
\* the start fails.
MakeBucket(p) ==
  /\ \/ bucket = "none" /\ bucket' = "private" /\ Proceed(p, "making", "allowing")
     \/ bucket # "none" /\ UNCHANGED bucket /\ Proceed(p, "making", "down")
  /\ UNCHANGED <<starts, accounts, videos, cut>>

\* No policy is set (not part of Next).
SetNoPolicy(p) ==
  /\ Proceed(p, "allowing", "up")
  /\ UNCHANGED <<starts, accounts, videos, bucket, cut>>

\* setBucketPolicy with publicReadPolicy, which is not tried again if there is
\* a bucket.
SetBucketPolicy(p) ==
  /\ Proceed(p, "allowing", "up")
  /\ bucket' = "public"
  /\ UNCHANGED <<starts, accounts, videos, cut>>

\* The process dies or is stopped, or a call rejects that it cannot do without.
Down(p) ==
  /\ at[p] # "down"
  /\ at' = [at EXCEPT ![p] = "down"]
  /\ cut' = (cut \/ at[p] = "allowing")
  /\ UNCHANGED <<starts, accounts, videos, bucket>>

(***************************************************************************)
(* Users of a process that is up                                           *)
(***************************************************************************)
Upload ==
  /\ \E p \in Process : at[p] = "up"
  /\ ~uploads
  /\ uploads' = TRUE
  /\ UNCHANGED <<at, starts, accounts, samples, inserted, overlaps, emptied, bucket, cut>>

\* The owners or an administrator delete the last of the videos.
DeleteVideos ==
  /\ \E p \in Process : at[p] = "up"
  /\ ~NoVideos
  /\ emptied < MaxEmptied
  /\ samples' = 0
  /\ uploads' = FALSE
  /\ emptied' = emptied + 1
  /\ UNCHANGED <<at, starts, accounts, inserted, overlaps, bucket, cut>>

-----------------------------------------------------------------------------
Next ==
  \/ \E p \in Process :
       \/ Start(p) \/ MigrateDeploy(p) \/ Upsert(p) \/ Count(p) \/ CreateSamples(p)
       \/ SeedFails(p) \/ validateEnv(p) \/ Connect(p) \/ BucketExists(p)
       \/ MakeBucket(p) \/ SetBucketPolicy(p) \/ Down(p)
  \/ Upload \/ DeleteVideos

Spec == Init /\ [][Next]_vars

(***************************************************************************)
(* Properties                                                              *)
(***************************************************************************)
Stage == {"down", "migrating", "admin", "user", "counting", "inserting", "validating",
          "connecting", "looking", "making", "allowing", "up"}

\* Type invariant, with the foreign key of the samples: whoever inserts them
\* has seen both owners stored.
TypeOK ==
  /\ at \in [Process -> Stage]
  /\ starts \in 0..MaxStarts
  /\ accounts \subseteq {"admin", "user"}
  /\ \A p \in Process : at[p] \in {"counting", "inserting"} => accounts = {"admin", "user"}
  /\ samples \in Nat
  /\ uploads \in BOOLEAN
  /\ bucket \in {"none", "private", "public"}
  /\ inserted \in Nat
  /\ overlaps \in Nat
  /\ emptied \in 0..MaxEmptied
  /\ cut \in BOOLEAN

\* README.md: the bucket is made if it is missing.  A process that is up has a
\* bucket that everybody can read, unless another start is just about to allow
\* it, or died there: then no later start ever does.
BucketIsPublic ==
  \A p \in Process :
    at[p] = "up" =>
      \/ bucket = "public"
      \/ bucket = "private" /\ (cut \/ \E q \in Process : at[q] = "allowing")

\* Sample videos are inserted again only because two seeds overlapped, or
\* because users had deleted every video: what they deleted comes back with
\* the next start.
SamplesForAReason == inserted <= 1 + overlaps + emptied
=============================================================================
