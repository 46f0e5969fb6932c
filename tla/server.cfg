\* Three containers that start four times between them; two requests of an API
\* that is up; four changes of two users' avatars, three at a time.
CONSTANTS
  api = api  worker = worker  job = job
  Process <- Containers
  environment <- Environments
  MaxStarts = 4
  MaxEmptied = 1
  Request = {r1, r2}
  None = None
  User <- Users
  Image <- FourImages
  Handler = {h1, h2, h3}
  Bucket = "videos"
  PublicUrl <- Default
  Segment <- Text
  NoAvatar = NoAvatar
SPECIFICATION MCSpec
INVARIANTS
  BucketIsPublic
  SamplesForAReason
  ServerErrorForAReason
  ClientErrorsChangeNothing
  AvatarsResolve
  NoPictureLeftBehind
PROPERTIES
  RequestsAnswered
\* The starts are bounded, and all containers may be down after the last one.
\* Names of pictures are never drawn twice.
CHECK_DEADLOCK FALSE
