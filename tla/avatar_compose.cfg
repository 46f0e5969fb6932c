\* One user, with the environment of docker-compose.yml.
CONSTANTS
  User <- OneUser
  Image <- ThreeImages
  Handler = {h1}
  Bucket = "ktvideo"
  PublicUrl <- Compose
  Segment <- Text
  NoAvatar = NoAvatar
SPECIFICATION AvatarSpec
INVARIANTS
  AvatarsResolve
CHECK_DEADLOCK FALSE
