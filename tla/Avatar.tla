------------------------------- MODULE Avatar -------------------------------
(***************************************************************************)
(* updateAvatar of UsersService: read the row, store the new picture,      *)
(* write its URL into the row, and, without waiting, delete the picture    *)
(* whose URL the row had when it was read.  Keys of objects and URLs are   *)
(* sequences of the segments between slashes.                              *)
(***************************************************************************)
EXTENDS Naturals, Sequences

CONSTANTS
  User,        \* ids of users
  Image,       \* names of objects: a random uuid and the extension
  Handler,     \* requests that the server handles at a time
  Bucket,      \* MINIO_BUCKET
  PublicUrl,   \* MINIO_PUBLIC_URL: its origin, then the segments of its path
  Segment,     \* texts without a slash
  NoAvatar     \* what a row without an avatar has

\* Ids and names are uuids, so that no id is the bucket's name.
ASSUME NameAssumption ==
  /\ User \subseteq Segment /\ Image \subseteq Segment
  /\ "avatars" \in Segment /\ Bucket \in Segment /\ Bucket \notin User
ASSUME UrlAssumption == PublicUrl \in Seq(Segment) /\ PublicUrl # <<>>
ASSUME NoneAssumption == NoAvatar \notin Seq(Segment)

VARIABLES
  avatar,      \* column avata_url of each user
  objects,     \* keys of the objects in the bucket
  change,      \* how far each request has come
  removals,    \* keys whose removal is under way
  drawn,       \* history: names that have been drawn
  overlapped,  \* history: users with two changes at a time
  failed       \* history: users with a change or a removal that failed

pictures == <<avatar, objects, change, removals, drawn, overlapped, failed>>

\* The key that uploadFile makes for prefix avatars/<user>.
AvatarKey(u, i) == <<"avatars", u, i>>

Keys == {AvatarKey(u, i) : u \in User, i \in Image}

urlFor(k) == PublicUrl \o <<Bucket>> \o k

Urls == {urlFor(k) : k \in Keys}

\* Where a URL, from segment n on, contains "/bucket/".
Cuts(url, n) == {i \in n..(Len(url) - 1) : url[i] = Bucket}

Least(S) == CHOOSE i \in S : \A j \in S : i <= j

\* url.split("/bucket/")[1]: what lies between the first two cuts.  Two cuts
\* do not share a slash.
keyFromUrl(url) ==
  LET first == Least(Cuts(url, 2))
      next  == Cuts(url, first + 2)
  IN  IF Cuts(url, 2) = {} THEN <<>>
      ELSE SubSeq(url, first + 1, IF next = {} THEN Len(url) ELSE Least(next) - 1)

\* MinIO: the first segment of a path is the bucket, the rest is the key.
Serves(url, k) == Len(url) > 2 /\ url[2] = Bucket /\ k = SubSeq(url, 3, Len(url))

Idle == [at |-> "idle"]

AvatarInit ==
  /\ avatar = [u \in User |-> NoAvatar]
  /\ objects = {}
  /\ change = [h \in Handler |-> Idle]
  /\ removals = {}
  /\ drawn = {}
  /\ overlapped = {}
  /\ failed = {}

Changing(u) == {h \in Handler : change[h] # Idle /\ change[h].user = u}

\* The request passes the checks of the file, and the row is read.  (A
\* refused request changes nothing.)
updateAvatar(h, u, i) ==
  /\ change[h] = Idle
  /\ i \notin drawn
  /\ drawn' = drawn \union {i}
  /\ change' = [change EXCEPT ![h] =
       [at |-> "read", user |-> u, key |-> AvatarKey(u, i), current |-> avatar[u]]]
  /\ overlapped' = IF Changing(u) # {} THEN overlapped \union {u} ELSE overlapped
  /\ UNCHANGED <<avatar, objects, removals, failed>>

uploadFile(h) ==
  /\ change[h].at = "read"
  /\ objects' = objects \union {change[h].key}
  /\ change' = [change EXCEPT ![h].at = "uploaded"]
  /\ UNCHANGED <<avatar, removals, drawn, overlapped, failed>>

\* The old picture is left alone (not part of Next).
WriteUrlOnly(h) ==
  /\ change[h].at = "uploaded"
  /\ avatar' = [avatar EXCEPT ![change[h].user] = urlFor(change[h].key)]
  /\ change' = [change EXCEPT ![h] = Idle]
  /\ UNCHANGED <<objects, removals, drawn, overlapped, failed>>

\* The URL is written before the picture is stored (not part of Next).
WriteUrlFirst(h) ==
  /\ change[h].at \in {"read", "uploaded"}
  /\ avatar' = [avatar EXCEPT ![change[h].user] = urlFor(change[h].key)]
  /\ change' = [change EXCEPT ![h] = Idle]
  /\ UNCHANGED <<objects, removals, drawn, overlapped, failed>>

\* user.update, and the removal of the picture that the row had.
WriteUrl(h) ==
  LET c == change[h] IN
  /\ c.at = "uploaded"
  /\ avatar' = [avatar EXCEPT ![c.user] = urlFor(c.key)]
  /\ removals' = IF c.current = NoAvatar \/ keyFromUrl(c.current) = <<>> THEN removals
                 ELSE removals \union {keyFromUrl(c.current)}
  /\ change' = [change EXCEPT ![h] = Idle]
  /\ UNCHANGED <<objects, drawn, overlapped, failed>>

\* An awaited call rejects, or the process dies: before the row is written ...
ChangeFails(h) ==
  /\ change[h] # Idle
  /\ failed' = failed \union {change[h].user}
  /\ change' = [change EXCEPT ![h] = Idle]
  /\ UNCHANGED <<avatar, objects, removals, drawn, overlapped>>

\* ... after MinIO stored the picture whose upload is not answered ...
UploadUnanswered(h) ==
  /\ change[h].at = "read"
  /\ objects' = objects \union {change[h].key}
  /\ failed' = failed \union {change[h].user}
  /\ change' = [change EXCEPT ![h] = Idle]
  /\ UNCHANGED <<avatar, removals, drawn, overlapped>>

\* ... or after the database has written the row.
WriteUnanswered(h) ==
  /\ change[h].at = "uploaded"
  /\ avatar' = [avatar EXCEPT ![change[h].user] = urlFor(change[h].key)]
  /\ failed' = failed \union {change[h].user}
  /\ change' = [change EXCEPT ![h] = Idle]
  /\ UNCHANGED <<objects, removals, drawn, overlapped>>

\* MinIO removes the object.  It answers the same if there is none.
remove(k) ==
  /\ k \in removals
  /\ objects' = objects \ {k}
  /\ removals' = removals \ {k}
  /\ UNCHANGED <<avatar, change, drawn, overlapped, failed>>

\* The removal rejects, which is only logged, or the process dies.
RemovalLost(k) ==
  /\ k \in removals
  /\ removals' = removals \ {k}
  /\ failed' = failed \union {u \in User : \E i \in Image : k = AvatarKey(u, i)}
  /\ UNCHANGED <<avatar, objects, change, drawn, overlapped>>

AvatarNext ==
  \/ \E h \in Handler, u \in User, i \in Image : updateAvatar(h, u, i)
  \/ \E h \in Handler :
       \/ uploadFile(h) \/ WriteUrl(h)
       \/ ChangeFails(h) \/ UploadUnanswered(h) \/ WriteUnanswered(h)
  \/ \E k \in removals : remove(k) \/ RemovalLost(k)

AvatarSpec == AvatarInit /\ [][AvatarNext]_pictures

(***************************************************************************)
(* Properties                                                              *)
(***************************************************************************)
Change == {Idle} \union
  [at : {"read", "uploaded"}, user : User, key : Keys, current : Urls \union {NoAvatar}]

\* Types: the row holds the URL of a key, or nothing, and the bucket only
\* objects with the key of an avatar.
AvatarTypeOK ==
  /\ avatar \in [User -> Urls \union {NoAvatar}]
  /\ objects \subseteq Keys
  /\ change \in [Handler -> Change]
  /\ removals \subseteq Seq(Segment)
  /\ drawn \subseteq Image
  /\ overlapped \subseteq User
  /\ failed \subseteq User

\* The URL of an avatar leads to a picture in the bucket, whatever changes
\* overlap, fail or are removed late.
AvatarsResolve ==
  \A u \in User : avatar[u] # NoAvatar => \E k \in objects : Serves(avatar[u], k)

\* Pictures of a user whose changes came one after the other and did not fail
\* are used, being replaced, or being removed: nothing else stays behind.
NoPictureLeftBehind ==
  \A u \in User \ (overlapped \union failed), i \in Image :
    AvatarKey(u, i) \in objects =>
      \/ avatar[u] = urlFor(AvatarKey(u, i))
      \/ AvatarKey(u, i) \in removals
      \/ \E h \in Changing(u) : change[h].key = AvatarKey(u, i)
=============================================================================
