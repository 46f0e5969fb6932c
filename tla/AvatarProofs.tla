---------------------------- MODULE AvatarProofs ----------------------------
(***************************************************************************)
(* Proofs about Avatar, for any number of users, requests and pictures,    *)
(* where the public URL is an origin without a path, as README.md and      *)
(* .env.example have it.                                                   *)
(***************************************************************************)
EXTENDS Avatar, SequenceTheorems, TLAPS

PlainUrl == Len(PublicUrl) = 1

(***************************************************************************)
(* Keys and URLs                                                           *)
(***************************************************************************)

\* Two keys are equal only if user and name are.
LEMMA KeysDiffer ==
  ASSUME NEW u \in User, NEW i \in Image, NEW v \in User, NEW j \in Image,
         AvatarKey(u, i) = AvatarKey(v, j)
  PROVE  u = v /\ i = j
<1>1. AvatarKey(u, i)[2] = u /\ AvatarKey(u, i)[3] = i
  BY DEF AvatarKey
<1>2. AvatarKey(v, j)[2] = v /\ AvatarKey(v, j)[3] = j
  BY DEF AvatarKey
<1> QED BY <1>1, <1>2

\* A key is a sequence of three segments, the second of them a user.
LEMMA KeyShape ==
  ASSUME NEW k \in Keys
  PROVE  k \in Seq(Segment) /\ Len(k) = 3 /\ k[2] \in User
<1>1. PICK u \in User, i \in Image : k = <<"avatars", u, i>>
  BY DEF Keys, AvatarKey
<1>2. u \in Segment /\ i \in Segment /\ "avatars" \in Segment
  BY NameAssumption
<1>3. <<"avatars", u, i>> \in Seq(Segment) /\ Len(<<"avatars", u, i>>) = 3
  BY <1>2
<1>4. <<"avatars", u, i>>[2] = u
  OBVIOUS
<1> QED BY <1>1, <1>3, <1>4

\* The shape of a URL.
LEMMA UrlShape ==
  ASSUME PlainUrl, NEW k \in Keys
  PROVE  /\ urlFor(k) \in Seq(Segment)
         /\ Len(urlFor(k)) = 5
         /\ urlFor(k)[2] = Bucket
         /\ urlFor(k)[4] # Bucket
         /\ SubSeq(urlFor(k), 3, 5) = k
<1> DEFINE b == <<Bucket>>
           p == PublicUrl \o b
           url == p \o k
           s == SubSeq(url, 3, 5)
<1>1. k \in Seq(Segment) /\ Len(k) = 3 /\ k[2] # Bucket
  BY KeyShape, NameAssumption
<1>2. b \in Seq(Segment) /\ Len(b) = 1 /\ b[1] = Bucket
  BY NameAssumption
<1>3. PublicUrl \in Seq(Segment) /\ Len(PublicUrl) = 1
  BY UrlAssumption DEF PlainUrl
<1> HIDE DEF b
<1>4. p \in Seq(Segment) /\ Len(p) = 2 /\ p[2] = Bucket
  <2>1. /\ p \in Seq(Segment) /\ Len(p) = Len(PublicUrl) + Len(b)
        /\ \A n \in 1..(Len(PublicUrl) + Len(b)) :
             p[n] = IF n <= Len(PublicUrl) THEN PublicUrl[n] ELSE b[n - Len(PublicUrl)]
    BY <1>2, <1>3, ConcatProperties
  <2> HIDE DEF p
  <2> QED BY <2>1, <1>2, <1>3
<1> HIDE DEF p
<1>5. /\ url \in Seq(Segment) /\ Len(url) = 5
      /\ \A n \in 1..5 : url[n] = IF n <= 2 THEN p[n] ELSE k[n - 2]
  <2>1. /\ url \in Seq(Segment) /\ Len(url) = Len(p) + Len(k)
        /\ \A n \in 1..(Len(p) + Len(k)) :
             url[n] = IF n <= Len(p) THEN p[n] ELSE k[n - Len(p)]
    BY <1>1, <1>4, ConcatProperties
  <2> HIDE DEF url
  <2> QED BY <2>1, <1>1, <1>4
<1>6. urlFor(k) = url
  BY DEF urlFor, p, b
<1> HIDE DEF url
<1>7. url[2] = Bucket /\ url[4] # Bucket
  BY <1>1, <1>4, <1>5
<1>8. s = k
  <2>1. \A n \in 3..5 : url[n] \in Segment
    <3>1. \A n \in 1..Len(url) : url[n] \in Segment
      BY <1>5, ElementOfSeq
    <3> QED BY <3>1, <1>5
  <2>2. /\ s \in Seq(Segment) /\ Len(s) = 3
        /\ \A n \in 1..3 : s[n] = url[3 + n - 1]
    <3>1. /\ s \in Seq(Segment)
          /\ Len(s) = IF 3 <= 5 THEN 5 - 3 + 1 ELSE 0
          /\ \A n \in 1..(5 - 3 + 1) : s[n] = url[3 + n - 1]
      BY <2>1, SubSeqProperties
    <3> HIDE DEF s
    <3> QED BY <3>1
  <2> HIDE DEF s
  <2>3. \A n \in 1..Len(s) : s[n] = k[n]
    BY <2>2, <1>5
  <2> QED BY <2>2, <2>3, <1>1, SeqEqual
<1> QED BY <1>5, <1>6, <1>7, <1>8

\* The least element of a set of numbers.
LEMMA LeastIs ==
  ASSUME NEW S, S \subseteq Nat, NEW n \in S, \A j \in S : n <= j
  PROVE  Least(S) = n
<1>1. /\ Least(S) \in S
      /\ \A j \in S : Least(S) <= j
  BY DEF Least
<1>2. Least(S) \in Nat /\ n \in Nat /\ Least(S) <= n /\ n <= Least(S)
  BY <1>1
<1> HIDE DEF Least
<1> QED BY <1>2

\* keyFromUrl is the inverse of urlFor.
LEMMA KeyFromUrlInverts ==
  ASSUME PlainUrl, NEW k \in Keys
  PROVE  keyFromUrl(urlFor(k)) = k
<1> DEFINE url == urlFor(k)
<1>1. url \in Seq(Segment) /\ Len(url) = 5 /\ url[2] = Bucket /\ url[4] # Bucket
  BY UrlShape
<1>2. SubSeq(url, 3, 5) = k
  BY UrlShape
<1> HIDE DEF url
<1>3. 2 \in Cuts(url, 2) /\ Cuts(url, 2) \subseteq Nat /\ \A j \in Cuts(url, 2) : 2 <= j
  BY <1>1 DEF Cuts
<1>4. Least(Cuts(url, 2)) = 2
  BY <1>3, LeastIs
<1>5. Cuts(url, 2 + 2) = {}
  BY <1>1 DEF Cuts
<1>6. keyFromUrl(url) = SubSeq(url, 2 + 1, Len(url))
  BY <1>3, <1>4, <1>5 DEF keyFromUrl
<1> QED BY <1>1, <1>2, <1>6 DEF url

\* What the steps need to know of keys and URLs.
LEMMA UrlFacts ==
  ASSUME PlainUrl
  PROVE  /\ \A k \in Keys : /\ urlFor(k) # NoAvatar /\ urlFor(k) \in Urls
                            /\ keyFromUrl(urlFor(k)) = k /\ k # <<>>
                            /\ k \in Seq(Segment)
                            /\ Serves(urlFor(k), k)
         /\ \A k, l \in Keys : urlFor(k) = urlFor(l) => k = l
<1>1. ASSUME NEW k \in Keys
      PROVE  /\ urlFor(k) # NoAvatar /\ urlFor(k) \in Urls
             /\ keyFromUrl(urlFor(k)) = k /\ k # <<>>
             /\ k \in Seq(Segment)
             /\ Serves(urlFor(k), k)
  <2>1. urlFor(k) # NoAvatar
    BY <1>1, UrlShape, NoneAssumption
  <2>2. urlFor(k) \in Urls
    BY <1>1 DEF Urls
  <2>3. k \in Seq(Segment) /\ k # <<>>
    BY <1>1, KeyShape
  <2>4. Serves(urlFor(k), k)
    <3>1. /\ Len(urlFor(k)) = 5 /\ urlFor(k)[2] = Bucket
          /\ SubSeq(urlFor(k), 3, 5) = k
      BY <1>1, UrlShape
    <3> QED BY <3>1 DEF Serves
  <2> QED BY <1>1, <2>1, <2>2, <2>3, <2>4, KeyFromUrlInverts
<1>2. ASSUME NEW k \in Keys, NEW l \in Keys, urlFor(k) = urlFor(l) PROVE k = l
  BY <1>2, KeyFromUrlInverts
<1> QED BY <1>1, <1>2

(***************************************************************************)
(* The inductive invariant                                                 *)
(***************************************************************************)

\* A name that is not drawn is not used anywhere.
DrawnFirst ==
  \A u \in User, i \in Image \ drawn :
    /\ AvatarKey(u, i) \notin objects
    /\ AvatarKey(u, i) \notin removals
    /\ \A v \in User : avatar[v] # urlFor(AvatarKey(u, i))
    /\ \A g \in Handler : change[g] # Idle =>
         change[g].key # AvatarKey(u, i) /\ change[g].current # urlFor(AvatarKey(u, i))

\* Users have their own pictures.
OwnPictures ==
  /\ \A u \in User, k \in Keys : avatar[u] = urlFor(k) => k[2] = u
  /\ \A h \in Handler : change[h] # Idle =>
       /\ change[h].key[2] = change[h].user
       /\ \A k \in Keys : change[h].current = urlFor(k) => k[2] = change[h].user

\* Nobody but its own request knows a picture before its URL is written.
NewIsUnknown ==
  \A h \in Handler : change[h] # Idle =>
    /\ change[h].key \notin removals
    /\ \A u \in User : avatar[u] # urlFor(change[h].key)
    /\ \A g \in Handler : change[g] # Idle =>
         /\ change[g].current # urlFor(change[h].key)
         /\ g # h => change[g].key # change[h].key
    /\ change[h].at = "uploaded" => change[h].key \in objects

\* An avatar is in the bucket and nobody is about to remove it.
ShownIsKept ==
  \A u \in User, k \in Keys :
    avatar[u] = urlFor(k) => k \in objects /\ k \notin removals

\* A user without overlapping changes has one at a time, and the row is as
\* that change has read it unless an earlier one failed.
OneAtATime ==
  \A u \in User \ overlapped, h \in Handler :
    change[h] # Idle /\ change[h].user = u =>
      /\ \A g \in Handler : change[g] # Idle /\ change[g].user = u => g = h
      /\ u \notin failed => change[h].current = avatar[u]

IInv ==
  /\ AvatarTypeOK /\ DrawnFirst /\ OwnPictures /\ NewIsUnknown
  /\ ShownIsKept /\ OneAtATime /\ NoPictureLeftBehind

LEMMA InitIInv ==
  ASSUME PlainUrl, AvatarInit
  PROVE  IInv
<1>1. \A k \in Keys : urlFor(k) # NoAvatar
  BY UrlFacts
<1>2. AvatarTypeOK
  BY DEF AvatarInit, AvatarTypeOK, Change
<1>3. DrawnFirst
  BY <1>1 DEF AvatarInit, DrawnFirst, Keys
<1>4. OwnPictures /\ ShownIsKept
  BY <1>1 DEF AvatarInit, OwnPictures, ShownIsKept
<1>5. NewIsUnknown /\ OneAtATime /\ NoPictureLeftBehind
  BY DEF AvatarInit, NewIsUnknown, OneAtATime, NoPictureLeftBehind
<1> QED BY <1>2, <1>3, <1>4, <1>5 DEF IInv

LEMMA BeginKeeps ==
  ASSUME PlainUrl, IInv, NEW h \in Handler, NEW u \in User, NEW i \in Image,
         updateAvatar(h, u, i)
  PROVE  IInv'
<1> DEFINE k == AvatarKey(u, i)
           c == [at |-> "read", user |-> u, key |-> k, current |-> avatar[u]]
<1>1. /\ i \notin drawn /\ drawn' = drawn \union {i} /\ change[h] = Idle
      /\ UNCHANGED <<avatar, objects, removals, failed>>
      /\ overlapped' = IF Changing(u) # {} THEN overlapped \union {u} ELSE overlapped
  BY DEF updateAvatar
<1>2. /\ change' = [change EXCEPT ![h] = c]
      /\ change'[h] = c
      /\ \A g \in Handler \ {h} : change'[g] = change[g]
  BY DEF updateAvatar, IInv, AvatarTypeOK
<1>3. k \in Keys
  BY DEF Keys
<1>4. k[2] = u
  BY DEF AvatarKey
<1>5. /\ c.at = "read" /\ c.user = u /\ c.key = k /\ c.current = avatar[u] /\ c # Idle
      /\ c \in Change
  BY <1>3 DEF IInv, AvatarTypeOK, Change, Idle
<1> HIDE DEF k, c
<1>6. AvatarTypeOK'
  <2>1. change' \in [Handler -> Change]
    BY <1>2, <1>5 DEF IInv, AvatarTypeOK
  <2> QED BY <1>1, <2>1 DEF IInv, AvatarTypeOK
<1>7. DrawnFirst'
  <2> SUFFICES ASSUME NEW v \in User, NEW j \in Image, j \notin drawn, j # i
               PROVE  /\ AvatarKey(v, j) \notin objects
                      /\ AvatarKey(v, j) \notin removals
                      /\ \A w \in User : avatar[w] # urlFor(AvatarKey(v, j))
                      /\ \A g \in Handler : change'[g] # Idle =>
                            /\ change'[g].key # AvatarKey(v, j)
                            /\ change'[g].current # urlFor(AvatarKey(v, j))
    BY <1>1 DEF DrawnFirst
  <2>1. k # AvatarKey(v, j)
    BY KeysDiffer DEF k
  <2> QED BY <1>2, <1>5, <2>1 DEF IInv, DrawnFirst
<1>8. OwnPictures'
  BY <1>1, <1>2, <1>4, <1>5 DEF IInv, OwnPictures
<1>9. /\ k \notin removals
      /\ \A v \in User : avatar[v] # urlFor(k)
      /\ \A g \in Handler : change[g] # Idle =>
           change[g].key # k /\ change[g].current # urlFor(k)
  BY <1>1 DEF IInv, DrawnFirst, k
<1>10. NewIsUnknown'
  BY <1>1, <1>2, <1>5, <1>9 DEF IInv, NewIsUnknown
<1>11. ShownIsKept'
  BY <1>1 DEF IInv, ShownIsKept
<1>12. OneAtATime'
  <2>1. u \notin overlapped' => \A g \in Handler : ~(change[g] # Idle /\ change[g].user = u)
    BY <1>1 DEF Changing
  <2> QED BY <1>1, <1>2, <1>5, <2>1 DEF IInv, OneAtATime
<1>13. NoPictureLeftBehind'
  <2> SUFFICES ASSUME NEW v \in User, v \notin overlapped', v \notin failed,
                      NEW j \in Image, AvatarKey(v, j) \in objects,
                      avatar[v] # urlFor(AvatarKey(v, j)), AvatarKey(v, j) \notin removals
               PROVE  \E g \in Changing(v)' : change'[g].key = AvatarKey(v, j)
    BY <1>1 DEF NoPictureLeftBehind
  <2>1. PICK g \in Changing(v) : change[g].key = AvatarKey(v, j)
    BY <1>1 DEF IInv, NoPictureLeftBehind
  <2>2. g # h /\ g \in Handler
    BY <2>1, <1>1 DEF Changing
  <2> QED BY <2>1, <2>2, <1>2 DEF Changing
<1> QED BY <1>6, <1>7, <1>8, <1>10, <1>11, <1>12, <1>13 DEF IInv

\* The request stores its picture and goes on, or fails.
LEMMA UploadKeeps ==
  ASSUME PlainUrl, IInv, NEW h \in Handler, change[h].at = "read", change[h] # Idle,
         objects' = objects \union {change[h].key},
         \/ change' = [change EXCEPT ![h].at = "uploaded"] /\ failed' = failed
         \/ /\ change' = [change EXCEPT ![h] = Idle]
            /\ failed' = failed \union {change[h].user},
         UNCHANGED <<avatar, removals, drawn, overlapped>>
  PROVE  IInv'
<1> DEFINE k == change[h].key
           u == change[h].user
           c == [change[h] EXCEPT !.at = "uploaded"]
<1>1. change[h] \in Change /\ u \in User /\ k \in Keys /\ change \in [Handler -> Change]
  BY DEF IInv, AvatarTypeOK, Change
<1>2. /\ c.at = "uploaded" /\ c.user = u /\ c.key = k /\ c.current = change[h].current
      /\ c # Idle /\ c \in Change
  BY <1>1 DEF Change, Idle
<1>3. /\ change' \in [Handler -> Change]
      /\ \A g \in Handler \ {h} : change'[g] = change[g]
      /\ \/ change'[h] = c /\ failed' = failed
         \/ change'[h] = Idle /\ failed' = failed \union {u}
  <2>1. Idle \in Change
    BY DEF Change
  <2> QED BY <1>1, <1>2, <2>1
<1>4. objects' = objects \union {k}
  OBVIOUS
<1> HIDE DEF c, k, u
<1>5. AvatarTypeOK'
  BY <1>1, <1>3, <1>4 DEF IInv, AvatarTypeOK
<1>6. k = change[h].key /\ u = change[h].user
  BY DEF k, u
<1>7. DrawnFirst'
  BY <1>2, <1>3, <1>4, <1>6 DEF IInv, DrawnFirst
<1>8. OwnPictures'
  BY <1>2, <1>3, <1>6 DEF IInv, OwnPictures
<1>9. NewIsUnknown'
  BY <1>2, <1>3, <1>4, <1>6 DEF IInv, NewIsUnknown
<1>10. ShownIsKept'
  BY <1>4 DEF IInv, ShownIsKept
<1>11. OneAtATime'
  BY <1>2, <1>3, <1>6 DEF IInv, OneAtATime
<1>12. NoPictureLeftBehind'
  <2> SUFFICES ASSUME NEW v \in User, v \notin overlapped, v \notin failed',
                      NEW j \in Image, AvatarKey(v, j) \in objects',
                      avatar[v] # urlFor(AvatarKey(v, j)), AvatarKey(v, j) \notin removals
               PROVE  \E g \in Handler : /\ change'[g] # Idle /\ change'[g].user = v
                                         /\ change'[g].key = AvatarKey(v, j)
    BY DEF NoPictureLeftBehind, Changing
  <2>1. CASE AvatarKey(v, j) = k
    <3>1. k[2] = u
      BY <1>6 DEF IInv, OwnPictures
    <3>2. v = u
      BY <2>1, <3>1 DEF AvatarKey
    <3>3. change'[h] = c
      BY <1>3, <3>2
    <3> QED BY <2>1, <3>2, <3>3, <1>2
  <2>2. CASE AvatarKey(v, j) # k
    <3>1. AvatarKey(v, j) \in objects /\ v \notin failed
      BY <2>2, <1>3, <1>4
    <3>2. PICK g \in Handler : /\ change[g] # Idle /\ change[g].user = v
                              /\ change[g].key = AvatarKey(v, j)
      BY <3>1 DEF IInv, NoPictureLeftBehind, Changing
    <3> QED BY <2>2, <3>2, <1>3, <1>6
  <2> QED BY <2>1, <2>2
<1> QED BY <1>5, <1>7, <1>8, <1>9, <1>10, <1>11, <1>12 DEF IInv

\* The request gives up, or a removal is lost: nothing that is stored changes.
LEMMA GivingUpKeeps ==
  ASSUME PlainUrl, IInv, UNCHANGED <<avatar, objects, drawn, overlapped>>,
         failed \subseteq failed', failed' \subseteq User,
         \/ /\ removals' = removals
            /\ \E h \in Handler : /\ change[h] # Idle /\ change[h].user \in failed'
                                 /\ change' = [change EXCEPT ![h] = Idle]
         \/ /\ change' = change
            /\ \E k \in removals :
                 /\ removals' = removals \ {k}
                 /\ \A u \in User, i \in Image : k = AvatarKey(u, i) => u \in failed'
  PROVE  IInv'
<1>1. /\ change' \in [Handler -> Change]
      /\ removals' \subseteq removals
      /\ \A g \in Handler : change'[g] # Idle => change'[g] = change[g]
  BY DEF IInv, AvatarTypeOK, Change
<1>2. AvatarTypeOK'
  BY <1>1 DEF IInv, AvatarTypeOK
<1>3. DrawnFirst'
  BY <1>1 DEF IInv, DrawnFirst
<1>4. OwnPictures'
  BY <1>1 DEF IInv, OwnPictures
<1>5. NewIsUnknown'
  BY <1>1 DEF IInv, NewIsUnknown
<1>6. ShownIsKept'
  BY <1>1 DEF IInv, ShownIsKept
<1>7. OneAtATime'
  BY <1>1 DEF IInv, OneAtATime
<1>8. NoPictureLeftBehind'
  <2> SUFFICES ASSUME NEW v \in User, v \notin overlapped, v \notin failed',
                      NEW j \in Image, AvatarKey(v, j) \in objects,
                      avatar[v] # urlFor(AvatarKey(v, j)), AvatarKey(v, j) \notin removals'
               PROVE  \E g \in Changing(v)' : change'[g].key = AvatarKey(v, j)
    BY DEF NoPictureLeftBehind
  <2>1. AvatarKey(v, j) \notin removals
    OBVIOUS
  <2>2. PICK g \in Handler : /\ change[g] # Idle /\ change[g].user = v
                            /\ change[g].key = AvatarKey(v, j)
    BY <2>1 DEF IInv, NoPictureLeftBehind, Changing
  <2>3. change'[g] = change[g]
    BY <2>2 DEF IInv, AvatarTypeOK
  <2> QED BY <2>2, <2>3 DEF Changing
<1> QED BY <1>2, <1>3, <1>4, <1>5, <1>6, <1>7, <1>8 DEF IInv

\* The URL of the picture is written, and the removal of the old one begins or
\* is given up.
LEMMA WriteKeeps ==
  ASSUME PlainUrl, IInv, NEW h \in Handler, change[h].at = "uploaded", change[h] # Idle,
         avatar' = [avatar EXCEPT ![change[h].user] = urlFor(change[h].key)],
         change' = [change EXCEPT ![h] = Idle],
         \/ /\ failed' = failed
            /\ removals' =
                 IF change[h].current = NoAvatar \/ keyFromUrl(change[h].current) = <<>>
                 THEN removals ELSE removals \union {keyFromUrl(change[h].current)}
         \/ failed' = failed \union {change[h].user} /\ removals' = removals,
         UNCHANGED <<objects, drawn, overlapped>>
  PROVE  IInv'
<1> DEFINE k == change[h].key
           u == change[h].user
           old == change[h].current
<1>1. /\ change[h] \in Change /\ u \in User /\ k \in Keys /\ old \in Urls \union {NoAvatar}
      /\ change \in [Handler -> Change] /\ avatar \in [User -> Urls \union {NoAvatar}]
  BY DEF IInv, AvatarTypeOK, Change
<1>2. /\ change' \in [Handler -> Change]
      /\ change'[h] = Idle
      /\ \A g \in Handler \ {h} : change'[g] = change[g]
  <2>1. Idle \in Change
    BY DEF Change
  <2> QED BY <1>1, <2>1
<1>3. /\ avatar' \in [User -> Urls \union {NoAvatar}]
      /\ avatar'[u] = urlFor(k)
      /\ \A v \in User \ {u} : avatar'[v] = avatar[v]
  BY <1>1, UrlFacts
\* The key that is removed is that of the old URL.
<1>4. /\ removals' \subseteq Seq(Segment)
      /\ removals \subseteq removals'
      /\ \A l \in removals' \ removals : l \in Keys /\ old = urlFor(l)
      /\ \A l \in Keys : old = urlFor(l) => l \in removals' \/ u \in failed'
      /\ failed \subseteq failed' /\ failed' \subseteq User
  <2>1. CASE failed' = failed \union {u} /\ removals' = removals
    BY <2>1, <1>1 DEF IInv, AvatarTypeOK
  <2>2. CASE /\ failed' = failed
             /\ removals' = IF old = NoAvatar \/ keyFromUrl(old) = <<>>
                            THEN removals ELSE removals \union {keyFromUrl(old)}
    <3>1. CASE old = NoAvatar
      BY <2>2, <3>1, UrlFacts DEF IInv, AvatarTypeOK
    <3>2. CASE old # NoAvatar
      <4>1. PICK l \in Keys : old = urlFor(l)
        BY <1>1, <3>2 DEF Urls
      <4>2. keyFromUrl(old) = l /\ l # <<>> /\ l \in Seq(Segment)
        BY <4>1, UrlFacts
      <4>3. removals' = removals \union {l}
        BY <2>2, <3>2, <4>2
      <4>4. \A j \in Keys : old = urlFor(j) => j = l
        BY <4>1, UrlFacts
      <4>5. removals \subseteq Seq(Segment) /\ failed \subseteq User
        BY DEF IInv, AvatarTypeOK
      <4> QED BY <2>2, <4>1, <4>2, <4>3, <4>4, <4>5
    <3> QED BY <3>1, <3>2
  <2> QED BY <2>1, <2>2
<1>5. k = change[h].key /\ u = change[h].user /\ old = change[h].current
  OBVIOUS
<1> HIDE DEF k, u, old
<1>6. AvatarTypeOK'
  BY <1>2, <1>3, <1>4 DEF IInv, AvatarTypeOK
<1>7. \A l \in Keys : urlFor(l) = urlFor(k) => l = k
  BY <1>1, UrlFacts
<1>8. DrawnFirst'
  <2> SUFFICES ASSUME NEW v \in User, NEW j \in Image \ drawn
               PROVE  /\ AvatarKey(v, j) \notin objects
                      /\ AvatarKey(v, j) \notin removals'
                      /\ \A w \in User : avatar'[w] # urlFor(AvatarKey(v, j))
                      /\ \A g \in Handler : change'[g] # Idle =>
                            /\ change'[g].key # AvatarKey(v, j)
                            /\ change'[g].current # urlFor(AvatarKey(v, j))
    BY DEF DrawnFirst
  <2> DEFINE l == AvatarKey(v, j)
  <2>1. l \in Keys
    BY DEF Keys
  <2>2. /\ l \notin objects /\ l \notin removals
        /\ \A w \in User : avatar[w] # urlFor(l)
        /\ \A g \in Handler : change[g] # Idle =>
             change[g].key # l /\ change[g].current # urlFor(l)
    BY DEF IInv, DrawnFirst
  <2> HIDE DEF l
  <2>3. l # k /\ old # urlFor(l)
    BY <1>5, <2>2
  <2>4. \A w \in User : avatar'[w] # urlFor(l)
    BY <1>3, <1>7, <2>1, <2>2, <2>3
  <2>5. l \notin removals'
    BY <1>4, <2>2, <2>3
  <2>6. \A g \in Handler : change'[g] # Idle => change'[g].key # l /\ change'[g].current # urlFor(l)
    BY <1>2, <2>2
  <2> QED BY <2>2, <2>4, <2>5, <2>6 DEF l
<1>9. OwnPictures'
  <2>1. \A v \in User, l \in Keys : avatar'[v] = urlFor(l) => l[2] = v
    BY <1>3, <1>5, <1>7 DEF IInv, OwnPictures
  <2>2. \A g \in Handler : change'[g] # Idle =>
          /\ change'[g].key[2] = change'[g].user
          /\ \A l \in Keys : change'[g].current = urlFor(l) => l[2] = change'[g].user
    BY <1>2 DEF IInv, OwnPictures
  <2> QED BY <2>1, <2>2 DEF OwnPictures
<1>10. NewIsUnknown'
  <2> SUFFICES ASSUME NEW g \in Handler, g # h, change[g] # Idle
               PROVE  /\ change[g].key \notin removals'
                      /\ \A v \in User : avatar'[v] # urlFor(change[g].key)
                      /\ \A f \in Handler : change'[f] # Idle =>
                           /\ change'[f].current # urlFor(change[g].key)
                           /\ f # g => change'[f].key # change[g].key
                      /\ change[g].at = "uploaded" => change[g].key \in objects
    BY <1>2 DEF NewIsUnknown
  <2> DEFINE l == change[g].key
  <2>1. l \in Keys
    BY DEF IInv, AvatarTypeOK, Change
  <2>2. /\ l \notin removals
        /\ \A v \in User : avatar[v] # urlFor(l)
        /\ \A f \in Handler : change[f] # Idle =>
             change[f].current # urlFor(l) /\ (f # g => change[f].key # l)
        /\ change[g].at = "uploaded" => l \in objects
    BY DEF IInv, NewIsUnknown
  <2> HIDE DEF l
  <2>3. l # k /\ old # urlFor(l)
    BY <1>5, <2>2
  <2>4. l \notin removals'
    BY <1>4, <2>2, <2>3
  <2>5. \A v \in User : avatar'[v] # urlFor(l)
    BY <1>3, <1>7, <2>1, <2>2, <2>3
  <2>6. \A f \in Handler : change'[f] # Idle =>
          change'[f].current # urlFor(l) /\ (f # g => change'[f].key # l)
    BY <1>2, <2>2
  <2> QED BY <2>2, <2>4, <2>5, <2>6 DEF l
<1>11. ShownIsKept'
  <2> SUFFICES ASSUME NEW v \in User, NEW l \in Keys, avatar'[v] = urlFor(l)
               PROVE  l \in objects /\ l \notin removals'
    BY DEF ShownIsKept
  <2>1. CASE v = u
    <3>1. l = k
      BY <2>1, <1>3, <1>7
    <3>2. k \in objects /\ k \notin removals /\ old # urlFor(k)
      BY <1>5 DEF IInv, NewIsUnknown
    <3> QED BY <3>1, <3>2, <1>4
  <2>2. CASE v # u
    <3>1. avatar[v] = urlFor(l)
      BY <2>2, <1>3
    <3>2. l \in objects /\ l \notin removals /\ l[2] = v
      BY <3>1 DEF IInv, ShownIsKept, OwnPictures
    <3>3. old = urlFor(l) => l[2] = u
      BY <1>5 DEF IInv, OwnPictures
    <3> QED BY <2>2, <3>2, <3>3, <1>4
  <2> QED BY <2>1, <2>2
<1>12. OneAtATime'
  <2> SUFFICES ASSUME NEW v \in User, v \notin overlapped, NEW g \in Handler,
                      change'[g] # Idle, change'[g].user = v
               PROVE  /\ \A f \in Handler : change'[f] # Idle /\ change'[f].user = v => f = g
                      /\ v \notin failed' => change'[g].current = avatar'[v]
    BY DEF OneAtATime
  <2>1. g # h /\ change'[g] = change[g] /\ change[g] # Idle
    BY <1>2
  <2>2. /\ \A f \in Handler : change[f] # Idle /\ change[f].user = v => f = g
        /\ v \notin failed => change[g].current = avatar[v]
    BY <2>1 DEF IInv, OneAtATime
  <2>3. v # u
    BY <2>1, <2>2, <1>5
  <2> QED BY <2>1, <2>2, <2>3, <1>2, <1>3, <1>4
<1>13. NoPictureLeftBehind'
  <2> SUFFICES ASSUME NEW v \in User, v \notin overlapped, v \notin failed',
                      NEW j \in Image, AvatarKey(v, j) \in objects,
                      avatar'[v] # urlFor(AvatarKey(v, j)), AvatarKey(v, j) \notin removals'
               PROVE  \E g \in Changing(v)' : change'[g].key = AvatarKey(v, j)
    BY DEF NoPictureLeftBehind
  <2> DEFINE l == AvatarKey(v, j)
  <2>1. l \in Keys /\ l[2] = v
    BY DEF Keys, AvatarKey
  <2>2. \/ avatar[v] = urlFor(l)
        \/ \E g \in Changing(v) : change[g].key = l
    BY <1>4 DEF IInv, NoPictureLeftBehind
  <2>3. CASE v = u
    <3>1. old = avatar[u]
      BY <2>3, <1>1, <1>4, <1>5 DEF IInv, OneAtATime
    <3>2. avatar[v] # urlFor(l)
      BY <3>1, <2>1, <2>3, <1>4
    <3>3. PICK g \in Changing(v) : change[g].key = l
      BY <2>2, <3>2
    <3>4. g = h
      BY <3>3, <2>3, <1>5 DEF IInv, OneAtATime, Changing
    <3> QED BY <3>3, <3>4, <2>3, <1>3, <1>5
  <2>4. CASE v # u
    <3>1. avatar[v] # urlFor(l)
      BY <2>4, <1>3
    <3>2. PICK g \in Changing(v) : change[g].key = l
      BY <2>2, <3>1
    <3>3. g # h
      BY <3>2, <2>4, <1>5 DEF Changing
    <3> QED BY <3>2, <3>3, <1>2 DEF Changing
  <2> QED BY <2>3, <2>4
<1> QED BY <1>6, <1>8, <1>9, <1>10, <1>11, <1>12, <1>13 DEF IInv

\* An object is removed that no avatar and no new picture is.
LEMMA RemoveKeeps ==
  ASSUME PlainUrl, IInv, NEW k \in removals, remove(k)
  PROVE  IInv'
<1>1. /\ objects' = objects \ {k} /\ removals' = removals \ {k}
      /\ UNCHANGED <<avatar, change, drawn, overlapped, failed>>
  BY DEF remove
<1>2. AvatarTypeOK'
  BY <1>1 DEF IInv, AvatarTypeOK
<1>3. DrawnFirst' /\ OwnPictures'
  BY <1>1 DEF IInv, DrawnFirst, OwnPictures
<1>4. NewIsUnknown'
  BY <1>1 DEF IInv, NewIsUnknown
<1>5. ShownIsKept'
  BY <1>1 DEF IInv, ShownIsKept
<1>6. OneAtATime'
  BY <1>1 DEF IInv, OneAtATime
<1>7. NoPictureLeftBehind'
  BY <1>1 DEF IInv, NoPictureLeftBehind, Changing
<1> QED BY <1>2, <1>3, <1>4, <1>5, <1>6, <1>7 DEF IInv

LEMMA NextKeeps ==
  ASSUME PlainUrl, IInv, [AvatarNext]_pictures
  PROVE  IInv'
<1>1. CASE UNCHANGED pictures
  BY <1>1 DEF pictures, IInv, AvatarTypeOK, DrawnFirst, OwnPictures, NewIsUnknown, ShownIsKept,
              OneAtATime, NoPictureLeftBehind, Changing
<1>2. ASSUME NEW h \in Handler, NEW u \in User, NEW i \in Image, updateAvatar(h, u, i)
      PROVE  IInv'
  BY <1>2, BeginKeeps
<1>3. \A h \in Handler :
        /\ change[h] # Idle => change[h].user \in User
        /\ change[h].at \in {"read", "uploaded"} => change[h] # Idle
  BY DEF IInv, AvatarTypeOK, Change, Idle
<1>4. failed \subseteq User
  BY DEF IInv, AvatarTypeOK
<1>5. ASSUME NEW h \in Handler, uploadFile(h) PROVE IInv'
  BY <1>3, <1>5, UploadKeeps DEF uploadFile
<1>6. ASSUME NEW h \in Handler, UploadUnanswered(h) PROVE IInv'
  BY <1>3, <1>6, UploadKeeps DEF UploadUnanswered
<1>7. ASSUME NEW h \in Handler, WriteUrl(h) PROVE IInv'
  BY <1>3, <1>7, WriteKeeps DEF WriteUrl
<1>8. ASSUME NEW h \in Handler, WriteUnanswered(h) PROVE IInv'
  BY <1>3, <1>8, WriteKeeps DEF WriteUnanswered
<1>9. ASSUME NEW h \in Handler, ChangeFails(h) PROVE IInv'
  BY <1>3, <1>4, <1>9, GivingUpKeeps DEF ChangeFails
<1>10. ASSUME NEW k \in removals, remove(k) PROVE IInv'
  BY <1>10, RemoveKeeps
<1>11. ASSUME NEW k \in removals, RemovalLost(k) PROVE IInv'
  BY <1>4, <1>11, GivingUpKeeps DEF RemovalLost
<1> QED BY <1>1, <1>2, <1>5, <1>6, <1>7, <1>8, <1>9, <1>10, <1>11 DEF AvatarNext

LEMMA Invariance ==
  ASSUME PlainUrl
  PROVE  AvatarSpec => []IInv
<1>1. AvatarInit => IInv
  BY InitIInv
<1>2. IInv /\ [AvatarNext]_pictures => IInv'
  BY NextKeeps
<1> QED BY <1>1, <1>2, PTL DEF AvatarSpec

(***************************************************************************)
(* Theorems                                                                *)
(***************************************************************************)

\* Rows hold URLs of keys or nothing, and the bucket holds avatars only, for
\* any number of users, pictures and requests.
THEOREM TypeCorrect == ASSUME PlainUrl PROVE AvatarSpec => []AvatarTypeOK
<1>1. IInv => AvatarTypeOK
  BY DEF IInv
<1> QED BY <1>1, Invariance, PTL

\* The URL of an avatar always leads to an object in the bucket.
THEOREM AvatarsServed == ASSUME PlainUrl PROVE AvatarSpec => []AvatarsResolve
<1>1. IInv => AvatarsResolve
  <2> SUFFICES ASSUME IInv, NEW u \in User, avatar[u] # NoAvatar
               PROVE  \E k \in objects : Serves(avatar[u], k)
    BY DEF AvatarsResolve
  <2>1. PICK k \in Keys : avatar[u] = urlFor(k)
    BY DEF IInv, AvatarTypeOK, Urls
  <2>2. k \in objects
    BY <2>1 DEF IInv, ShownIsKept
  <2> QED BY <2>1, <2>2, UrlFacts
<1> QED BY <1>1, Invariance, PTL

\* Without overlaps and failures no picture is left behind in the bucket.
THEOREM NothingLeftBehind == ASSUME PlainUrl PROVE AvatarSpec => []NoPictureLeftBehind
<1>1. IInv => NoPictureLeftBehind
  BY DEF IInv
<1> QED BY <1>1, Invariance, PTL
=============================================================================
