-------------------------------- MODULE Social --------------------------------
(***************************************************************************)
(* Posts, likes, comments, follows, avatars and feeds over one set of      *)
(* tables and one files service.                                           *)
(***************************************************************************)
EXTENDS Posts, Followings, Feeds, Lists

Next ==
  \/ \E h \in Slots : \/ PostRequests(h) \/ PostSteps(h)
                      \/ FollowingRequests(h) \/ FollowingSteps(h)
                      \/ FeedRequests(h) \/ FeedSteps(h)
                      \/ ListRequests(h) \/ ListSteps(h)
                      \/ \E c \in calls : CallReturns(h, c)
                      \/ GatewayFails(h)
  \/ \E c \in calls : Unheard(c)
  \/ FilesRun \/ FilesFail \/ GatewayRestarts
  \/ \E u \in tables.user : Moderate(u)
  \/ Tick

Spec == Init /\ [][Next]_vars

(***************************************************************************)
(* Properties.                                                             *)
(***************************************************************************)

\* A request or a call is at work on post p.
InWork(p) ==
  \/ \E h \in Slots : p \in PostInWork(h)
  \/ \E c \in calls : c.op \in {"uploadPostPhoto", "deletePostPhotos"} /\ c.about = p

\* The rows of posts and the photos kept by another service go together
\* although no transaction spans them: a post that nothing is at work on has
\* all its photos with their files, and a photo has its post, unless an
\* addition or a deletion of that post failed.  Requests that overlap do no
\* harm, late answers and files deleted in the background included.
PhotosFollowPosts ==
  /\ \A p \in LiveRows(tables.post) \ broken : ~InWork(p) =>
       /\ Cardinality(PhotosOf(p)) = tables.post[p].files
       /\ KeysOf(p) \subseteq bucket \ unlink
  /\ \A x \in photos : IsRow(tables.post, x.post) \/ InWork(x.post) \/ x.post \in broken
  /\ feed.open /\ feed.kind \in Kinds => \A i \in DOMAIN feed.seen : feed.seen[i].full \/ feed.seen[i].post \in broken

\* The avatar a user has is a file that exists, whatever uploads and deletions
\* overlap: it lacks its file only while a call about him is under way, or
\* after one that failed half-way (the calls that may still fail are bounded).
AvatarHasItsFile ==
  \A a \in avatars :
    \/ a.key \in bucket
    \/ \E c \in calls : c.op \in AvatarOps /\ c.about = a.owner
    \/ faults < scene.faults

\* A user has one like of a post or comment, which the next click takes back:
\* two are there only when their requests overlapped, since nothing but the
\* read before the insert prevents it.
OneLikePerUser ==
  \A likes \in {tables.like, tables.commentLike} :
    \A j, k \in LiveRows(likes) :
      j # k /\ likes[j].user = likes[k].user /\ likes[j].on = likes[k].on
        => ~likes[j].alone \/ ~likes[k].alone

ShownTimes(p) == Cardinality({i \in DOMAIN feed.seen : feed.seen[i].post = p})

TwoLikes(p) == Cardinality(LikesOf(tables.like, p, feed.reader)) > 1

\* Who reads a feed to its end, newest or oldest first, has seen every post
\* that was there all the time, and saw it once, while posts are added,
\* changed and deleted and users banned between his pages.  He may miss one
\* made at the very time of another, and sees some again when the post a page
\* begins after was deleted, or when he has two likes on it.  (Sorted by the
\* time of the last change no such thing holds, see PastCursor.)
ReaderSeesEachPost ==
  feed.open /\ feed.kind \in Kinds /\ feed.over /\ feed.by = "createdAt" =>
    \A p \in feed.steady :
      (\A x \in feed.after : x.created = tables.post[p].created => x.post = p) =>
        /\ ShownTimes(p) >= 1
        /\ ShownTimes(p) = 1 \/ feed.restarted \/ TwoLikes(p)

TimesSeen(e) == Cardinality({i \in DOMAIN feed.seen : feed.seen[i] = e})

\* Sorting does not tell the lines of e from each other, or from another's.
Tied(e) ==
  \E l, m \in Lines(tables, feed) :
    l.entry = e /\ l # m /\ l.key = m.key /\ l.first = m.first

\* Of two users the one with the lower id is also listed before the other.
IdsAgree ==
  \A u, v \in tables.user :
    tables.id[u] < tables.id[v] => feed.kind = "search" \/ tables.place[u] > tables.place[v]

\* Who reads a list to its end has seen every entry that was there all the
\* time, and saw it once.  Pages counted off from the beginning show an entry
\* again when another came before it, and skip one when another left or two
\* have one date; nothing else in the code can.  Users sought for by id are
\* all shown, whoever is banned or unbanned meanwhile; but followers and
\* followees, asked for after an id and sorted by date, only when ids and
\* dates agree, which ids drawn at random do not.
ReaderSeesEachEntry ==
  feed.open /\ feed.kind \in ListKinds /\ feed.over =>
    \A e \in feed.steady :
      IF feed.kind \in CursorKinds THEN IdsAgree => TimesSeen(e) = 1
      ELSE \/ Tied(e)
           \/ (TimesSeen(e) >= 1 \/ feed.went) /\ (TimesSeen(e) <= 1 \/ feed.came)

\* No request that overlapped nothing is answered 500, unless something failed.
ServerErrorOnlyByRace == oops = {}
===============================================================================
