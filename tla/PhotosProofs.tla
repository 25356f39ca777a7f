----------------------------- MODULE PhotosProofs -----------------------------
(* Posts and their photos, which another service keeps and no transaction   *)
(* covers, go together, and a request alone meets no unexpected error, for  *)
(* every value of the constants of Social.                                  *)
EXTENDS SocialProofs, FiniteSetTheorems, FunctionTheorems

(***************************************************************************)
(* Posts and their photos: a request at work on a post is adding or        *)
(* deleting it.                                                            *)
(***************************************************************************)

Adds(h) == At(h, {"addPost"}, "calls") \/ At(h, {"addPost"}, "commit")
Deletes(h) == At(h, {"deletePost"}, "calls") \/ At(h, {"deletePost"}, "commit")
Added(h) == Got(h, "post").id

UploadsOf(p) == {c \in calls : c.op = "uploadPostPhoto" /\ c.about = p}
DeletionsOf(p) == {c \in calls : c.op = "deletePostPhotos" /\ c.about = p}

\* The photos post p has and is to get.
Pictures(p) ==
  PhotosOf(p) \cup {[post |-> p, key |-> c.no] : c \in {d \in UploadsOf(p) : d.pc # "done"}}

\* The files of its photos are there to stay.
Kept(p) == \A x \in PhotosOf(p) : x.key \in bucket \ unlink

\* A request waits for its own calls.
CallOf(op) ==
  CASE op = "addPost" -> "uploadPostPhoto"
    [] op = "deletePost" -> "deletePostPhotos"
    [] OTHER -> op
Subject(h) ==
  CASE job[h].op = "addPost" -> Added(h)
    [] job[h].op = "deletePost" -> Arg(h).post
    [] OTHER -> Arg(h).user

WaitInv == \A h \in Slots : Busy(h) /\ job[h].pc = "calls" =>
  /\ job[h].op \in {"addPost", "deletePost"} \cup AvatarOps
  /\ job[h].todo \subseteq 1..made
  /\ \A c \in calls : c.no \in job[h].todo => c.op = CallOf(job[h].op) /\ c.about = Subject(h)

\* A post that is being added is nobody else's business; when its calls have
\* been answered it has all its photos.
AddsInv == \A h \in Slots : Adds(h) => \A p \in PostInWork(h) :
  /\ p \in DOMAIN tables.post \ LiveRows(tables.post)
  /\ \A g \in Slots : Adds(g) /\ p \in PostInWork(g) => g = h
  /\ \A c \in UploadsOf(p) : c.no \in job[h].todo
  /\ job[h].pc = "commit" => job[h].todo = {}
  /\ Cardinality(Pictures(p)) = Arg(h).files /\ Kept(p)

\* A post that is being deleted was added before; when the call has been
\* answered it has no photos.
NotAdded(p) ==
  /\ p \in DOMAIN tables.post /\ UploadsOf(p) = {}
  /\ \A g \in Slots : Adds(g) => p \notin PostInWork(g)

DeletesInv ==
  /\ \A h \in Slots : Deletes(h) => \A p \in PostInWork(h) :
       /\ NotAdded(p)
       /\ job[h].pc = "commit" => PhotosOf(p) = {}
  /\ \A c \in calls : c.op = "deletePostPhotos" =>
       /\ NotAdded(c.about)
       /\ c.pc = "done" => PhotosOf(c.about) = {}

\* A photo that is being stored is of a post not yet there; its number is new.
PutsInv == \A c \in calls : c.op = "uploadPostPhoto" =>
  /\ c.about \in DOMAIN tables.post \ LiveRows(tables.post)
  /\ c.about \in broken \/ \E h \in Slots : Adds(h) /\ c.about \in PostInWork(h)
  /\ c.pc \in {"put", "insert"} =>
       /\ \A x \in photos : x.key # c.no
       /\ c.no \notin unlink
       /\ c.pc = "insert" => c.no \in bucket

\* Photos are of posts, and no two of them, nor an avatar to be deleted, have
\* one file.
PhotosInv == \A x \in photos :
  /\ x = [post |-> x.post, key |-> x.key] /\ x.post \in DOMAIN tables.post
  /\ \/ IsRow(tables.post, x.post) \/ x.post \in broken
     \/ \E h \in Slots : x.post \in PostInWork(h)
  /\ \A y \in photos : x.key = y.key => x = y
  /\ \A c \in calls : Found(c) => c.key # x.key

\* A post nobody is at work on has its photos.
PostsInv ==
  /\ IsSeq(tables.post)
  /\ \A p \in LiveRows(tables.post) \ broken :
       (\A h \in Slots : p \notin PostInWork(h)) =>
         /\ Cardinality(PhotosOf(p)) = tables.post[p].files /\ Kept(p)
         /\ DeletionsOf(p) = {}

\* What a reader was shown, and asks for.
FeedShown ==
  /\ feed.open \in BOOLEAN
  /\ feed.open => {"open", "kind", "seen"} \subseteq DOMAIN feed
  /\ feed.open /\ feed.kind \in Kinds =>
       /\ IsSeq(feed.seen)
       /\ \A i \in DOMAIN feed.seen : feed.seen[i].full \/ feed.seen[i].post \in broken

AsksFeed(h) == Busy(h) =>
  /\ job[h].op = "list" => feed.open /\ feed.kind \in ListKinds
  /\ job[h].op = "page" => feed.open /\ feed.kind \in Kinds
  /\ job[h].op = "page" /\ job[h].pc = "photos" => IsSeq(Got(h, "page"))

FeedInv == FeedShown /\ \A h \in Slots : AsksFeed(h)

PicturesInv ==
  WaitInv /\ AddsInv /\ DeletesInv /\ PutsInv /\ PhotosInv /\ PostsInv /\ FeedInv

(***************************************************************************)
(* What a step does to posts, photos and the requests at work on them.     *)
(***************************************************************************)

PhotoOps == {"uploadPostPhoto", "deletePostPhotos"}
Works(h) == Adds(h) \/ Deletes(h)

SameWork(g) ==
  /\ Adds(g)' <=> Adds(g)
  /\ Deletes(g)' <=> Deletes(g)
  /\ Works(g) => /\ job'[g].pc = job[g].pc /\ job'[g].todo = job[g].todo
                 /\ job'[g].got = job[g].got /\ job'[g].arg = job[g].arg

Alike(d) ==
  /\ d.post = [p \in DOMAIN tables.post |-> d.post[p]]
  /\ \A p \in DOMAIN tables.post :
       /\ d.post[p].live = tables.post[p].live
       /\ tables.post[p].live => d.post[p].files = tables.post[p].files

SamePosts == Alike(tables')

\* The requests of H drop their posts, all others go on as they were.
JobsEase(H) ==
  /\ \A g \in Slots \ H : SameWork(g)
  /\ \A g \in H : ~Works(g)' /\ PostInWork(g) \subseteq broken'
  /\ broken \subseteq broken'

\* Call c has failed as d.
Lost(c, d) ==
  c.pc # "done" /\ d.pc = "lost" /\ d.no = c.no /\ d.op = c.op /\ d.about = c.about

\* Calls about photos fail, and are forgotten when nobody adds their post; the
\* only files to go are unlinked, or those of avatars.
FilesEase(H) ==
  /\ photos' = photos /\ unlink' \subseteq unlink
  /\ \A d \in calls' : d.op \in PhotoOps => d \in calls \/ \E c \in calls : Lost(c, d)
  /\ \A c \in calls : c.op = "uploadPostPhoto" =>
       \/ c \in calls' \/ \E d \in calls' : Lost(c, d)
       \/ \A g \in Slots \ H : Adds(g) => c.about \notin PostInWork(g)
  /\ \A k \in bucket \ unlink : (\A c \in calls : Found(c) => c.key # k) => k \in bucket' \ unlink'

Eases(H) == JobsEase(H) /\ FilesEase(H) /\ SamePosts

LEMMA WorkPosts ==
  ASSUME NEW h
  PROVE  /\ PostInWork(h) = IF Adds(h) THEN {Added(h)} ELSE IF Deletes(h) THEN {Arg(h).post} ELSE {}
         /\ (PostInWork(h) = IF Adds(h) THEN {Added(h)} ELSE IF Deletes(h) THEN {Arg(h).post} ELSE {})'
BY DEF PostInWork, Adds, Deletes, Added, At

LEMMA PostsUntouched == ASSUME PostsInv, tables'.post = tables.post PROVE SamePosts
  BY DEF PostsInv, IsSeq, SamePosts, Alike

LEMMA FilesUntouched == ASSUME NEW H, UNCHANGED filesVars PROVE FilesEase(H)
  BY DEF FilesEase, filesVars

\* A handler not at work on a post goes on, or ends.
LEMMA WorkGoesOn ==
  ASSUME NEW h \in Slots, ~Works(h), NEW j, job' = [job EXCEPT ![h] = j], DOMAIN job = Slots,
         \/ j = Idle
         \/ j.op \notin {"addPost", "deletePost"}
         \/ j.pc \notin {"calls", "commit"}
  PROVE  \A g \in Slots : SameWork(g)
<1>1. \A g \in Slots \ {h} : job'[g] = job[g]
  OBVIOUS
<1>2. ~Works(h)'
  BY DEF Works, Adds, Deletes, At, Busy, Idle
<1>3. SameWork(h)
  BY <1>2 DEF SameWork, Works
<1> QED
  BY <1>1, <1>3 DEF SameWork, Adds, Deletes, At, Busy

LEMMA OthersGoOn ==
  ASSUME JobsInv, NEW h \in Slots, GoesOn(h), job[h].op \notin {"addPost", "deletePost"}
  PROVE  \A g \in Slots : SameWork(g)
<1>1. job' = [job EXCEPT ![h] = job'[h]] /\ DOMAIN job = Slots /\ ~Works(h)
  BY DEF GoesOn, JobsInv, Works, Adds, Deletes, At
<1>2. job'[h] = Idle \/ job'[h].op \notin {"addPost", "deletePost"}
  BY DEF GoesOn
<1> DEFINE j == job'[h]
<1> HIDE DEF j
<1> QED
  BY <1>1, <1>2, WorkGoesOn DEF j

LEMMA WorkBeside ==
  ASSUME JobsInv, NEW h \in Slots, Begins(h)
  PROVE  \A g \in Slots : SameWork(g)
<1> TAKE g \in Slots
<1>1. CASE g = h
  <2>1. ~Works(h) /\ ~Works(h)'
    BY <1>1 DEF Begins, Works, Adds, Deletes, At
  <2> QED BY <1>1, <2>1 DEF SameWork, Works
<1>2. CASE g # h /\ Busy(g)
  <2> DEFINE j == [job[g] EXCEPT !.alone = FALSE]
  <2>1. job'[g] = j
    BY <1>2 DEF Begins
  <2>2. j.op = job[g].op /\ j.pc = job[g].pc /\ j.todo = job[g].todo /\ j.got = job[g].got
        /\ j.arg = job[g].arg /\ DOMAIN j = Fields
    BY <1>2 DEF JobsInv, Fields
  <2>3. j # Idle
    BY <2>2 DEF Fields, Idle
  <2> QED BY <1>2, <2>1, <2>2, <2>3 DEF SameWork, Works, Adds, Deletes, At, Busy
<1>3. CASE g # h /\ ~Busy(g)
  BY <1>3 DEF Begins, SameWork, Works, Adds, Deletes, At, Busy
<1> QED
  BY <1>1, <1>2, <1>3

LEMMA RequestsEase ==
  ASSUME JobsInv, PostsInv, NEW h \in Slots,
         PostRequests(h) \/ FollowingRequests(h) \/ FeedRequests(h) \/ ListRequests(h)
  PROVE  Eases({})
<1>1. \A g \in Slots : SameWork(g)
  <2>1. CASE Begins(h)
    BY <2>1, WorkBeside
  <2>2. CASE UNCHANGED job
    BY <2>2 DEF SameWork, Adds, Deletes, At, Busy
  <2> QED BY <2>1, <2>2, RequestsBegin
<1>2. broken' = broken
  <2>1. \A op, arg, pc, todo : Ask(h, op, arg, pc, todo) => broken' = broken
    BY DEF Ask
  <2>2. CASE PostRequests(h) \/ FollowingRequests(h)
    BY <2>1, <2>2 DEF PostRequests, FollowingRequests
  <2>3. CASE FeedRequests(h)
    BY <2>1, <2>3 DEF FeedRequests, PageRequest, OpenFeed
  <2>4. CASE ListRequests(h)
    BY <2>1, <2>4 DEF ListRequests, ListRequest, OpenList
  <2> QED BY <2>2, <2>3, <2>4
<1>3. UNCHANGED filesVars /\ SamePosts
  BY RequestsOnly, RequestsBegin, PostsUntouched
<1> QED
  BY <1>1, <1>2, <1>3, FilesUntouched DEF Eases, JobsEase

(***************************************************************************)
(* The steps that deal with a post and its photos.                         *)
(***************************************************************************)

\* The posts stay, and so do the files; h is idle or goes on with another await.
LEMMA WorkElsewhere ==
  ASSUME JobsInv, PostsInv, NEW h \in Slots, Busy(h), ~Works(h)
  PROVE  /\ \A endpoint, result : Answer(h, endpoint, result) => Eases({})
         /\ \A name, values, pc :
              Read(h, name, values, pc) /\ (pc \notin {"calls", "commit"} \/ job[h].op \notin {"addPost", "deletePost"})
              => Eases({})
         /\ \A new, endpoint : Commit(h, new, endpoint) /\ SamePosts => Eases({})
<1>1. DOMAIN job = Slots /\ DOMAIN job[h] = Fields
  BY DEF JobsInv, Fields
<1>2. ASSUME NEW endpoint, NEW result, Answer(h, endpoint, result) PROVE Eases({})
  <2>1. job' = [job EXCEPT ![h] = Idle]
    BY <1>2 DEF Answer, Reply
  <2>2. \A g \in Slots : SameWork(g)
    BY <1>1, <2>1, WorkGoesOn
  <2> QED BY <1>2, <2>2, PostsUntouched, FilesUntouched DEF Answer, Eases, JobsEase
<1>3. ASSUME NEW name, NEW values, NEW pc, Read(h, name, values, pc),
             pc \notin {"calls", "commit"} \/ job[h].op \notin {"addPost", "deletePost"}
      PROVE  Eases({})
  <2>1. PICK v \in values : Learn(h, name, v, pc)
    BY <1>3 DEF Read
  <2> DEFINE j == [job[h] EXCEPT !.got = With(@, name, v), !.todo = @ \ {name},
                                 !.pc = IF job[h].todo \ {name} = {} THEN pc ELSE @]
  <2>2. job' = [job EXCEPT ![h] = j]
    BY <1>1, <2>1 DEF Learn
  <2>3. j.op = job[h].op /\ j.pc \in {pc, job[h].pc}
    BY <1>1 DEF Fields
  <2>4. j.op \notin {"addPost", "deletePost"} \/ j.pc \notin {"calls", "commit"}
    BY <1>3, <2>3 DEF Works, Adds, Deletes, At
  <2> HIDE DEF j
  <2>5. \A g \in Slots : SameWork(g)
    BY <1>1, <2>2, <2>4, WorkGoesOn
  <2> QED BY <1>3, <2>5, PostsUntouched, FilesUntouched DEF Read, Eases, JobsEase
<1>4. ASSUME NEW new, NEW endpoint, Commit(h, new, endpoint), SamePosts PROVE Eases({})
  <2>1. job' = [job EXCEPT ![h] = Idle]
    BY <1>4 DEF Commit, Reply
  <2>2. \A g \in Slots : SameWork(g)
    BY <1>1, <2>1, WorkGoesOn
  <2> QED BY <1>4, <2>2, FilesUntouched DEF Commit, Eases, JobsEase
<1> QED
  BY <1>2, <1>3, <1>4

\* What the commits of other requests make of the posts.
LEMMA OtherWrites ==
  ASSUME TablesInv, PostsInv
  PROVE  /\ \A p, date : updatePost(tables, p, date) = Thrown \/ Alike(updatePost(tables, p, date))
         /\ \A p, u, alone : addLike(tables, p, u, alone) = Thrown \/ Alike(addLike(tables, p, u, alone))
         /\ \A k, s : updateLike(tables, k, s) = Thrown \/ Alike(updateLike(tables, k, s))
         /\ \A c, u, s, alone : addCommentLike(tables, c, u, s, alone) = Thrown
                                 \/ Alike(addCommentLike(tables, c, u, s, alone))
         /\ \A k, s : updateCommentLike(tables, k, s) = Thrown \/ Alike(updateCommentLike(tables, k, s))
         /\ \A p, u, a, time : addComment(tables, p, u, a, time) = Thrown
                                 \/ Alike(addComment(tables, p, u, a, time))
         /\ \A pair : createFollow(tables, pair) = Thrown \/ Alike(createFollow(tables, pair))
         /\ \A pair : deleteFollow(tables, pair) = Thrown \/ Alike(deleteFollow(tables, pair))
<1>1. \A d : d.post = tables.post => Alike(d)
  BY DEF Alike, PostsInv, IsSeq
<1>2. ASSUME NEW p, NEW date PROVE updatePost(tables, p, date) = Thrown \/ Alike(updatePost(tables, p, date))
  <2>1. CASE IsRow(tables.post, p)
    <3> DEFINE row == [tables.post[p] EXCEPT !.updated = date]
               d == [tables EXCEPT !.post = [@ EXCEPT ![p] = row]]
    <3>1. d.post = [tables.post EXCEPT ![p] = row]
      BY DEF TablesInv
    <3>2. row.live = tables.post[p].live /\ row.files = tables.post[p].files
      OBVIOUS
    <3> HIDE DEF row
    <3>3. Alike(d)
      BY <3>1, <3>2 DEF Alike
    <3> QED BY <2>1, <3>3 DEF updatePost, Statement, row
  <2> QED BY <2>1 DEF updatePost, Statement
<1>3. \A name \in {"comment", "like", "commentLike", "follow"} : \A value :
        Alike([tables EXCEPT ![name] = value])
  BY <1>1 DEF TablesInv
<1> QED
  BY <1>2, <1>3 DEF addLike, updateLike, addCommentLike, updateCommentLike, addComment,
     createFollow, deleteFollow, Statement

\* A post is on its way, is there, is going, or is gone.
AddBegins(h) == AddPostUploads(h)
AddCommits(h) ==
  /\ AddPostEnds(h)
  /\ addPost(tables, Added(h), Arg(h).user, Got(h, "post").created, Arg(h).files) # Thrown
DeleteBegins(h) ==
  /\ At(h, {"deletePost"}, "find") /\ getPostById(tables, Arg(h).post) # 0
  /\ CallFiles(h, "post", Arg(h).post, 1, "deletePostPhotos", Arg(h).post, "find")
  /\ UNCHANGED tables
DeleteCommits(h) == DeletePostEnds(h) /\ deletePost(tables, Arg(h).post) # Thrown

PostStep(h) == AddBegins(h) \/ AddCommits(h) \/ DeleteBegins(h) \/ DeleteCommits(h)

\* The requests of H end without having done their work.
LEMMA WorkDropped ==
  ASSUME NEW H \in SUBSET Slots, \A g \in H : job'[g] = Idle /\ PostInWork(g) \subseteq broken',
         \A g \in Slots \ H : job'[g] = job[g], broken \subseteq broken'
  PROVE  JobsEase(H)
<1>1. \A g \in H : ~Works(g)'
  BY DEF Works, Adds, Deletes, At, Busy
<1>2. \A g \in Slots \ H : SameWork(g)
  BY DEF SameWork, Adds, Deletes, At, Busy
<1> QED
  BY <1>1, <1>2 DEF JobsEase

LEMMA CommitThrown ==
  ASSUME JobsInv, PostsInv, NEW h \in Slots, NEW endpoint, Commit(h, Thrown, endpoint)
  PROVE  Eases({h})
<1>1. job' = [job EXCEPT ![h] = Idle] /\ broken' = broken \cup PostInWork(h)
  BY DEF Commit, Reply
<1>2. JobsEase({h})
  BY <1>1, WorkDropped DEF JobsInv
<1> QED
  BY <1>2, PostsUntouched, FilesUntouched DEF Commit, Eases

LEMMA HandlersEase ==
  ASSUME TablesInv, JobsInv, PostsInv, NEW h \in Slots,
         PostSteps(h) \/ FollowingSteps(h) \/ FeedSteps(h) \/ ListSteps(h)
  PROVE  PostStep(h) \/ Eases({}) \/ Eases({h})
<1>1. ASSUME Busy(h), ~Works(h), NEW new, NEW endpoint, Commit(h, new, endpoint),
             new = Thrown \/ Alike(new)
      PROVE  Eases({}) \/ Eases({h})
  <2>1. CASE new = Thrown
    BY <1>1, <2>1, CommitThrown
  <2>2. CASE new # Thrown
    BY <1>1, <2>2, WorkElsewhere DEF Commit, SamePosts
  <2> QED BY <2>1, <2>2
<1>2. ASSUME Busy(h), ~Works(h), NEW name, NEW values, NEW pc, Read(h, name, values, pc),
             pc \notin {"calls", "commit"} \/ job[h].op \notin {"addPost", "deletePost"}
      PROVE  Eases({})
  BY <1>2, WorkElsewhere
<1>3. ASSUME Busy(h), ~Works(h), NEW endpoint, NEW result, Answer(h, endpoint, result) PROVE Eases({})
  BY <1>3, WorkElsewhere
<1>4. ASSUME NEW ops, NEW pc, At(h, ops, pc),
             pc \notin {"calls", "commit"} \/ ops \cap {"addPost", "deletePost"} = {}
      PROVE  Busy(h) /\ ~Works(h)
  BY <1>4 DEF At, Works, Adds, Deletes
<1>5. ASSUME AddPostFinds(h) \/ UpdatePostFinds(h) PROVE Eases({})
  BY <1>2, <1>3, <1>4, <1>5 DEF AddPostFinds, UpdatePostFinds
<1>6. CASE AddPostUploads(h)
  BY <1>6 DEF PostStep, AddBegins
<1>7. CASE AddPostEnds(h)
  BY <1>7, CommitThrown DEF PostStep, AddCommits, AddPostEnds, Added
<1>8. CASE UpdatePostEnds(h)
  BY <1>1, <1>4, <1>8, OtherWrites DEF UpdatePostEnds
<1>9. CASE DeletePostFinds(h)
  <2>1. Busy(h) /\ ~Works(h)
    BY <1>4, <1>9 DEF DeletePostFinds
  <2> QED BY <1>3, <1>9, <2>1 DEF DeletePostFinds, MineOrAnswer, PostStep, DeleteBegins
<1>10. CASE DeletePostEnds(h)
  BY <1>10, CommitThrown DEF PostStep, DeleteCommits, DeletePostEnds
<1>11. CASE LikeReads(h)
  BY <1>2, <1>4, <1>11 DEF LikeReads
<1>12. CASE LikePostEnds(h)
  BY <1>1, <1>3, <1>4, <1>12, OtherWrites DEF LikePostEnds, NewOrToggled
<1>13. CASE LikeCommentEnds(h)
  BY <1>1, <1>3, <1>4, <1>13, OtherWrites DEF LikeCommentEnds
<1>14. CASE CommentReads(h)
  BY <1>2, <1>3, <1>4, <1>14 DEF CommentReads
<1>15. CASE CommentEnds(h) \/ AnswerEnds(h)
  BY <1>1, <1>4, <1>15, OtherWrites DEF CommentEnds, AnswerEnds
<1>16. CASE FollowFinds(h) \/ FollowChecks(h)
  BY <1>2, <1>3, <1>4, <1>16 DEF FollowFinds, FollowChecks
<1>17. CASE FollowEnds(h) \/ UnfollowEnds(h)
  BY <1>1, <1>4, <1>17, OtherWrites DEF FollowEnds, UnfollowEnds
<1>18. CASE AvatarFinds(h)
  <2>1. Busy(h) /\ ~Works(h)
    BY <1>4, <1>18 DEF AvatarFinds
  <2>2. CASE CallFiles(h, "user", Arg(h).user, 1, job[h].op, Arg(h).user, "find") /\ UNCHANGED tables
    <3>1. job[h].op \in AvatarOps
      BY <1>18 DEF AvatarFinds, At
    <3>2. GoesOn(h)
      BY <2>1, <2>2, <3>1, StepsGoOn DEF CallFiles, AvatarOps, LikeOps
    <3>3. \A g \in Slots : SameWork(g)
      BY <3>1, <3>2, OthersGoOn DEF AvatarOps
    <3>4. FilesEase({})
      <4>1. Send(1, job[h].op, Arg(h).user, "find")
        BY <2>2 DEF CallFiles
      <4>2. /\ \A d \in calls' : d \in calls \/ d.op = job[h].op
            /\ calls \subseteq calls' /\ UNCHANGED <<photos, bucket, unlink>>
        BY <4>1 DEF Send, Call
      <4>3. job[h].op \notin PhotoOps
        BY <3>1 DEF PhotoOps, AvatarOps
      <4> QED BY <4>2, <4>3 DEF FilesEase
    <3> QED BY <2>2, <3>3, <3>4, PostsUntouched DEF CallFiles, Eases, JobsEase
  <2> QED BY <1>3, <1>18, <2>1, <2>2 DEF AvatarFinds
<1>19. CASE AvatarEnds(h)
  BY <1>3, <1>4, <1>19 DEF AvatarEnds, AvatarOps
<1>20. CASE PageFollowees(h) \/ PageCursor(h)
  BY <1>2, <1>4, <1>20 DEF PageFollowees, PageCursor
<1>21. CASE PageReads(h)
  <2>1. Busy(h) /\ ~Works(h) /\ job[h].op = "page"
    BY <1>4, <1>21 DEF PageReads, At
  <2>2. PICK page : Learn(h, "page", page, "photos")
    BY <1>21 DEF PageReads
  <2>3. GoesOn(h)
    BY <2>1, <2>2, StepsGoOn DEF LikeOps
  <2>4. \A g \in Slots : SameWork(g)
    BY <2>1, <2>3, OthersGoOn
  <2>5. UNCHANGED <<tables, broken, filesVars>>
    BY <1>21 DEF PageReads
  <2> QED BY <2>4, <2>5, PostsUntouched, FilesUntouched DEF Eases, JobsEase
<1>22. ASSUME PageEnds(h) \/ ShowPage(h) PROVE Eases({})
  <2>1. Busy(h) /\ ~Works(h)
    BY <1>4, <1>22 DEF PageEnds, ShowPage
  <2>2. job' = [job EXCEPT ![h] = Idle] /\ DOMAIN job = Slots
    BY <1>22 DEF PageEnds, ShowPage, Reply, JobsInv
  <2>3. \A g \in Slots : SameWork(g)
    BY <2>1, <2>2, WorkGoesOn
  <2> QED BY <1>22, <2>3, PostsUntouched, FilesUntouched DEF PageEnds, ShowPage, Eases, JobsEase
<1>23. CASE CommentsFind(h) \/ AnswersFind(h)
  BY <1>2, <1>3, <1>4, <1>23 DEF CommentsFind, AnswersFind, FindOrAnswer
<1> QED
  BY <1>5, <1>6, <1>7, <1>8, <1>9, <1>10, <1>11, <1>12, <1>13, <1>14, <1>15, <1>16, <1>17, <1>18,
     <1>19, <1>20, <1>21, <1>22, <1>23
  DEF PostSteps, FollowingSteps, FeedSteps, ListSteps, CommentsRead, AnswersRead, FollowersRead,
      FollowingRead, SearchRead, AdminListsRead

(***************************************************************************)
(* The other steps.                                                        *)
(***************************************************************************)

\* A request at work on a post has one more answer.
Answers(h, c) ==
  Works(h) /\ CallReturns(h, c) /\ c.pc = "done" /\ Returned(h, c.no, "commit")

PhotoStep(c) ==
  savePostPhoto(c) \/ addPostPhoto(c) \/ findPostPhotos(c) \/ deleteAllPostPhotos(c)

\* When a call is forgotten the request that made it has ended.
LEMMA Forgotten ==
  ASSUME NEW H, NEW c \in calls, Answered(c), calls' = calls \ {c},
         UNCHANGED <<photos, bucket, unlink>>,
         c.op = "uploadPostPhoto" => \A g \in Slots \ H : Adds(g) => c.about \notin PostInWork(g)
  PROVE  FilesEase(H)
  BY DEF FilesEase

LEMMA AnswersEase ==
  ASSUME JobsInv, WaitInv, AddsInv, PostsInv, NEW h \in Slots, NEW c \in calls, CallReturns(h, c)
  PROVE  Answers(h, c) \/ Eases({}) \/ Eases({h})
<1>1. /\ Busy(h) /\ job[h].pc = "calls" /\ Answered(c) /\ c.no \in job[h].todo
      /\ calls' = calls \ {c} /\ tables' = tables /\ UNCHANGED <<photos, bucket, unlink>>
  BY DEF CallReturns
<1>2. c.op = CallOf(job[h].op) /\ c.about = Subject(h)
      /\ job[h].op \in {"addPost", "deletePost"} \cup AvatarOps
  BY <1>1 DEF WaitInv
<1>3. DOMAIN job = Slots /\ DOMAIN job[h] = Fields
  BY <1>1 DEF JobsInv, Fields
<1>4. c.op = "uploadPostPhoto" => \A g \in Slots \ {h} : Adds(g) => c.about \notin PostInWork(g)
  <2>1. c.op = "uploadPostPhoto" => Adds(h) /\ c.about \in PostInWork(h)
    BY <1>1, <1>2, WorkPosts DEF CallOf, Subject, Adds, At, AvatarOps
  <2> QED BY <2>1 DEF AddsInv
<1>5. CASE c.pc = "done" /\ Returned(h, c.no, "commit")
  <2>1. CASE Works(h)
    BY <1>5, <2>1 DEF Answers
  <2>2. CASE ~Works(h)
    <3>1. GoesOn(h)
      BY <1>1, <1>2, <1>5, StepsGoOn DEF AvatarOps, LikeOps
    <3>2. job[h].op \notin {"addPost", "deletePost"}
      BY <1>1, <2>2 DEF Works, Adds, Deletes, At
    <3>3. \A g \in Slots : SameWork(g)
      BY <3>1, <3>2, OthersGoOn
    <3>4. c.op # "uploadPostPhoto"
      BY <1>2, <3>2 DEF CallOf, AvatarOps
    <3>5. broken' = broken
      BY <1>5 DEF CallReturns, Answered
    <3> QED BY <1>1, <3>3, <3>4, <3>5, Forgotten, PostsUntouched DEF Eases, JobsEase
  <2> QED BY <2>1, <2>2
<1>6. CASE job' = [job EXCEPT ![h] = Idle] /\ broken' = broken \cup PostInWork(h)
  BY <1>1, <1>3, <1>4, <1>6, WorkDropped, Forgotten, PostsUntouched DEF Eases
<1> QED
  BY <1>5, <1>6 DEF CallReturns, Reply, Abandon

\* A call that fails is about what it was.
LEMMA CallsFail ==
  ASSUME NumbersInv, PostsInv, FilesFail
  PROVE  Eases({})
<1>1. /\ UNCHANGED <<tables, broken, job, photos, bucket>> /\ unlink' \subseteq unlink
  BY DEF FilesFail, FilesStop, CallFails
<1>2. /\ \A d \in calls' : d \in calls \/ \E c \in calls : Lost(c, d)
      /\ \A c \in calls : c \in calls' \/ \E d \in calls' : Lost(c, d)
  <2>1. ASSUME NEW c \in calls, ~Answered(c) PROVE Lost(c, [c EXCEPT !.pc = "lost"])
    BY <2>1 DEF NumbersInv, CallFields, Lost, Answered
  <2>2. CASE FilesStop
    BY <2>1, <2>2 DEF FilesStop
  <2>3. ASSUME NEW c \in calls, CallFails(c)
        PROVE  calls' = (calls \ {c}) \cup {[c EXCEPT !.pc = "lost"]} /\ ~Answered(c)
    BY <2>3 DEF CallFails, Advance
  <2> QED BY <2>1, <2>2, <2>3 DEF FilesFail
<1>3. FilesEase({})
  BY <1>1, <1>2 DEF FilesEase
<1>4. JobsEase({})
  BY <1>1 DEF JobsEase, SameWork, Adds, Deletes, At, Busy
<1> QED
  BY <1>1, <1>3, <1>4, PostsUntouched DEF Eases

\* Avatars are none of the posts' business.
LEMMA AvatarsEase ==
  ASSUME NumbersInv, NEW c \in calls, CallStep(c), ~PhotoStep(c)
  PROVE  FilesEase({})
<1>1. c.op \in AvatarOps /\ UNCHANGED <<photos, unlink>>
  BY DEF CallStep, PhotoStep, CallAt, findAvatar, deleteAvatarImage, deleteAvatar, saveAvatar,
     addAvatar, AvatarOps
<1>2. \A k \in bucket : (Found(c) => c.key # k) => k \in bucket'
  BY DEF CallStep, PhotoStep, CallAt, findAvatar, deleteAvatarImage, deleteAvatar, saveAvatar,
     addAvatar, Found
<1>3. \E new : Becomes(c, new)
  <2>1. CASE \E pc : Advance(c, pc)
    BY <2>1, Advances
  <2>2. ASSUME NEW a, calls' = (calls \ {c}) \cup {[c EXCEPT !.pc = "unlink", !.key = a.key]}
        PROVE  \E new : Becomes(c, new)
    <3> DEFINE new == [c EXCEPT !.pc = "unlink", !.key = a.key]
    <3>1. DOMAIN new = CallFields /\ new.no = c.no /\ new.op = c.op /\ new.about = c.about
      BY DEF NumbersInv, CallFields
    <3>2. calls' = (calls \ {c}) \cup {new}
      BY <2>2
    <3> HIDE DEF new
    <3> QED BY <3>1, <3>2 DEF Becomes
  <2> QED BY <2>1, <2>2 DEF CallStep, PhotoStep, findAvatar, deleteAvatarImage, deleteAvatar,
             saveAvatar, addAvatar
<1>4. PICK new : Becomes(c, new)
  BY <1>3
<1>5. c.op \notin PhotoOps /\ new.op \notin PhotoOps
  BY <1>1, <1>4 DEF Becomes, AvatarOps, PhotoOps
<1> QED
  BY <1>1, <1>2, <1>4, <1>5 DEF FilesEase, Becomes, PhotoOps

\* A step of the files service that is about photos.
PhotoRun(c) == PhotoStep(c) /\ UNCHANGED <<tables, broken, job>>

LEMMA FilesRunEases ==
  ASSUME NumbersInv, PostsInv, FilesRun
  PROVE  Eases({}) \/ \E c \in calls : PhotoRun(c)
<1>1. UNCHANGED <<tables, broken, job>>
  BY DEF FilesRun, handlerVars
<1>2. JobsEase({}) /\ SamePosts
  BY <1>1, PostsUntouched DEF JobsEase, SameWork, Adds, Deletes, At, Busy
<1>3. ASSUME NEW c \in calls, CallStep(c) PROVE PhotoRun(c) \/ Eases({})
  BY <1>1, <1>2, <1>3, AvatarsEase DEF PhotoRun, Eases
<1>4. ASSUME NEW k \in unlink, deleteImage(k) PROVE FilesEase({})
  BY <1>4 DEF deleteImage, FilesEase
<1> QED
  BY <1>2, <1>3, <1>4 DEF FilesRun, Eases

LEMMA UnheardEases ==
  ASSUME AddsInv, PostsInv, NEW c \in calls, Unheard(c)
  PROVE  Eases({})
<1>1. UNCHANGED <<tables, broken, job, photos, bucket, unlink>> /\ calls' = calls \ {c} /\ Answered(c)
  BY DEF Unheard, handlerVars
<1>2. ASSUME c.op = "uploadPostPhoto", NEW g \in Slots, Adds(g) PROVE c.about \notin PostInWork(g)
  <2>1. SUFFICES ASSUME c.about \in PostInWork(g) PROVE FALSE
    OBVIOUS
  <2>2. c \in UploadsOf(c.about)
    BY <1>2, <2>1 DEF UploadsOf
  <2>3. c.no \in job[g].todo /\ (job[g].pc = "commit" => job[g].todo = {})
    BY <1>2, <2>1, <2>2 DEF AddsInv
  <2>4. Busy(g) /\ job[g].pc = "calls"
    BY <1>2, <2>3 DEF Adds, At
  <2> QED BY <2>3, <2>4 DEF Unheard
<1>3. FilesEase({})
  BY <1>1, <1>2, Forgotten
<1> QED
  BY <1>1, <1>3, PostsUntouched DEF Eases, JobsEase, SameWork, Adds, Deletes, At, Busy

LEMMA BansEase ==
  ASSUME TablesInv, JobsInv, PostsInv, NEW u, Moderate(u)
  PROVE  Eases({})
<1>1. UNCHANGED <<job, broken, filesVars>> /\ tables'.post = tables.post
  BY DEF Moderate, TablesInv
<1> QED
  BY <1>1, PostsUntouched, FilesUntouched
  DEF Eases, JobsEase, SameWork, Adds, Deletes, At, Busy

\* A step is none of the posts' business, or one of those above.
LEMMA PhotoCases ==
  ASSUME TablesInv, JobsInv, NumbersInv, WaitInv, AddsInv, PostsInv, [Next]_vars
  PROVE  \/ \E H \in SUBSET Slots : Eases(H)
         \/ \E h \in Slots : PostStep(h) \/ \E c \in calls : Answers(h, c)
         \/ \E c \in calls : PhotoRun(c)
<1>1. \A h \in Slots : Eases({}) \/ Eases({h}) => \E H \in SUBSET Slots : Eases(H)
  OBVIOUS
<1>2. ASSUME NEW h \in Slots,
             PostRequests(h) \/ FollowingRequests(h) \/ FeedRequests(h) \/ ListRequests(h)
      PROVE  Eases({})
  BY <1>2, RequestsEase
<1>3. ASSUME NEW h \in Slots, PostSteps(h) \/ FollowingSteps(h) \/ FeedSteps(h) \/ ListSteps(h)
      PROVE  PostStep(h) \/ Eases({}) \/ Eases({h})
  BY <1>3, HandlersEase
<1>4. ASSUME NEW h \in Slots, NEW c \in calls, CallReturns(h, c)
      PROVE  Answers(h, c) \/ Eases({}) \/ Eases({h})
  BY <1>4, AnswersEase
<1>5. ASSUME NEW h \in Slots, GatewayFails(h) PROVE Eases({h})
  <2>1. job' = [job EXCEPT ![h] = Idle] /\ broken' = broken \cup PostInWork(h)
        /\ UNCHANGED <<tables, filesVars>>
    BY <1>5 DEF GatewayFails, Fail
  <2>2. JobsEase({h})
    BY <2>1, WorkDropped DEF JobsInv
  <2> QED BY <2>1, <2>2, PostsUntouched, FilesUntouched DEF Eases
<1>6. ASSUME NEW c \in calls, Unheard(c) PROVE Eases({})
  BY <1>6, UnheardEases
<1>7. CASE FilesRun
  BY <1>7, FilesRunEases
<1>8. CASE FilesFail
  BY <1>8, CallsFail
<1>9. CASE GatewayRestarts
  <2>1. /\ job' = [h \in Slots |-> Idle] /\ UNCHANGED <<tables, filesVars>>
        /\ broken' = broken \cup UNION {PostInWork(h) : h \in Slots}
    BY <1>9 DEF GatewayRestarts, Restart
  <2>2. JobsEase(Slots)
    BY <2>1, WorkDropped
  <2>3. Eases(Slots)
    BY <2>1, <2>2, PostsUntouched, FilesUntouched DEF Eases
  <2> QED BY <2>3
<1>10. ASSUME NEW u \in tables.user, Moderate(u) PROVE Eases({})
  BY <1>10, BansEase
<1>11. CASE Tick \/ UNCHANGED vars
  <2>1. UNCHANGED <<tables, broken, job, filesVars>>
    BY <1>11 DEF Tick, vars, handlerVars
  <2>2. Eases({})
    BY <2>1, PostsUntouched, FilesUntouched
    DEF Eases, JobsEase, SameWork, Adds, Deletes, At, Busy
  <2> QED BY <2>2
<1> QED
  BY <1>1, <1>2, <1>3, <1>4, <1>5, <1>6, <1>7, <1>8, <1>9, <1>10, <1>11 DEF Next

\* An avatar found to be deleted was found before, or is there.
LEMMA FoundNext ==
  ASSUME NumbersInv, FaultsInv, FilesAsked, [Next]_vars, NEW d \in calls', Found(d)
  PROVE  (\E c \in calls : Found(c) /\ c.key = d.key) \/ \E a \in avatars : a.key = d.key
<1>1. CASE UNCHANGED filesVars \/ Takes \/ \E k \in unlink : deleteImage(k)
  BY <1>1 DEF filesVars, Takes, deleteImage
<1>2. CASE Sends
  BY <1>2 DEF Sends, Send, Call, Found
<1>3. ASSUME NEW c \in calls, CallStep(c)
      PROVE  d \in calls \/ \E a \in avatars : a.key = d.key
  <2>1. ASSUME NEW pc, Advance(c, pc), pc # "unlink" PROVE d \in calls
    <3>1. PICK new : Becomes(c, new) /\ new.pc = pc
      BY <2>1, Advances
    <3> QED BY <2>1, <3>1 DEF Becomes, Found
  <2>2. CASE findAvatar(c)
    <3>1. CASE \E a \in AvatarsOf(c.about) :
                 calls' = (calls \ {c}) \cup {[c EXCEPT !.pc = "unlink", !.key = a.key]}
      <4>1. PICK a \in avatars :
              calls' = (calls \ {c}) \cup {[c EXCEPT !.pc = "unlink", !.key = a.key]}
        BY <3>1 DEF AvatarsOf
      <4> DEFINE new == [c EXCEPT !.pc = "unlink", !.key = a.key]
      <4>2. new.key = a.key
        BY DEF NumbersInv, CallFields
      <4> QED BY <4>1, <4>2
    <3>2. CASE Advance(c, AfterDelete(c))
      BY <2>1, <3>2 DEF AfterDelete
    <3> QED BY <2>2, <3>1, <3>2 DEF findAvatar
  <2>3. CASE addAvatar(c)
    BY <2>1, <2>3 DEF addAvatar
  <2>4. CASE deleteAvatar(c)
    BY <2>1, <2>4 DEF deleteAvatar, AfterDelete
  <2>5. CASE savePostPhoto(c) \/ addPostPhoto(c) \/ deleteAllPostPhotos(c) \/ deleteAvatarImage(c) \/ saveAvatar(c)
    BY <2>1, <2>5 DEF savePostPhoto, addPostPhoto, deleteAllPostPhotos, deleteAvatarImage, saveAvatar
  <2>6. CASE findPostPhotos(c)
    BY <2>1, <2>6 DEF findPostPhotos
  <2> QED BY <1>3, <2>2, <2>3, <2>4, <2>5, <2>6 DEF CallStep
<1>4. CASE FilesStop
  <2>1. ASSUME NEW c \in calls, ~Answered(c) PROVE [c EXCEPT !.pc = "lost"].pc = "lost"
    BY DEF NumbersInv, CallFields
  <2> QED BY <1>4, <2>1 DEF FilesStop, Found
<1>5. ASSUME NEW c \in calls, CallFails(c) PROVE d \in calls
  <2>1. PICK new : Becomes(c, new) /\ new.pc = "lost"
    BY <1>5, Advances DEF CallFails
  <2> QED BY <2>1 DEF Becomes, Found
<1> QED
  BY <1>1, <1>2, <1>3, <1>4, <1>5, FilesSteps

(***************************************************************************)
(* The invariant in a step that is none of the posts' business.            *)
(***************************************************************************)

FoundBefore ==
  \A d \in calls' : Found(d) =>
    (\E c \in calls : Found(c) /\ c.key = d.key) \/ \E a \in avatars : a.key = d.key

LEMMA SameWorkPosts ==
  ASSUME NEW h, SameWork(h)
  PROVE  /\ PostInWork(h)' = PostInWork(h)
         /\ Adds(h) => Added(h)' = Added(h) /\ Arg(h)' = Arg(h)
         /\ Deletes(h) => Arg(h)' = Arg(h)
<1>1. /\ Adds(h) => Added(h)' = Added(h) /\ Arg(h)' = Arg(h)
      /\ Deletes(h) => Arg(h)' = Arg(h)
  BY DEF SameWork, Works, Added, Arg, Got
<1> QED
  BY <1>1, WorkPosts DEF SameWork

PostsAndPhotos == AddsInv /\ DeletesInv /\ PutsInv /\ PhotosInv /\ PostsInv

LEMMA EasyRows ==
  ASSUME PostsInv, SamePosts
  PROVE  /\ IsSeq(tables'.post) /\ DOMAIN tables'.post = DOMAIN tables.post
         /\ LiveRows(tables'.post) = LiveRows(tables.post)
         /\ \A p \in LiveRows(tables.post) : tables'.post[p].files = tables.post[p].files
         /\ \A p : IsRow(tables.post, p) => IsRow(tables'.post, p)
<1>1. DOMAIN tables'.post = DOMAIN tables.post /\ IsSeq(tables'.post)
  BY SeqChanged DEF PostsInv, SamePosts, Alike
<1> QED
  BY <1>1 DEF SamePosts, Alike, LiveRows, IsRow

\* Files of photos stay.
LEMMA EasyFiles ==
  ASSUME PhotosInv, NEW H, FilesEase(H)
  PROVE  \A p : PhotosOf(p)' = PhotosOf(p) /\ (Kept(p) => Kept(p)')
BY DEF PhotosInv, FilesEase, PhotosOf, Kept

\* The calls about photos of post p are those that were.
LEMMA EasyCalls ==
  ASSUME NEW H, FilesEase(H), NEW d \in calls', d.op \in PhotoOps
  PROVE  \E c \in calls : /\ c.no = d.no /\ c.op = d.op /\ c.about = d.about
                          /\ d = c \/ (c.pc # "done" /\ d.pc = "lost")
BY DEF FilesEase, Lost

LEMMA EaseAdds ==
  ASSUME PostsAndPhotos, NEW H \in SUBSET Slots, Eases(H)
  PROVE  AddsInv'
<1>1. AddsInv /\ PhotosInv /\ PostsInv /\ FilesEase(H) /\ JobsEase(H) /\ SamePosts
  BY DEF PostsAndPhotos, Eases
<1>2. ASSUME NEW g \in Slots, Adds(g)'
      PROVE  g \notin H /\ Adds(g) /\ SameWork(g) /\ PostInWork(g)' = PostInWork(g)
  <2>1. g \notin H
    BY <1>1, <1>2 DEF JobsEase, Works
  <2>2. SameWork(g) /\ Adds(g)
    BY <1>1, <1>2, <2>1 DEF JobsEase, SameWork
  <2> QED BY <2>1, <2>2, SameWorkPosts
<1> SUFFICES ASSUME NEW h \in Slots, Adds(h)', NEW p \in PostInWork(h)'
             PROVE  /\ p \in DOMAIN tables'.post \ LiveRows(tables'.post)
                    /\ \A g \in Slots : Adds(g)' /\ p \in PostInWork(g)' => g = h
                    /\ \A c \in UploadsOf(p)' : c.no \in job'[h].todo
                    /\ job'[h].pc = "commit" => job'[h].todo = {}
                    /\ Cardinality(Pictures(p)') = Arg(h)'.files /\ Kept(p)'
  BY DEF AddsInv
<1>3. /\ h \notin H /\ Adds(h) /\ p \in PostInWork(h)
      /\ job'[h].pc = job[h].pc /\ job'[h].todo = job[h].todo /\ Arg(h)' = Arg(h)
  BY <1>2, SameWorkPosts DEF SameWork, Works
<1>4. /\ p \in DOMAIN tables.post \ LiveRows(tables.post)
      /\ \A g \in Slots : Adds(g) /\ p \in PostInWork(g) => g = h
      /\ \A c \in UploadsOf(p) : c.no \in job[h].todo
      /\ job[h].pc = "commit" => job[h].todo = {}
      /\ Cardinality(Pictures(p)) = Arg(h).files /\ Kept(p)
  BY <1>1, <1>3 DEF AddsInv
<1>5. p \in DOMAIN tables'.post \ LiveRows(tables'.post)
  BY <1>1, <1>4, EasyRows
<1>6. \A g \in Slots : Adds(g)' /\ p \in PostInWork(g)' => g = h
  BY <1>2, <1>4
<1>7. \A d \in UploadsOf(p)' : d.no \in job[h].todo
  BY <1>1, <1>4, EasyCalls DEF UploadsOf, PhotoOps
<1>8. PhotosOf(p)' = PhotosOf(p) /\ Kept(p)'
  BY <1>1, <1>4, EasyFiles
<1>9. {[post |-> p, key |-> c.no] : c \in {d \in UploadsOf(p)' : d.pc # "done"}}
      = {[post |-> p, key |-> c.no] : c \in {d \in UploadsOf(p) : d.pc # "done"}}
  <2>1. ASSUME NEW d \in UploadsOf(p)', d.pc # "done"
        PROVE  \E c \in UploadsOf(p) : c.pc # "done" /\ c.no = d.no
    BY <1>1, <2>1, EasyCalls DEF UploadsOf, PhotoOps
  <2>2. ASSUME NEW c \in UploadsOf(p), c.pc # "done"
        PROVE  \E d \in UploadsOf(p)' : d.pc # "done" /\ d.no = c.no
    <3>1. c \in calls /\ c.op = "uploadPostPhoto" /\ c.about = p
      BY DEF UploadsOf
    <3>2. c \in calls' \/ \E d \in calls' : Lost(c, d)
      BY <1>1, <1>3, <3>1 DEF FilesEase
    <3> QED BY <2>2, <3>1, <3>2 DEF UploadsOf, Lost
  <2> QED BY <2>1, <2>2
<1>10. Pictures(p)' = Pictures(p)
  BY <1>8, <1>9 DEF Pictures
<1> QED
  BY <1>3, <1>4, <1>5, <1>6, <1>7, <1>8, <1>10

LEMMA EaseDeletes ==
  ASSUME PostsAndPhotos, NEW H \in SUBSET Slots, Eases(H)
  PROVE  DeletesInv'
<1>1. DeletesInv /\ PhotosInv /\ PostsInv /\ FilesEase(H) /\ JobsEase(H) /\ SamePosts
  BY DEF PostsAndPhotos, Eases
<1>2. ASSUME NEW g \in Slots, Works(g)'
      PROVE  /\ Adds(g)' <=> Adds(g)
             /\ Adds(g) \/ (Deletes(g) /\ job'[g].pc = job[g].pc)
             /\ PostInWork(g)' = PostInWork(g)
  BY <1>1, <1>2, SameWorkPosts DEF JobsEase, SameWork, Works
<1>3. ASSUME NEW p, NotAdded(p) PROVE NotAdded(p)'
  <2>1. UploadsOf(p)' = {}
    BY <1>1, <1>3, EasyCalls DEF NotAdded, UploadsOf, PhotoOps
  <2> QED BY <1>1, <1>2, <1>3, <2>1, EasyRows DEF NotAdded, Works
<1>4. \A p : PhotosOf(p)' = PhotosOf(p)
  BY <1>1, EasyFiles
<1>5. ASSUME NEW h \in Slots, Deletes(h)', NEW p \in PostInWork(h)'
      PROVE  NotAdded(p)' /\ (job'[h].pc = "commit" => PhotosOf(p)' = {})
  <2>1. ~Adds(h)'
    BY <1>5 DEF Adds, Deletes, At
  <2>2. Deletes(h) /\ job'[h].pc = job[h].pc /\ p \in PostInWork(h)
    BY <1>2, <1>5, <2>1 DEF Works
  <2> QED BY <1>1, <1>3, <1>4, <2>2 DEF DeletesInv
<1>6. ASSUME NEW d \in calls', d.op = "deletePostPhotos"
      PROVE  NotAdded(d.about)' /\ (d.pc = "done" => PhotosOf(d.about)' = {})
  <2>1. PICK c \in calls : /\ c.op = d.op /\ c.about = d.about
                           /\ d = c \/ (c.pc # "done" /\ d.pc = "lost")
    BY <1>1, <1>6, EasyCalls DEF PhotoOps
  <2>2. NotAdded(d.about) /\ (d.pc = "done" => PhotosOf(d.about) = {})
    BY <1>1, <1>6, <2>1 DEF DeletesInv
  <2> QED BY <1>3, <1>4, <2>2
<1> QED
  BY <1>5, <1>6 DEF DeletesInv

LEMMA EasePuts ==
  ASSUME PostsAndPhotos, UploadsInv, FoundBefore, NEW H \in SUBSET Slots, Eases(H)
  PROVE  PutsInv'
<1>1. PutsInv /\ PhotosInv /\ PostsInv /\ FilesEase(H) /\ JobsEase(H) /\ SamePosts
  BY DEF PostsAndPhotos, Eases
<1> SUFFICES ASSUME NEW d \in calls', d.op = "uploadPostPhoto"
             PROVE  /\ d.about \in DOMAIN tables'.post \ LiveRows(tables'.post)
                    /\ d.about \in broken' \/ \E h \in Slots : Adds(h)' /\ d.about \in PostInWork(h)'
                    /\ d.pc \in {"put", "insert"} =>
                         /\ \A x \in photos' : x.key # d.no
                         /\ d.no \notin unlink'
                         /\ d.pc = "insert" => d.no \in bucket'
  BY DEF PutsInv
<1>2. PICK c \in calls : /\ c.op = d.op /\ c.about = d.about
                         /\ d = c \/ (c.pc # "done" /\ d.pc = "lost")
  BY <1>1, EasyCalls DEF PhotoOps
<1>3. d.about \in DOMAIN tables'.post \ LiveRows(tables'.post)
  BY <1>1, <1>2, EasyRows DEF PutsInv
<1>4. ASSUME NEW h \in Slots, Adds(h), d.about \in PostInWork(h)
      PROVE  d.about \in broken' \/ (Adds(h)' /\ d.about \in PostInWork(h)')
  <2>1. CASE h \in H
    BY <1>1, <1>4, <2>1 DEF JobsEase
  <2>2. CASE h \notin H
    BY <1>1, <1>4, <2>2, SameWorkPosts DEF JobsEase, SameWork
  <2> QED BY <2>1, <2>2
<1>5. d.about \in broken' \/ \E h \in Slots : Adds(h)' /\ d.about \in PostInWork(h)'
  BY <1>1, <1>2, <1>4 DEF PutsInv, JobsEase
<1>6. ASSUME d.pc \in {"put", "insert"}
      PROVE  /\ \A x \in photos' : x.key # d.no
             /\ d.no \notin unlink'
             /\ d.pc = "insert" => d.no \in bucket'
  <2>1. d \in calls
    BY <1>2, <1>6
  <2>2. /\ \A x \in photos : x.key # d.no
        /\ d.no \notin unlink /\ (d.pc = "insert" => d.no \in bucket)
        /\ \A c1 \in calls : Found(c1) => c1.key # d.no
    BY <1>1, <1>6, <2>1 DEF PutsInv, UploadsInv, NoAvatar
  <2> QED BY <1>1, <2>2 DEF FilesEase
<1> QED
  BY <1>3, <1>5, <1>6

LEMMA EasePhotos ==
  ASSUME PostsAndPhotos, KeysInv, FoundBefore, NEW H \in SUBSET Slots, Eases(H)
  PROVE  PhotosInv'
<1>1. PhotosInv /\ PostsInv /\ FilesEase(H) /\ JobsEase(H) /\ SamePosts /\ photos' = photos
  BY DEF PostsAndPhotos, Eases, FilesEase
<1>2. ASSUME NEW x \in photos
      PROVE  \/ IsRow(tables'.post, x.post) \/ x.post \in broken'
             \/ \E h \in Slots : x.post \in PostInWork(h)'
  <2>1. CASE IsRow(tables.post, x.post)
    BY <1>1, <2>1, EasyRows
  <2>2. CASE x.post \in broken
    BY <1>1, <2>2 DEF JobsEase
  <2>3. ASSUME NEW h \in Slots, x.post \in PostInWork(h)
        PROVE  x.post \in broken' \/ x.post \in PostInWork(h)'
    BY <1>1, <2>3, SameWorkPosts DEF JobsEase
  <2> QED BY <1>1, <2>1, <2>2, <2>3 DEF PhotosInv
<1>3. ASSUME NEW x \in photos, NEW d \in calls', Found(d) PROVE d.key # x.key
  BY <1>1, <1>3 DEF FoundBefore, PhotosInv, KeysInv
<1>4. \A x \in photos : x = [post |-> x.post, key |-> x.key] /\ x.post \in DOMAIN tables'.post
  BY <1>1, EasyRows DEF PhotosInv
<1>5. \A x, y \in photos : x.key = y.key => x = y
  BY <1>1 DEF PhotosInv
<1> QED
  BY <1>1, <1>2, <1>3, <1>4, <1>5 DEF PhotosInv, Found

LEMMA EasePosts ==
  ASSUME PostsAndPhotos, NEW H \in SUBSET Slots, Eases(H)
  PROVE  PostsInv'
<1>1. PhotosInv /\ PostsInv /\ FilesEase(H) /\ JobsEase(H) /\ SamePosts
  BY DEF PostsAndPhotos, Eases
<1>2. IsSeq(tables'.post)
  BY <1>1, EasyRows
<1>3. ASSUME NEW p \in LiveRows(tables'.post) \ broken', \A h \in Slots : p \notin PostInWork(h)'
      PROVE  /\ Cardinality(PhotosOf(p)') = tables'.post[p].files /\ Kept(p)'
             /\ DeletionsOf(p)' = {}
  <2>1. p \in LiveRows(tables.post) \ broken /\ tables'.post[p].files = tables.post[p].files
    BY <1>1, <1>3, EasyRows DEF JobsEase
  <2>2. ASSUME NEW h \in Slots PROVE p \notin PostInWork(h)
    BY <1>1, <1>3, SameWorkPosts DEF JobsEase
  <2>3. Cardinality(PhotosOf(p)) = tables.post[p].files /\ Kept(p) /\ DeletionsOf(p) = {}
    BY <1>1, <2>1, <2>2 DEF PostsInv
  <2>4. DeletionsOf(p)' = {}
    BY <1>1, <2>3, EasyCalls DEF DeletionsOf, PhotoOps
  <2> QED BY <1>1, <2>1, <2>3, <2>4, EasyFiles
<1> QED
  BY <1>2, <1>3 DEF PostsInv

LEMMA EaseNext ==
  ASSUME PostsAndPhotos, StoreInv, FoundBefore, NEW H \in SUBSET Slots, Eases(H)
  PROVE  PostsAndPhotos'
<1>1. UploadsInv /\ KeysInv
  BY DEF StoreInv
<1>2. AddsInv' /\ DeletesInv' /\ PutsInv' /\ PhotosInv' /\ PostsInv'
  BY <1>1, EaseAdds, EaseDeletes, EasePuts, EasePhotos, EasePosts
<1> QED
  BY <1>2 DEF PostsAndPhotos

(***************************************************************************)
(* The steps that deal with a post.                                        *)
(***************************************************************************)

LEMMA PhotosAreCounted ==
  ASSUME NEW p, NEW m \in Nat, NEW n \in Nat, NEW S,
         \A s : s \in S <=> \E k \in m + 1 .. m + n : s = [post |-> p, key |-> k]
  PROVE  Cardinality(S) = n
<1> DEFINE f == [i \in 1..n |-> [post |-> p, key |-> m + i]]
<1>1. \A i \in 1..n : m + i \in m + 1 .. m + n
  OBVIOUS
<1>2. \A k \in m + 1 .. m + n : k - m \in 1..n /\ m + (k - m) = k
  OBVIOUS
<1>3. f \in [1..n -> S] /\ \A s \in S : \E i \in 1..n : f[i] = s
  BY <1>1, <1>2
<1>4. \A i, j \in 1..n : f[i] = f[j] => i = j
  <2>1. \A i \in 1..n : f[i].key = m + i
    OBVIOUS
  <2> QED BY <2>1
<1>5. f \in Bijection(1..n, S)
  BY <1>3, <1>4, Fun_IsBij
<1>6. ExistsBijection(1..n, S)
  BY <1>5 DEF ExistsBijection
<1>7. IsFiniteSet(1..n) /\ Cardinality(1..n) = n
  BY FS_Interval
<1> QED
  BY <1>6, <1>7, FS_Bijection

\* A handler calls the files service and waits.
Called(n, op, about, pc) ==
  /\ made' = made + n /\ UNCHANGED <<broken, feed, photos, bucket, unlink>>
  /\ calls \subseteq calls'
  /\ \A d \in calls' : d \in calls \/ \E k \in made + 1 .. made + n : d = Call(k, op, about, pc)
  /\ \A k \in made + 1 .. made + n : Call(k, op, about, pc) \in calls'

Waits(h, name, value, n) ==
  /\ \A g \in Slots \ {h} : job'[g] = job[g]
  /\ Busy(h)' /\ job'[h].op = job[h].op /\ job'[h].arg = job[h].arg
  /\ job'[h].pc = "calls" /\ job'[h].todo = made + 1 .. made + n
  /\ job'[h].got[name] = value

LEMMA Sent ==
  ASSUME JobsInv, NumbersInv, NEW h \in Slots, Busy(h), NEW name, NEW value, NEW n \in Nat,
         NEW op, NEW about, NEW pc, CallFiles(h, name, value, n, op, about, pc)
  PROVE  Called(n, op, about, pc) /\ Waits(h, name, value, n)
<1>1. DOMAIN job = Slots /\ DOMAIN job[h] = Fields
  BY DEF JobsInv, Fields
<1>2. /\ DOMAIN job'[h] = Fields
      /\ job'[h].op = job[h].op /\ job'[h].arg = job[h].arg
      /\ job'[h].pc = "calls" /\ job'[h].todo = made + 1 .. made + n
      /\ job'[h].got = With(job[h].got, name, value)
  BY <1>1 DEF CallFiles, Expect, Fields
<1>3. Busy(h)' /\ job'[h].got[name] = value
  BY <1>2 DEF Busy, Idle, Fields, With
<1>4. /\ calls \subseteq calls'
      /\ \A d \in calls' : d \in calls \/ \E k \in made + 1 .. made + n : d = Call(k, op, about, pc)
      /\ \A k \in made + 1 .. made + n : Call(k, op, about, pc) \in calls'
  <2>1. made \in Nat
    BY DEF NumbersInv
  <2>2. calls' = calls \cup {Call(made + i, op, about, pc) : i \in 1..n}
    BY DEF CallFiles, Send
  <2>3. \A i \in 1..n : made + i \in made + 1 .. made + n
    BY <2>1
  <2>4. \A k \in made + 1 .. made + n : k - made \in 1..n /\ made + (k - made) = k
    BY <2>1
  <2> QED BY <2>2, <2>3, <2>4
<1>5. \A g \in Slots \ {h} : job'[g] = job[g]
  BY <1>1 DEF CallFiles, Expect
<1> QED
  BY <1>2, <1>3, <1>4, <1>5 DEF CallFiles, Send, Called, Waits

\* A post is added: its number is new, and so are those of its photos.
LEMMA AddBeginsNext ==
  ASSUME TablesInv, JobsInv, NumbersInv, FilesAsked, PostsAndPhotos, NEW h \in Slots, AddBegins(h)
  PROVE  PostsAndPhotos'
<1> DEFINE id == Len(tables.post) + 1  n == Arg(h).files  new == made + 1 .. made + n
<1>1. AddsInv /\ DeletesInv /\ PutsInv /\ PhotosInv /\ PostsInv
  BY DEF PostsAndPhotos
<1>2. /\ Busy(h) /\ job[h].op = "addPost" /\ job[h].pc = "create"
      /\ tables' = [tables EXCEPT !.post = Append(@, Gone)]
      /\ CallFiles(h, "post", [id |-> id, created |-> now], n, "uploadPostPhoto", id, "put")
  BY DEF AddBegins, AddPostUploads, At
<1>3. ~Works(h) /\ PostInWork(h) = {}
  BY <1>2, WorkPosts DEF Works, Adds, Deletes, At
<1>4. n \in Nat /\ made \in Nat
  BY <1>2 DEF FilesAsked, NumbersInv
<1>5. /\ UNCHANGED <<broken, feed, photos, bucket, unlink>>
      /\ calls \subseteq calls'
      /\ \A d \in calls' : d \in calls \/ \E k \in new : d = Call(k, "uploadPostPhoto", id, "put")
      /\ \A k \in new : Call(k, "uploadPostPhoto", id, "put") \in calls'
      /\ \A g \in Slots \ {h} : job'[g] = job[g]
      /\ Busy(h)' /\ job'[h].op = "addPost" /\ job'[h].arg = job[h].arg
      /\ job'[h].pc = "calls" /\ job'[h].todo = new
      /\ job'[h].got["post"] = [id |-> id, created |-> now]
  <2>1. Called(n, "uploadPostPhoto", id, "put") /\ Waits(h, "post", [id |-> id, created |-> now], n)
    BY <1>2, <1>4, Sent
  <2> QED BY <1>2, <2>1 DEF Called, Waits
<1> HIDE DEF n, new, id
<1>6. /\ IsSeq(tables'.post) /\ DOMAIN tables'.post = DOMAIN tables.post \cup {id}
      /\ id \notin DOMAIN tables.post
      /\ LiveRows(tables'.post) = LiveRows(tables.post)
      /\ \A p \in DOMAIN tables.post : tables'.post[p] = tables.post[p]
  <2>1. tables'.post = Append(tables.post, Gone)
    BY <1>2 DEF TablesInv
  <2>2. /\ IsSeq(tables'.post) /\ DOMAIN tables'.post = DOMAIN tables.post \cup {id}
        /\ id \notin DOMAIN tables.post
        /\ \A p \in DOMAIN tables.post : tables'.post[p] = tables.post[p]
        /\ tables'.post[id] = Gone
    BY <1>1, <2>1, SeqAppended DEF PostsInv, id
  <2> QED BY <2>2 DEF LiveRows, Gone
<1>7. Adds(h)' /\ PostInWork(h)' = {id}
  BY <1>5, WorkPosts DEF Adds, At, Added, Got
<1>8. \A g \in Slots \ {h} : /\ Adds(g)' <=> Adds(g)
                             /\ Deletes(g)' <=> Deletes(g)
                             /\ PostInWork(g)' = PostInWork(g)
  BY <1>5 DEF Adds, Deletes, PostInWork, At, Busy, Got, Arg
<1>9. ASSUME NEW p \in DOMAIN tables.post
      PROVE  /\ UploadsOf(p)' = UploadsOf(p) /\ DeletionsOf(p)' = DeletionsOf(p)
             /\ PhotosOf(p)' = PhotosOf(p) /\ Pictures(p)' = Pictures(p)
             /\ Kept(p) => Kept(p)'
  <2>1. UploadsOf(p)' = UploadsOf(p)
    BY <1>5, <1>6 DEF UploadsOf, Call
  <2>2. DeletionsOf(p)' = DeletionsOf(p)
    BY <1>5 DEF DeletionsOf, Call
  <2> QED BY <1>5, <2>1, <2>2 DEF PhotosOf, Pictures, Kept
<1>10. /\ UploadsOf(id) = {} /\ PhotosOf(id) = {}
       /\ \A g \in Slots : Adds(g) => id \notin PostInWork(g)
  BY <1>1, <1>6 DEF PutsInv, PhotosInv, AddsInv, UploadsOf, PhotosOf
<1>11. \A e : PhotosOf(e)' = PhotosOf(e)
  BY <1>5 DEF PhotosOf
<1>12. PICK q : q = id
  OBVIOUS
<1>13. \A d : d \in UploadsOf(q)' <=> \E k \in new : d = Call(k, "uploadPostPhoto", q, "put")
  BY <1>5, <1>10, <1>12 DEF UploadsOf, Call
<1>14. Cardinality(Pictures(q)') = n /\ Kept(q)'
  <2>1. PhotosOf(q)' = {}
    BY <1>10, <1>11, <1>12
  <2>2. \A k : k \in new <=> \E d \in UploadsOf(q)' : d.pc # "done" /\ d.no = k
    <3>1. ASSUME NEW k \in new PROVE \E d \in UploadsOf(q)' : d.pc # "done" /\ d.no = k
      <4>1. Call(k, "uploadPostPhoto", q, "put") \in UploadsOf(q)'
        BY <1>13
      <4> QED BY <4>1 DEF Call
    <3>2. ASSUME NEW d \in UploadsOf(q)' PROVE d.no \in new
      BY <1>13 DEF Call
    <3> QED BY <3>1, <3>2
  <2>3. \A s : s \in Pictures(q)' <=> \E k \in new : s = [post |-> q, key |-> k]
    <3>1. Pictures(q)' = {[post |-> q, key |-> c.no] : c \in {d \in UploadsOf(q)' : d.pc # "done"}}
      BY <2>1 DEF Pictures
    <3>2. \A s : s \in Pictures(q)' <=>
            \E d \in UploadsOf(q)' : d.pc # "done" /\ s = [post |-> q, key |-> d.no]
      BY <3>1
    <3> QED BY <2>2, <3>2
  <2>4. Cardinality(Pictures(q)') = n
    BY <1>4, <2>3, PhotosAreCounted DEF new
  <2> QED BY <2>1, <2>4 DEF Kept
<1>15. AddsInv'
  <2>1. ASSUME NEW g \in Slots \ {h}, Adds(g)', NEW p \in PostInWork(g)'
        PROVE  /\ p \in DOMAIN tables'.post \ LiveRows(tables'.post)
               /\ \A f \in Slots : Adds(f)' /\ p \in PostInWork(f)' => f = g
               /\ \A c \in UploadsOf(p)' : c.no \in job'[g].todo
               /\ job'[g].pc = "commit" => job'[g].todo = {}
               /\ Cardinality(Pictures(p)') = Arg(g)'.files /\ Kept(p)'
    <3>1. Adds(g) /\ p \in PostInWork(g) /\ job'[g] = job[g] /\ Arg(g)' = Arg(g)
      BY <1>5, <1>8, <2>1 DEF Arg
    <3>2. /\ p \in DOMAIN tables.post \ LiveRows(tables.post)
          /\ \A f \in Slots : Adds(f) /\ p \in PostInWork(f) => f = g
          /\ \A c \in UploadsOf(p) : c.no \in job[g].todo
          /\ job[g].pc = "commit" => job[g].todo = {}
          /\ Cardinality(Pictures(p)) = Arg(g).files /\ Kept(p)
      BY <1>1, <3>1 DEF AddsInv
    <3>3. p # id
      BY <1>6, <3>2
    <3> QED BY <1>6, <1>7, <1>8, <1>9, <3>1, <3>2, <3>3
  <2>2. /\ q \in DOMAIN tables'.post \ LiveRows(tables'.post)
        /\ \A f \in Slots : Adds(f)' /\ q \in PostInWork(f)' => f = h
        /\ \A c \in UploadsOf(q)' : c.no \in job'[h].todo
        /\ job'[h].pc = "commit" => job'[h].todo = {}
        /\ Cardinality(Pictures(q)') = Arg(h)'.files /\ Kept(q)'
    <3>1. Arg(h)'.files = n
      BY <1>5 DEF Arg, n
    <3>2. q \in DOMAIN tables'.post \ LiveRows(tables'.post)
      BY <1>6, <1>12 DEF LiveRows
    <3>3. \A f \in Slots : Adds(f)' /\ q \in PostInWork(f)' => f = h
      BY <1>8, <1>10, <1>12
    <3>4. \A c \in UploadsOf(q)' : c.no \in new
      BY <1>13 DEF Call
    <3> QED BY <1>5, <1>14, <3>1, <3>2, <3>3, <3>4
  <2>3. \A p \in PostInWork(h)' : p = q
    BY <1>7, <1>12
  <2> QED BY <2>1, <2>2, <2>3 DEF AddsInv
<1>16. ASSUME NEW p, NotAdded(p) PROVE NotAdded(p)' /\ PhotosOf(p)' = PhotosOf(p)
  BY <1>6, <1>7, <1>8, <1>9, <1>11, <1>16 DEF NotAdded
<1>17. DeletesInv'
  <2>1. ASSUME NEW g \in Slots, Deletes(g)', NEW p \in PostInWork(g)'
        PROVE  NotAdded(p)' /\ (job'[g].pc = "commit" => PhotosOf(p)' = {})
    <3>1. g # h
      BY <1>5, <2>1 DEF Deletes, At
    <3> QED BY <1>1, <1>5, <1>8, <1>16, <2>1, <3>1 DEF DeletesInv
  <2>2. ASSUME NEW d \in calls', d.op = "deletePostPhotos" PROVE d \in calls
    BY <1>5, <2>2 DEF Call
  <2> QED BY <1>1, <1>16, <2>1, <2>2 DEF DeletesInv
<1>18. PutsInv'
  <2> SUFFICES ASSUME NEW d \in calls', d.op = "uploadPostPhoto"
               PROVE  /\ d.about \in DOMAIN tables'.post \ LiveRows(tables'.post)
                      /\ d.about \in broken' \/ \E g \in Slots : Adds(g)' /\ d.about \in PostInWork(g)'
                      /\ d.pc \in {"put", "insert"} =>
                           /\ \A x \in photos' : x.key # d.no
                           /\ d.no \notin unlink'
                           /\ d.pc = "insert" => d.no \in bucket'
    BY DEF PutsInv
  <2>1. CASE d \in calls
    BY <1>1, <1>3, <1>5, <1>6, <1>8, <2>1 DEF PutsInv, Works
  <2>2. CASE d \notin calls
    <3>1. PICK k \in new : d = Call(k, "uploadPostPhoto", id, "put")
      BY <1>5, <2>2
    <3>2. k \notin 1..made
      BY <1>4 DEF new
    <3>3. d.about = id /\ d.no = k /\ d.pc = "put"
      BY <3>1 DEF Call
    <3>4. \A x \in photos : x.key # k
      BY <3>2 DEF NumbersInv
    <3>5. k \notin unlink
      BY <3>2 DEF NumbersInv
    <3>6. id \notin LiveRows(tables'.post)
      BY <1>6 DEF LiveRows
    <3> QED BY <1>5, <1>6, <1>7, <3>3, <3>4, <3>5, <3>6
  <2> QED BY <2>1, <2>2
<1>19. PhotosInv'
  <2>1. \A p : IsRow(tables.post, p) => IsRow(tables'.post, p)
    BY <1>6 DEF IsRow
  <2>2. \A d \in calls' : Found(d) => d \in calls
    BY <1>5 DEF Call, Found
  <2>3. \A g \in Slots : \A p \in PostInWork(g) : p \in PostInWork(g)'
    BY <1>3, <1>8
  <2> QED BY <1>1, <1>5, <1>6, <2>1, <2>2, <2>3 DEF PhotosInv, Found
<1>20. PostsInv'
  <2>1. ASSUME NEW p \in LiveRows(tables'.post) \ broken', \A g \in Slots : p \notin PostInWork(g)'
        PROVE  /\ Cardinality(PhotosOf(p)') = tables'.post[p].files /\ Kept(p)'
               /\ DeletionsOf(p)' = {}
    <3>1. p \in LiveRows(tables.post) \ broken /\ p \in DOMAIN tables.post
      BY <1>5, <1>6, <2>1 DEF LiveRows
    <3>2. \A g \in Slots : p \notin PostInWork(g)
      BY <1>3, <1>8, <2>1
    <3> QED BY <1>1, <1>6, <1>9, <3>1, <3>2 DEF PostsInv
  <2> QED BY <1>6, <2>1 DEF PostsInv
<1> QED
  BY <1>15, <1>17, <1>18, <1>19, <1>20 DEF PostsAndPhotos

\* The row of a post becomes another.
LEMMA RowChanges ==
  ASSUME PostsInv, NEW p \in DOMAIN tables.post, NEW row, tables'.post = [tables.post EXCEPT ![p] = row]
  PROVE  /\ IsSeq(tables'.post) /\ DOMAIN tables'.post = DOMAIN tables.post
         /\ tables'.post[p] = row
         /\ \A r \in DOMAIN tables.post \ {p} : tables'.post[r] = tables.post[r]
         /\ LiveRows(tables'.post) \ {p} = LiveRows(tables.post) \ {p}
         /\ p \in LiveRows(tables'.post) <=> row.live
<1>1. /\ DOMAIN tables'.post = DOMAIN tables.post
      /\ tables'.post = [r \in DOMAIN tables.post |-> tables'.post[r]]
      /\ tables'.post[p] = row
      /\ \A r \in DOMAIN tables.post \ {p} : tables'.post[r] = tables.post[r]
  OBVIOUS
<1>2. IsSeq(tables'.post)
  BY <1>1, SeqChanged DEF PostsInv
<1> QED
  BY <1>1, <1>2 DEF LiveRows

\* The request of h ends, and nothing happens to files.
LEMMA HandlerEnds ==
  ASSUME JobsInv, NEW h \in Slots, job' = [job EXCEPT ![h] = Idle], UNCHANGED filesVars
  PROVE  /\ \A g \in Slots \ {h} : /\ Adds(g)' <=> Adds(g)
                                   /\ Deletes(g)' <=> Deletes(g)
                                   /\ PostInWork(g)' = PostInWork(g) /\ job'[g] = job[g]
         /\ ~Adds(h)' /\ ~Deletes(h)' /\ PostInWork(h)' = {}
         /\ \A p : /\ UploadsOf(p)' = UploadsOf(p) /\ DeletionsOf(p)' = DeletionsOf(p)
                   /\ PhotosOf(p)' = PhotosOf(p) /\ Pictures(p)' = Pictures(p)
                   /\ Kept(p)' <=> Kept(p)
         /\ \A c : Found(c)' <=> Found(c)
<1>1. job'[h] = Idle /\ \A g \in Slots \ {h} : job'[g] = job[g]
  BY DEF JobsInv
<1>2. ~Adds(h)' /\ ~Deletes(h)'
  BY <1>1 DEF Adds, Deletes, At, Busy
<1>3. PostInWork(h)' = {}
  BY <1>2, WorkPosts
<1>4. \A g \in Slots \ {h} : /\ Adds(g)' <=> Adds(g)
                             /\ Deletes(g)' <=> Deletes(g)
                             /\ PostInWork(g)' = PostInWork(g)
  BY <1>1 DEF Adds, Deletes, PostInWork, At, Busy, Got, Arg
<1>5. \A p : UploadsOf(p)' = UploadsOf(p) /\ PhotosOf(p)' = PhotosOf(p)
  BY DEF filesVars, UploadsOf, PhotosOf
<1>6. \A p : /\ DeletionsOf(p)' = DeletionsOf(p) /\ Pictures(p)' = Pictures(p)
             /\ Kept(p)' <=> Kept(p)
  BY <1>5 DEF filesVars, DeletionsOf, Pictures, Kept
<1> QED
  BY <1>1, <1>2, <1>3, <1>4, <1>5, <1>6 DEF Found

\* A post has been added, with all its photos.
LEMMA AddCommitsNext ==
  ASSUME TablesInv, JobsInv, PostsAndPhotos, NEW h \in Slots, AddCommits(h)
  PROVE  PostsAndPhotos'
<1>1. AddsInv /\ DeletesInv /\ PutsInv /\ PhotosInv /\ PostsInv
  BY DEF PostsAndPhotos
<1>2. Adds(h) /\ job[h].pc = "commit" /\ ~Deletes(h)
  BY DEF AddCommits, AddPostEnds, Adds, Deletes, At
<1>3. PostInWork(h) = {Added(h)}
  BY <1>2, WorkPosts
<1> DEFINE row == PostRow(Arg(h).user, Got(h, "post").created, Arg(h).files)
<1>4. /\ tables' = [tables EXCEPT !.post[Added(h)] = row]
      /\ job' = [job EXCEPT ![h] = Idle] /\ broken' = broken /\ UNCHANGED filesVars
  BY DEF AddCommits, AddPostEnds, Commit, Reply, addPost, Statement, Added
<1>5. row.live /\ row.files = Arg(h).files
  BY DEF PostRow
<1> HIDE DEF row
<1>6. PICK q : q = Added(h)
  OBVIOUS
<1>7. q \in PostInWork(h) /\ PostInWork(h) = {q}
  BY <1>3, <1>6
<1>8. /\ q \in DOMAIN tables.post \ LiveRows(tables.post)
      /\ \A g \in Slots : Adds(g) /\ q \in PostInWork(g) => g = h
      /\ UploadsOf(q) = {}
      /\ Cardinality(Pictures(q)) = Arg(h).files /\ Kept(q)
  BY <1>1, <1>2, <1>7 DEF AddsInv
<1>9. Pictures(q) = PhotosOf(q)
  BY <1>8 DEF Pictures
<1>10. tables'.post = [tables.post EXCEPT ![q] = row]
  BY <1>4, <1>6 DEF TablesInv
<1>11. /\ IsSeq(tables'.post) /\ DOMAIN tables'.post = DOMAIN tables.post
       /\ tables'.post[q] = row
       /\ \A r \in DOMAIN tables.post \ {q} : tables'.post[r] = tables.post[r]
       /\ LiveRows(tables'.post) = LiveRows(tables.post) \cup {q}
  BY <1>1, <1>5, <1>8, <1>10, RowChanges
<1>12. /\ \A g \in Slots \ {h} : /\ Adds(g)' <=> Adds(g)
                                 /\ Deletes(g)' <=> Deletes(g)
                                 /\ PostInWork(g)' = PostInWork(g) /\ job'[g] = job[g]
       /\ ~Adds(h)' /\ ~Deletes(h)' /\ PostInWork(h)' = {}
       /\ \A p : /\ UploadsOf(p)' = UploadsOf(p) /\ DeletionsOf(p)' = DeletionsOf(p)
                 /\ PhotosOf(p)' = PhotosOf(p) /\ Pictures(p)' = Pictures(p)
                 /\ Kept(p)' <=> Kept(p)
       /\ \A c : Found(c)' <=> Found(c)
  BY <1>4, HandlerEnds
<1>13. calls' = calls /\ photos' = photos /\ bucket' = bucket /\ unlink' = unlink
  BY <1>4 DEF filesVars
<1>14. AddsInv'
  <2> SUFFICES ASSUME NEW g \in Slots, Adds(g)', NEW p \in PostInWork(g)'
               PROVE  /\ p \in DOMAIN tables'.post \ LiveRows(tables'.post)
                      /\ \A f \in Slots : Adds(f)' /\ p \in PostInWork(f)' => f = g
                      /\ \A c \in UploadsOf(p)' : c.no \in job'[g].todo
                      /\ job'[g].pc = "commit" => job'[g].todo = {}
                      /\ Cardinality(Pictures(p)') = Arg(g)'.files /\ Kept(p)'
    BY DEF AddsInv
  <2>1. g # h /\ Adds(g) /\ p \in PostInWork(g) /\ job'[g] = job[g]
    BY <1>12
  <2>2. /\ p \in DOMAIN tables.post \ LiveRows(tables.post)
        /\ \A f \in Slots : Adds(f) /\ p \in PostInWork(f) => f = g
        /\ \A c \in UploadsOf(p) : c.no \in job[g].todo
        /\ job[g].pc = "commit" => job[g].todo = {}
        /\ Cardinality(Pictures(p)) = Arg(g).files /\ Kept(p)
    BY <1>1, <2>1 DEF AddsInv
  <2>3. p # q /\ Arg(g)' = Arg(g)
    BY <1>8, <2>1 DEF Arg
  <2>4. \A f \in Slots : Adds(f)' /\ p \in PostInWork(f)' => f = g
    BY <1>12, <2>2
  <2> QED BY <1>11, <1>12, <2>1, <2>2, <2>3, <2>4
<1>15. \A p : NotAdded(p) => NotAdded(p)'
  BY <1>11, <1>12 DEF NotAdded
<1>16. DeletesInv'
  <2>1. ASSUME NEW g \in Slots, Deletes(g)', NEW p \in PostInWork(g)'
        PROVE  NotAdded(p)' /\ (job'[g].pc = "commit" => PhotosOf(p)' = {})
    BY <1>1, <1>12, <1>15, <2>1 DEF DeletesInv
  <2>2. ASSUME NEW d \in calls', d.op = "deletePostPhotos"
        PROVE  NotAdded(d.about)' /\ (d.pc = "done" => PhotosOf(d.about)' = {})
    BY <1>1, <1>12, <1>13, <1>15, <2>2 DEF DeletesInv
  <2> QED BY <2>1, <2>2 DEF DeletesInv
<1>17. PutsInv'
  <2>1. ASSUME NEW d \in calls', d.op = "uploadPostPhoto"
        PROVE  /\ d.about \in DOMAIN tables'.post \ LiveRows(tables'.post)
               /\ d.about \in broken' \/ \E g \in Slots : Adds(g)' /\ d.about \in PostInWork(g)'
    <3>1. d \in calls /\ d.about # q
      BY <1>8, <1>13, <2>1 DEF UploadsOf
    <3> QED BY <1>1, <1>4, <1>7, <1>11, <1>12, <2>1, <3>1 DEF PutsInv
  <2> QED BY <1>1, <1>13, <2>1 DEF PutsInv
<1>18. PhotosInv'
  <2>1. ASSUME NEW x \in photos
        PROVE  \/ IsRow(tables'.post, x.post) \/ x.post \in broken'
               \/ \E g \in Slots : x.post \in PostInWork(g)'
    <3>1. CASE x.post = q
      BY <1>8, <1>11, <3>1, <1>5 DEF IsRow
    <3>2. CASE x.post # q /\ IsRow(tables.post, x.post)
      BY <1>11, <3>2 DEF IsRow
    <3>3. ASSUME x.post # q, NEW g \in Slots, x.post \in PostInWork(g) PROVE x.post \in PostInWork(g)'
      BY <1>7, <1>12, <3>3
    <3> QED BY <1>1, <1>4, <3>1, <3>2, <3>3 DEF PhotosInv
  <2> QED BY <1>1, <1>11, <1>12, <1>13, <2>1 DEF PhotosInv
<1>19. PostsInv'
  <2>1. ASSUME NEW p \in LiveRows(tables'.post) \ broken', \A g \in Slots : p \notin PostInWork(g)'
        PROVE  /\ Cardinality(PhotosOf(p)') = tables'.post[p].files /\ Kept(p)'
               /\ DeletionsOf(p)' = {}
    <3>1. CASE p = q
      <4>1. DeletionsOf(q) = {}
        BY <1>1, <1>2, <1>7 DEF DeletesInv, NotAdded, DeletionsOf
      <4> QED BY <1>5, <1>8, <1>9, <1>11, <1>12, <3>1, <4>1
    <3>2. CASE p # q
      <4>1. p \in LiveRows(tables.post) \ broken /\ p \in DOMAIN tables.post
        BY <1>4, <1>11, <2>1, <3>2 DEF LiveRows
      <4>2. \A g \in Slots : p \notin PostInWork(g)
        BY <1>7, <1>12, <2>1, <3>2
      <4>3. Cardinality(PhotosOf(p)) = tables.post[p].files /\ Kept(p) /\ DeletionsOf(p) = {}
        BY <1>1, <4>1, <4>2 DEF PostsInv
      <4> QED BY <1>11, <1>12, <3>2, <4>1, <4>3
    <3> QED BY <3>1, <3>2
  <2> QED BY <1>11, <2>1 DEF PostsInv
<1> QED
  BY <1>14, <1>16, <1>17, <1>18, <1>19 DEF PostsAndPhotos

\* A post is to be deleted, its photos first.
LEMMA DeleteBeginsNext ==
  ASSUME TablesInv, JobsInv, NumbersInv, PostsAndPhotos, NEW h \in Slots, DeleteBegins(h)
  PROVE  PostsAndPhotos'
<1>1. AddsInv /\ DeletesInv /\ PutsInv /\ PhotosInv /\ PostsInv
  BY DEF PostsAndPhotos
<1>2. /\ Busy(h) /\ job[h].op = "deletePost" /\ job[h].pc = "find" /\ tables' = tables
      /\ CallFiles(h, "post", Arg(h).post, 1, "deletePostPhotos", Arg(h).post, "find")
  BY DEF DeleteBegins, At
<1>3. PICK q : q = Arg(h).post
  OBVIOUS
<1>4. q \in LiveRows(tables.post)
  BY <1>3 DEF DeleteBegins, getPostById, Visible
<1>5. ~Adds(h) /\ ~Deletes(h) /\ PostInWork(h) = {}
  BY <1>2, WorkPosts DEF Adds, Deletes, At
<1>6. Called(1, "deletePostPhotos", q, "find") /\ Waits(h, "post", q, 1)
  BY <1>2, <1>3, Sent
<1>7. /\ broken' = broken /\ photos' = photos /\ bucket' = bucket /\ unlink' = unlink
      /\ calls \subseteq calls'
      /\ \A d \in calls' : d \in calls \/ \E k : d = Call(k, "deletePostPhotos", q, "find")
      /\ \A g \in Slots \ {h} : job'[g] = job[g]
      /\ Busy(h)' /\ job'[h].op = "deletePost" /\ job'[h].arg = job[h].arg
      /\ job'[h].pc = "calls"
  BY <1>2, <1>6 DEF Called, Waits
<1>8. Deletes(h)' /\ ~Adds(h)' /\ PostInWork(h)' = {q}
  <2>1. Deletes(h)' /\ ~Adds(h)'
    BY <1>7 DEF Adds, Deletes, At
  <2> QED BY <1>3, <1>7, <2>1, WorkPosts DEF Arg
<1>9. \A g \in Slots \ {h} : /\ Adds(g)' <=> Adds(g)
                             /\ Deletes(g)' <=> Deletes(g)
                             /\ PostInWork(g)' = PostInWork(g)
  BY <1>7 DEF Adds, Deletes, PostInWork, At, Busy, Got, Arg
<1>10. \A d \in calls' : d \in calls \/ (d.op = "deletePostPhotos" /\ d.about = q /\ d.pc = "find")
  BY <1>7 DEF Call
<1>11. \A p : /\ UploadsOf(p)' = UploadsOf(p) /\ PhotosOf(p)' = PhotosOf(p)
              /\ p # q => DeletionsOf(p)' = DeletionsOf(p)
  BY <1>7, <1>10 DEF UploadsOf, DeletionsOf, PhotosOf
<1>12. \A p : Pictures(p)' = Pictures(p) /\ (Kept(p)' <=> Kept(p))
  BY <1>7, <1>11 DEF Pictures, Kept
<1>13. AddsInv'
  <2> SUFFICES ASSUME NEW g \in Slots, Adds(g)', NEW p \in PostInWork(g)'
               PROVE  /\ p \in DOMAIN tables'.post \ LiveRows(tables'.post)
                      /\ \A f \in Slots : Adds(f)' /\ p \in PostInWork(f)' => f = g
                      /\ \A c \in UploadsOf(p)' : c.no \in job'[g].todo
                      /\ job'[g].pc = "commit" => job'[g].todo = {}
                      /\ Cardinality(Pictures(p)') = Arg(g)'.files /\ Kept(p)'
    BY DEF AddsInv
  <2>1. g # h /\ Adds(g) /\ p \in PostInWork(g) /\ job'[g] = job[g] /\ Arg(g)' = Arg(g)
    BY <1>7, <1>8, <1>9 DEF Arg
  <2>2. /\ p \in DOMAIN tables.post \ LiveRows(tables.post)
        /\ \A f \in Slots : Adds(f) /\ p \in PostInWork(f) => f = g
        /\ \A c \in UploadsOf(p) : c.no \in job[g].todo
        /\ job[g].pc = "commit" => job[g].todo = {}
        /\ Cardinality(Pictures(p)) = Arg(g).files /\ Kept(p)
    BY <1>1, <2>1 DEF AddsInv
  <2>3. \A f \in Slots : Adds(f)' /\ p \in PostInWork(f)' => f = g
    BY <1>8, <1>9, <2>2
  <2> QED BY <1>2, <1>11, <1>12, <2>1, <2>2, <2>3
<1>14. ASSUME NEW p, NotAdded(p) PROVE NotAdded(p)'
  BY <1>2, <1>8, <1>9, <1>11, <1>14 DEF NotAdded
<1>15. NotAdded(q)
  BY <1>1, <1>4 DEF NotAdded, PutsInv, AddsInv, UploadsOf, LiveRows
<1>16. DeletesInv'
  <2>1. ASSUME NEW g \in Slots, Deletes(g)', NEW p \in PostInWork(g)'
        PROVE  NotAdded(p)' /\ (job'[g].pc = "commit" => PhotosOf(p)' = {})
    <3>1. CASE g = h
      BY <1>7, <1>8, <1>14, <1>15, <2>1, <3>1
    <3>2. CASE g # h
      BY <1>1, <1>7, <1>9, <1>11, <1>14, <2>1, <3>2 DEF DeletesInv
    <3> QED BY <3>1, <3>2
  <2>2. ASSUME NEW d \in calls', d.op = "deletePostPhotos"
        PROVE  NotAdded(d.about)' /\ (d.pc = "done" => PhotosOf(d.about)' = {})
    <3>1. CASE d \in calls
      BY <1>1, <1>11, <1>14, <2>2, <3>1 DEF DeletesInv
    <3>2. CASE d.about = q /\ d.pc = "find"
      BY <1>14, <1>15, <3>2
    <3> QED BY <1>10, <3>1, <3>2
  <2> QED BY <2>1, <2>2 DEF DeletesInv
<1>17. PutsInv'
  <2>1. \A d \in calls' : d.op = "uploadPostPhoto" => d \in calls
    BY <1>10
  <2>2. \A g \in Slots : \A p : Adds(g) /\ p \in PostInWork(g) => Adds(g)' /\ p \in PostInWork(g)'
    BY <1>5, <1>9
  <2> QED BY <1>1, <1>2, <1>7, <2>1, <2>2 DEF PutsInv
<1>18. PhotosInv'
  <2>1. \A d \in calls' : Found(d) => d \in calls
    BY <1>10 DEF Found, AvatarOps
  <2>2. \A g \in Slots : \A p : p \in PostInWork(g) => p \in PostInWork(g)'
    BY <1>5, <1>9
  <2> QED BY <1>1, <1>2, <1>7, <2>1, <2>2 DEF PhotosInv, Found
<1>19. PostsInv'
  <2>1. ASSUME NEW p \in LiveRows(tables'.post) \ broken', \A g \in Slots : p \notin PostInWork(g)'
        PROVE  /\ Cardinality(PhotosOf(p)') = tables'.post[p].files /\ Kept(p)'
               /\ DeletionsOf(p)' = {}
    <3>1. p # q /\ p \in LiveRows(tables.post) \ broken
      BY <1>2, <1>7, <1>8, <2>1
    <3>2. \A g \in Slots : p \notin PostInWork(g)
      BY <1>5, <1>9, <2>1
    <3>3. Cardinality(PhotosOf(p)) = tables.post[p].files /\ Kept(p) /\ DeletionsOf(p) = {}
      BY <1>1, <3>1, <3>2 DEF PostsInv
    <3> QED BY <1>2, <1>11, <1>12, <3>1, <3>3
  <2> QED BY <1>1, <1>2, <2>1 DEF PostsInv
<1> QED
  BY <1>13, <1>16, <1>17, <1>18, <1>19 DEF PostsAndPhotos

\* A post has been deleted, after its photos.
LEMMA DeleteCommitsNext ==
  ASSUME TablesInv, JobsInv, PostsAndPhotos, NEW h \in Slots, DeleteCommits(h)
  PROVE  PostsAndPhotos'
<1>1. AddsInv /\ DeletesInv /\ PutsInv /\ PhotosInv /\ PostsInv
  BY DEF PostsAndPhotos
<1>2. Deletes(h) /\ job[h].pc = "commit" /\ ~Adds(h)
  BY DEF DeleteCommits, DeletePostEnds, Adds, Deletes, At
<1>3. PICK q : q = Arg(h).post
  OBVIOUS
<1>4. PostInWork(h) = {q}
  BY <1>2, <1>3, WorkPosts
<1>5. /\ tables' = deletePost(tables, q) /\ tables' # Thrown
      /\ job' = [job EXCEPT ![h] = Idle] /\ broken' = broken /\ UNCHANGED filesVars
  BY <1>3 DEF DeleteCommits, DeletePostEnds, Commit, Reply, deletePost, Statement
<1>6. tables'.post = [tables.post EXCEPT ![q] = Gone]
  <2> DEFINE gone == {c \in LiveRows(tables.comment) : tables.comment[c].post = q}
             d == [tables EXCEPT
               !.post[q] = Gone,
               !.comment = DeleteRows(@, gone),
               !.like = DeleteRows(@, LikesOn(tables.like, q)),
               !.commentLike = DeleteRows(@, UNION {LikesOn(tables.commentLike, c) : c \in gone})]
  <2>1. d.post = [tables.post EXCEPT ![q] = Gone]
    BY DEF TablesInv
  <2>2. deletePost(tables, q) = Statement(tables, IsRow(tables.post, q), d)
    BY DEF deletePost
  <2> HIDE DEF d
  <2> QED BY <1>5, <2>1, <2>2 DEF Statement
<1>7. NotAdded(q) /\ PhotosOf(q) = {}
  BY <1>1, <1>2, <1>4 DEF DeletesInv
<1>8. /\ IsSeq(tables'.post) /\ DOMAIN tables'.post = DOMAIN tables.post
      /\ \A r \in DOMAIN tables.post \ {q} : tables'.post[r] = tables.post[r]
      /\ LiveRows(tables'.post) = LiveRows(tables.post) \ {q}
  <2>1. ~Gone.live
    BY DEF Gone
  <2>2. q \in DOMAIN tables.post
    BY <1>7 DEF NotAdded
  <2> QED BY <1>1, <1>6, <2>1, <2>2, RowChanges
<1>9. /\ \A g \in Slots \ {h} : /\ Adds(g)' <=> Adds(g)
                                /\ Deletes(g)' <=> Deletes(g)
                                /\ PostInWork(g)' = PostInWork(g) /\ job'[g] = job[g]
      /\ ~Adds(h)' /\ ~Deletes(h)' /\ PostInWork(h)' = {}
      /\ \A p : /\ UploadsOf(p)' = UploadsOf(p) /\ DeletionsOf(p)' = DeletionsOf(p)
                /\ PhotosOf(p)' = PhotosOf(p) /\ Pictures(p)' = Pictures(p)
                /\ Kept(p)' <=> Kept(p)
      /\ \A c : Found(c)' <=> Found(c)
  BY <1>5, HandlerEnds
<1>10. calls' = calls /\ photos' = photos /\ bucket' = bucket /\ unlink' = unlink
  BY <1>5 DEF filesVars
<1>11. AddsInv'
  <2> SUFFICES ASSUME NEW g \in Slots, Adds(g)', NEW p \in PostInWork(g)'
               PROVE  /\ p \in DOMAIN tables'.post \ LiveRows(tables'.post)
                      /\ \A f \in Slots : Adds(f)' /\ p \in PostInWork(f)' => f = g
                      /\ \A c \in UploadsOf(p)' : c.no \in job'[g].todo
                      /\ job'[g].pc = "commit" => job'[g].todo = {}
                      /\ Cardinality(Pictures(p)') = Arg(g)'.files /\ Kept(p)'
    BY DEF AddsInv
  <2>1. g # h /\ Adds(g) /\ p \in PostInWork(g) /\ job'[g] = job[g] /\ Arg(g)' = Arg(g)
    BY <1>9 DEF Arg
  <2>2. /\ p \in DOMAIN tables.post \ LiveRows(tables.post)
        /\ \A f \in Slots : Adds(f) /\ p \in PostInWork(f) => f = g
        /\ \A c \in UploadsOf(p) : c.no \in job[g].todo
        /\ job[g].pc = "commit" => job[g].todo = {}
        /\ Cardinality(Pictures(p)) = Arg(g).files /\ Kept(p)
    BY <1>1, <2>1 DEF AddsInv
  <2>3. \A f \in Slots : Adds(f)' /\ p \in PostInWork(f)' => f = g
    BY <1>9, <2>2
  <2> QED BY <1>8, <1>9, <2>1, <2>2, <2>3
<1>12. \A p : NotAdded(p) => NotAdded(p)'
  BY <1>8, <1>9 DEF NotAdded
<1>13. DeletesInv'
  <2>1. ASSUME NEW g \in Slots, Deletes(g)', NEW p \in PostInWork(g)'
        PROVE  NotAdded(p)' /\ (job'[g].pc = "commit" => PhotosOf(p)' = {})
    BY <1>1, <1>9, <1>12, <2>1 DEF DeletesInv
  <2>2. ASSUME NEW d \in calls', d.op = "deletePostPhotos"
        PROVE  NotAdded(d.about)' /\ (d.pc = "done" => PhotosOf(d.about)' = {})
    BY <1>1, <1>9, <1>10, <1>12, <2>2 DEF DeletesInv
  <2> QED BY <2>1, <2>2 DEF DeletesInv
<1>14. PutsInv'
  <2>1. \A g \in Slots : \A p : Adds(g) /\ p \in PostInWork(g) => Adds(g)' /\ p \in PostInWork(g)'
    BY <1>2, <1>9
  <2> QED BY <1>1, <1>5, <1>8, <1>10, <2>1 DEF PutsInv
<1>15. PhotosInv'
  <2>1. ASSUME NEW x \in photos
        PROVE  \/ IsRow(tables'.post, x.post) \/ x.post \in broken'
               \/ \E g \in Slots : x.post \in PostInWork(g)'
    <3>1. x.post # q
      BY <1>7 DEF PhotosOf
    <3>2. CASE IsRow(tables.post, x.post)
      BY <1>8, <3>1, <3>2 DEF IsRow
    <3>3. ASSUME NEW g \in Slots, x.post \in PostInWork(g) PROVE x.post \in PostInWork(g)'
      BY <1>4, <1>9, <3>1, <3>3
    <3> QED BY <1>1, <1>5, <3>2, <3>3 DEF PhotosInv
  <2> QED BY <1>1, <1>8, <1>9, <1>10, <2>1 DEF PhotosInv
<1>16. PostsInv'
  <2>1. ASSUME NEW p \in LiveRows(tables'.post) \ broken', \A g \in Slots : p \notin PostInWork(g)'
        PROVE  /\ Cardinality(PhotosOf(p)') = tables'.post[p].files /\ Kept(p)'
               /\ DeletionsOf(p)' = {}
    <3>1. p # q /\ p \in LiveRows(tables.post) \ broken /\ p \in DOMAIN tables.post
      BY <1>5, <1>8, <2>1 DEF LiveRows
    <3>2. \A g \in Slots : p \notin PostInWork(g)
      BY <1>4, <1>9, <2>1, <3>1
    <3>3. Cardinality(PhotosOf(p)) = tables.post[p].files /\ Kept(p) /\ DeletionsOf(p) = {}
      BY <1>1, <3>1, <3>2 DEF PostsInv
    <3> QED BY <1>8, <1>9, <3>1, <3>3
  <2> QED BY <1>8, <2>1 DEF PostsInv
<1> QED
  BY <1>11, <1>13, <1>14, <1>15, <1>16 DEF PostsAndPhotos

(***************************************************************************)
(* The steps that deal with photos.                                        *)
(***************************************************************************)

\* A request has the answer to a call, and perhaps to all.
LEMMA AnswersNext ==
  ASSUME JobsInv, NumbersInv, WaitInv, PostsAndPhotos, NEW h \in Slots, NEW c \in calls, Answers(h, c)
  PROVE  PostsAndPhotos'
<1>1. AddsInv /\ DeletesInv /\ PutsInv /\ PhotosInv /\ PostsInv
  BY DEF PostsAndPhotos
<1>2. /\ Works(h) /\ Busy(h) /\ job[h].pc = "calls" /\ c.no \in job[h].todo /\ c.pc = "done"
      /\ calls' = calls \ {c} /\ tables' = tables /\ broken' = broken
      /\ photos' = photos /\ bucket' = bucket /\ unlink' = unlink
      /\ Returned(h, c.no, "commit")
  BY DEF Answers, CallReturns, Returned, Reply, Abandon
<1>3. c.op = CallOf(job[h].op) /\ c.about = Subject(h)
  BY <1>2 DEF WaitInv
<1>4. /\ \A g \in Slots \ {h} : job'[g] = job[g]
      /\ DOMAIN job'[h] = Fields
      /\ job'[h].op = job[h].op /\ job'[h].arg = job[h].arg /\ job'[h].got = job[h].got
      /\ job'[h].todo = job[h].todo \ {c.no}
      /\ job'[h].pc = IF job[h].todo = {c.no} THEN "commit" ELSE "calls"
  <2>1. DOMAIN job = Slots /\ DOMAIN job[h] = Fields
    BY <1>2 DEF JobsInv, Fields
  <2> QED BY <1>2, <2>1 DEF Returned, Fields
<1>5. Busy(h)'
  BY <1>4 DEF Busy, Idle, Fields
<1>6. \A g \in Slots : /\ Adds(g)' <=> Adds(g)
                       /\ Deletes(g)' <=> Deletes(g)
                       /\ Arg(g)' = Arg(g)
  BY <1>2, <1>4, <1>5 DEF Adds, Deletes, At, Busy, Arg
<1>7. \A g \in Slots : PostInWork(g)' = PostInWork(g)
  <2>1. \A g \in Slots : Added(g)' = Added(g)
    BY <1>4 DEF Added, Got
  <2> QED BY <1>6, <2>1, WorkPosts
<1>8. \A p : /\ UploadsOf(p)' = UploadsOf(p) \ {c} /\ DeletionsOf(p)' \subseteq DeletionsOf(p)
             /\ PhotosOf(p)' = PhotosOf(p) /\ (Kept(p)' <=> Kept(p))
  BY <1>2 DEF UploadsOf, DeletionsOf, PhotosOf, Kept
<1>9. ASSUME NEW p PROVE Pictures(p)' = Pictures(p)
  <2>1. {d \in UploadsOf(p)' : d.pc # "done"} = {d \in UploadsOf(p) : d.pc # "done"}
    BY <1>2, <1>8
  <2> QED BY <1>8, <2>1 DEF Pictures
<1>10. AddsInv'
  <2> SUFFICES ASSUME NEW g \in Slots, Adds(g)', NEW p \in PostInWork(g)'
               PROVE  /\ p \in DOMAIN tables'.post \ LiveRows(tables'.post)
                      /\ \A f \in Slots : Adds(f)' /\ p \in PostInWork(f)' => f = g
                      /\ \A d \in UploadsOf(p)' : d.no \in job'[g].todo
                      /\ job'[g].pc = "commit" => job'[g].todo = {}
                      /\ Cardinality(Pictures(p)') = Arg(g)'.files /\ Kept(p)'
    BY DEF AddsInv
  <2>1. Adds(g) /\ p \in PostInWork(g)
    BY <1>6, <1>7
  <2>2. /\ p \in DOMAIN tables.post \ LiveRows(tables.post)
        /\ \A f \in Slots : Adds(f) /\ p \in PostInWork(f) => f = g
        /\ \A d \in UploadsOf(p) : d.no \in job[g].todo
        /\ job[g].pc = "commit" => job[g].todo = {}
        /\ Cardinality(Pictures(p)) = Arg(g).files /\ Kept(p)
    BY <1>1, <2>1 DEF AddsInv
  <2>3. \A d \in UploadsOf(p)' : d.no \in job'[g].todo
    <3>1. \A d \in UploadsOf(p) : d # c => d.no # c.no
      BY DEF NumbersInv, UploadsOf
    <3> QED BY <1>4, <1>8, <2>2, <3>1
  <2>4. job'[g].pc = "commit" => job'[g].todo = {}
    BY <1>4, <2>2
  <2>5. \A f \in Slots : Adds(f)' /\ p \in PostInWork(f)' => f = g
    BY <1>6, <1>7, <2>2
  <2> QED BY <1>2, <1>6, <1>8, <1>9, <2>2, <2>3, <2>4, <2>5
<1>11. ASSUME NEW p, NotAdded(p) PROVE NotAdded(p)'
  BY <1>2, <1>6, <1>7, <1>8, <1>11 DEF NotAdded
<1>12. DeletesInv'
  <2>1. ASSUME NEW g \in Slots, Deletes(g)', NEW p \in PostInWork(g)'
        PROVE  NotAdded(p)' /\ (job'[g].pc = "commit" => PhotosOf(p)' = {})
    <3>1. Deletes(g) /\ p \in PostInWork(g)
      BY <1>6, <1>7, <2>1
    <3>2. CASE g # h
      BY <1>1, <1>4, <1>8, <1>11, <3>1, <3>2 DEF DeletesInv
    <3>3. CASE g = h
      <4>1. c.op = "deletePostPhotos" /\ p = c.about
        BY <1>3, <3>1, <3>3, WorkPosts DEF CallOf, Subject, Deletes, Adds, At
      <4>2. PhotosOf(p) = {} /\ NotAdded(p)
        BY <1>1, <1>2, <4>1 DEF DeletesInv
      <4> QED BY <1>8, <1>11, <4>2
    <3> QED BY <3>2, <3>3
  <2>2. ASSUME NEW d \in calls', d.op = "deletePostPhotos"
        PROVE  NotAdded(d.about)' /\ (d.pc = "done" => PhotosOf(d.about)' = {})
    BY <1>1, <1>2, <1>8, <1>11, <2>2 DEF DeletesInv
  <2> QED BY <2>1, <2>2 DEF DeletesInv
<1>13. PutsInv'
  BY <1>1, <1>2, <1>6, <1>7 DEF PutsInv
<1>14. PhotosInv'
  BY <1>1, <1>2, <1>7 DEF PhotosInv, Found
<1>15. PostsInv'
  <2>1. ASSUME NEW p \in LiveRows(tables'.post) \ broken', \A g \in Slots : p \notin PostInWork(g)'
        PROVE  /\ Cardinality(PhotosOf(p)') = tables'.post[p].files /\ Kept(p)'
               /\ DeletionsOf(p)' = {}
    <3>1. Cardinality(PhotosOf(p)) = tables.post[p].files /\ Kept(p) /\ DeletionsOf(p) = {}
      BY <1>1, <1>2, <1>7, <2>1 DEF PostsInv
    <3> QED BY <1>2, <1>8, <3>1
  <2> QED BY <1>1, <1>2, <2>1 DEF PostsInv
<1> QED
  BY <1>10, <1>12, <1>13, <1>14, <1>15 DEF PostsAndPhotos

(***************************************************************************)
(* The steps that deal with photos.                                        *)
(***************************************************************************)

\* What a step of call c makes of the photos and their files.
PhotosMove(c, new) ==
  /\ Becomes(c, new) /\ c.op \in PhotoOps /\ c.pc # "done" /\ new.pc \in {"insert", "delete", "done"}
  /\ \A p : p # c.about => PhotosOf(p)' = PhotosOf(p) /\ (Kept(p) => Kept(p)')
  /\ c.op = "uploadPostPhoto" =>
       Pictures(c.about)' = Pictures(c.about) /\ (Kept(c.about) => Kept(c.about)')
  /\ c.op = "deletePostPhotos" =>
       /\ PhotosOf(c.about)' \subseteq PhotosOf(c.about)
       /\ new.pc = "done" => PhotosOf(c.about)' = {}
  /\ \A x \in photos' : \/ x \in photos
                        \/ /\ c.op = "uploadPostPhoto" /\ c.pc = "insert" /\ new.pc = "done"
                           /\ x = [post |-> c.about, key |-> c.no]
  /\ \A k \in unlink' : k \in unlink \/ \E x \in photos : x.key = k
  /\ bucket \subseteq bucket'
  /\ new.pc = "insert" => c.pc = "put" /\ c.no \in bucket'

LEMMA PhotosMoveNext ==
  ASSUME PostsAndPhotos, NumbersInv, UploadsInv, UNCHANGED <<tables, broken, job>>,
         NEW c \in calls, NEW new, PhotosMove(c, new)
  PROVE  PostsAndPhotos'
<1>1. AddsInv /\ DeletesInv /\ PutsInv /\ PhotosInv /\ PostsInv
  BY DEF PostsAndPhotos
<1>2. /\ calls' = (calls \ {c}) \cup {new}
      /\ new.no = c.no /\ new.op = c.op /\ new.about = c.about
      /\ c.op \in PhotoOps /\ c.pc # "done" /\ new.pc \in {"insert", "delete", "done"}
  BY DEF PhotosMove, Becomes
<1>3. \A g : /\ Adds(g)' <=> Adds(g)
             /\ Deletes(g)' <=> Deletes(g)
             /\ PostInWork(g)' = PostInWork(g) /\ Arg(g)' = Arg(g)
  BY DEF Adds, Deletes, PostInWork, At, Busy, Got, Arg
<1>4. ASSUME NEW p, p # c.about
      PROVE  /\ UploadsOf(p)' = UploadsOf(p) /\ DeletionsOf(p)' = DeletionsOf(p)
             /\ PhotosOf(p)' = PhotosOf(p) /\ Pictures(p)' = Pictures(p) /\ (Kept(p) => Kept(p)')
  <2>1. UploadsOf(p)' = UploadsOf(p) /\ DeletionsOf(p)' = DeletionsOf(p)
    BY <1>2, <1>4 DEF UploadsOf, DeletionsOf
  <2>2. PhotosOf(p)' = PhotosOf(p) /\ (Kept(p) => Kept(p)')
    BY <1>4 DEF PhotosMove
  <2> QED BY <2>1, <2>2 DEF Pictures
<1>5. ASSUME NEW p, NotAdded(p)
      PROVE  NotAdded(p)' /\ (PhotosOf(p) = {} => PhotosOf(p)' = {})
  <2>1. p = c.about => c.op = "deletePostPhotos"
    BY <1>2, <1>5 DEF NotAdded, UploadsOf, PhotoOps
  <2>2. UploadsOf(p)' = {}
    BY <1>2, <1>5, <2>1 DEF NotAdded, UploadsOf
  <2>3. NotAdded(p)'
    BY <1>3, <1>5, <2>2 DEF NotAdded
  <2>4. PhotosOf(p)' = PhotosOf(p) \/ PhotosOf(p)' \subseteq PhotosOf(p)
    BY <1>4, <2>1 DEF PhotosMove
  <2> QED BY <2>3, <2>4
<1>6. AddsInv'
  <2> SUFFICES ASSUME NEW g \in Slots, Adds(g)', NEW p \in PostInWork(g)'
               PROVE  /\ p \in DOMAIN tables'.post \ LiveRows(tables'.post)
                      /\ \A f \in Slots : Adds(f)' /\ p \in PostInWork(f)' => f = g
                      /\ \A d \in UploadsOf(p)' : d.no \in job'[g].todo
                      /\ job'[g].pc = "commit" => job'[g].todo = {}
                      /\ Cardinality(Pictures(p)') = Arg(g)'.files /\ Kept(p)'
    BY DEF AddsInv
  <2>1. Adds(g) /\ p \in PostInWork(g)
    BY <1>3
  <2>2. /\ p \in DOMAIN tables.post \ LiveRows(tables.post)
        /\ \A f \in Slots : Adds(f) /\ p \in PostInWork(f) => f = g
        /\ \A d \in UploadsOf(p) : d.no \in job[g].todo
        /\ job[g].pc = "commit" => job[g].todo = {}
        /\ Cardinality(Pictures(p)) = Arg(g).files /\ Kept(p)
    BY <1>1, <2>1 DEF AddsInv
  <2>3. \A d \in UploadsOf(p)' : d.no \in job'[g].todo
    BY <1>2, <2>2 DEF UploadsOf
  <2>4. p = c.about => c.op = "uploadPostPhoto"
    BY <1>1, <1>2, <2>1 DEF DeletesInv, NotAdded, PhotoOps
  <2>5. Pictures(p)' = Pictures(p) /\ Kept(p)'
    BY <1>4, <2>2, <2>4 DEF PhotosMove
  <2>6. \A f \in Slots : Adds(f)' /\ p \in PostInWork(f)' => f = g
    BY <1>3, <2>2
  <2>7. Arg(g)' = Arg(g)
    BY <1>3
  <2> QED BY <2>2, <2>3, <2>5, <2>6, <2>7
<1>7. DeletesInv'
  <2>1. ASSUME NEW g \in Slots, Deletes(g)', NEW p \in PostInWork(g)'
        PROVE  NotAdded(p)' /\ (job'[g].pc = "commit" => PhotosOf(p)' = {})
    BY <1>1, <1>3, <1>5, <2>1 DEF DeletesInv
  <2>2. ASSUME NEW d \in calls', d.op = "deletePostPhotos"
        PROVE  NotAdded(d.about)' /\ (d.pc = "done" => PhotosOf(d.about)' = {})
    <3>1. CASE d \in calls
      <4>1. NotAdded(d.about) /\ (d.pc = "done" => PhotosOf(d.about) = {})
        BY <1>1, <2>2, <3>1 DEF DeletesInv
      <4> QED BY <1>5, <4>1
    <3>2. CASE d = new
      <4>1. NotAdded(c.about)
        BY <1>1, <1>2, <2>2, <3>2 DEF DeletesInv
      <4>2. NotAdded(c.about)'
        BY <1>5, <4>1
      <4> QED BY <1>2, <2>2, <3>2, <4>2 DEF PhotosMove
    <3> QED BY <1>2, <2>2, <3>1, <3>2
  <2> QED BY <2>1, <2>2 DEF DeletesInv
<1>8. PutsInv'
  <2> SUFFICES ASSUME NEW d \in calls', d.op = "uploadPostPhoto"
               PROVE  /\ d.about \in DOMAIN tables'.post \ LiveRows(tables'.post)
                      /\ d.about \in broken' \/ \E h \in Slots : Adds(h)' /\ d.about \in PostInWork(h)'
                      /\ d.pc \in {"put", "insert"} =>
                           /\ \A x \in photos' : x.key # d.no
                           /\ d.no \notin unlink'
                           /\ d.pc = "insert" => d.no \in bucket'
    BY DEF PutsInv
  <2>1. PICK e \in calls : /\ e.op = d.op /\ e.about = d.about /\ e.no = d.no
                           /\ d = e \/ (e = c /\ d = new)
    BY <1>2
  <2>2. /\ d.about \in DOMAIN tables.post \ LiveRows(tables.post)
        /\ d.about \in broken \/ \E h \in Slots : Adds(h) /\ d.about \in PostInWork(h)
        /\ e.pc \in {"put", "insert"} =>
             (\A x \in photos : x.key # d.no) /\ d.no \notin unlink /\ (e.pc = "insert" => d.no \in bucket)
    BY <1>1, <2>1 DEF PutsInv
  <2>3. ASSUME d.pc \in {"put", "insert"}
        PROVE  /\ \A x \in photos' : x.key # d.no
               /\ d.no \notin unlink'
               /\ d.pc = "insert" => d.no \in bucket'
    <3>1. e.pc \in {"put", "insert"} /\ (d.pc = "insert" => d.no \in bucket')
      BY <1>2, <2>1, <2>2, <2>3 DEF PhotosMove
    <3>2. d.no = c.no => new.pc # "done"
      BY <1>2, <2>1, <2>3 DEF NumbersInv
    <3> QED BY <2>2, <3>1, <3>2 DEF PhotosMove
  <2> QED BY <1>3, <2>2, <2>3
<1>9. PhotosInv'
  <2>1. ASSUME NEW d \in calls', Found(d) PROVE d \in calls
    BY <1>2, <2>1 DEF Found, AvatarOps, PhotoOps
  <2> DEFINE Mine(x) == /\ c.op = "uploadPostPhoto" /\ c.pc = "insert"
                        /\ x = [post |-> c.about, key |-> c.no]
  <2>2. \A x \in photos' : x \in photos \/ Mine(x)
    BY DEF PhotosMove
  <2>3. ASSUME NEW x \in photos', Mine(x)
        PROVE  /\ x = [post |-> x.post, key |-> x.key] /\ x.post \in DOMAIN tables.post
               /\ x.post \in broken \/ \E h \in Slots : x.post \in PostInWork(h)
               /\ \A y \in photos : x.key # y.key
               /\ \A d \in calls : Found(d) => d.key # x.key
    BY <1>1, <2>3 DEF PutsInv, UploadsInv, NoAvatar
  <2>4. ASSUME NEW x \in photos
        PROVE  /\ x = [post |-> x.post, key |-> x.key] /\ x.post \in DOMAIN tables.post
               /\ \/ IsRow(tables.post, x.post) \/ x.post \in broken
                  \/ \E h \in Slots : x.post \in PostInWork(h)
               /\ \A d \in calls : Found(d) => d.key # x.key
    BY <1>1 DEF PhotosInv
  <2>5. \A x, y \in photos' : x.key = y.key => x = y
    BY <1>1, <2>2, <2>3 DEF PhotosInv
  <2> HIDE DEF Mine
  <2>6. ASSUME NEW x \in photos'
        PROVE  /\ x = [post |-> x.post, key |-> x.key] /\ x.post \in DOMAIN tables'.post
               /\ \/ IsRow(tables'.post, x.post) \/ x.post \in broken'
                  \/ \E h \in Slots : x.post \in PostInWork(h)'
               /\ \A d \in calls' : Found(d) => d.key # x.key
    BY <1>3, <2>1, <2>2, <2>3, <2>4
  <2> QED BY <2>5, <2>6 DEF PhotosInv, Found
<1>10. PostsInv'
  <2>1. ASSUME NEW p \in LiveRows(tables'.post) \ broken', \A g \in Slots : p \notin PostInWork(g)'
        PROVE  /\ Cardinality(PhotosOf(p)') = tables'.post[p].files /\ Kept(p)'
               /\ DeletionsOf(p)' = {}
    <3>1. /\ Cardinality(PhotosOf(p)) = tables.post[p].files /\ Kept(p) /\ DeletionsOf(p) = {}
          /\ p \in LiveRows(tables.post)
      BY <1>1, <1>3, <2>1 DEF PostsInv
    <3>2. p # c.about
      BY <1>1, <1>2, <3>1 DEF PutsInv, DeletionsOf, PhotoOps
    <3> QED BY <1>4, <3>1, <3>2
  <2> QED BY <1>1, <2>1 DEF PostsInv
<1> QED
  BY <1>6, <1>7, <1>8, <1>9, <1>10 DEF PostsAndPhotos

LEMMA PhotosRun ==
  ASSUME PostsAndPhotos, NumbersInv, NEW c \in calls, PhotoStep(c)
  PROVE  \E new : PhotosMove(c, new)
<1>1. PutsInv /\ PhotosInv
  BY DEF PostsAndPhotos
<1>2. CASE savePostPhoto(c)
  <2>1. PICK new : Becomes(c, new) /\ new.pc = "insert"
    BY <1>2, Advances DEF savePostPhoto
  <2>2. /\ c.op = "uploadPostPhoto" /\ c.pc = "put" /\ photos' = photos /\ unlink' = unlink
        /\ bucket' = bucket \cup {c.no}
    BY <1>2 DEF savePostPhoto, CallAt
  <2>3. \A p : PhotosOf(p)' = PhotosOf(p) /\ (Kept(p) => Kept(p)')
    BY <2>2 DEF PhotosOf, Kept
  <2>4. Pictures(c.about)' = Pictures(c.about)
    <3> DEFINE p == c.about
    <3>1. \A x : x \in {[post |-> p, key |-> d.no] : d \in {e \in UploadsOf(p) : e.pc # "done"}}
                 <=> \E d \in calls : d.op = "uploadPostPhoto" /\ d.about = p /\ d.pc # "done"
                                      /\ x = [post |-> p, key |-> d.no]
      BY DEF UploadsOf
    <3> QED BY <2>1, <2>2, <2>3 DEF Pictures, UploadsOf, Becomes
  <2> QED BY <2>1, <2>2, <2>3, <2>4 DEF PhotosMove, PhotoOps
<1>3. CASE addPostPhoto(c)
  <2>1. PICK new : Becomes(c, new) /\ new.pc = "done"
    BY <1>3, Advances DEF addPostPhoto
  <2>2. /\ c.op = "uploadPostPhoto" /\ c.pc = "insert" /\ unlink' = unlink /\ bucket' = bucket
        /\ photos' = photos \cup {[post |-> c.about, key |-> c.no]}
    BY <1>3 DEF addPostPhoto, CallAt
  <2>3. \A p : p # c.about => PhotosOf(p)' = PhotosOf(p) /\ (Kept(p) => Kept(p)')
    BY <2>2 DEF PhotosOf, Kept
  <2>4. Kept(c.about) => Kept(c.about)'
    BY <1>1, <2>2 DEF PhotosOf, Kept, PutsInv
  <2>5. Pictures(c.about)' = Pictures(c.about)
    BY <2>1, <2>2 DEF Pictures, PhotosOf, UploadsOf, Becomes
  <2> QED BY <2>1, <2>2, <2>3, <2>4, <2>5 DEF PhotosMove, PhotoOps
<1>4. CASE findPostPhotos(c)
  <2> DEFINE pc == IF KeysOf(c.about) = {} THEN "done" ELSE "delete"
  <2>1. PICK new : Becomes(c, new) /\ new.pc = pc
    BY <1>4, Advances DEF findPostPhotos
  <2>2. /\ c.op = "deletePostPhotos" /\ c.pc = "find" /\ photos' = photos /\ bucket' = bucket
        /\ unlink' = unlink \cup KeysOf(c.about)
    BY <1>4 DEF findPostPhotos, CallAt
  <2>3. \A k \in KeysOf(c.about) : \E x \in photos : x.key = k /\ x.post = c.about
    BY DEF KeysOf, PhotosOf
  <2>4. ASSUME NEW p, p # c.about PROVE PhotosOf(p)' = PhotosOf(p) /\ (Kept(p) => Kept(p)')
    <3>1. PhotosOf(p)' = PhotosOf(p)
      BY <2>2 DEF PhotosOf
    <3>2. \A x \in PhotosOf(p) : x.key \notin KeysOf(c.about)
      BY <1>1, <2>3, <2>4 DEF PhotosOf, PhotosInv
    <3> QED BY <2>2, <3>1, <3>2 DEF Kept
  <2>5. PhotosOf(c.about)' = PhotosOf(c.about) /\ (new.pc = "done" => PhotosOf(c.about) = {})
    BY <2>1, <2>2 DEF PhotosOf, KeysOf
  <2> QED BY <2>1, <2>2, <2>3, <2>4, <2>5 DEF PhotosMove, PhotoOps
<1>5. CASE deleteAllPostPhotos(c)
  <2>1. PICK new : Becomes(c, new) /\ new.pc = "done"
    BY <1>5, Advances DEF deleteAllPostPhotos
  <2>2. /\ c.op = "deletePostPhotos" /\ c.pc = "delete" /\ bucket' = bucket /\ unlink' = unlink
        /\ photos' = photos \ PhotosOf(c.about)
    BY <1>5 DEF deleteAllPostPhotos, CallAt
  <2>3. \A p : p # c.about => PhotosOf(p)' = PhotosOf(p) /\ (Kept(p) => Kept(p)')
    BY <2>2 DEF PhotosOf, Kept
  <2>4. PhotosOf(c.about)' = {}
    BY <2>2 DEF PhotosOf
  <2> QED BY <2>1, <2>2, <2>3, <2>4 DEF PhotosMove, PhotoOps
<1> QED
  BY <1>2, <1>3, <1>4, <1>5 DEF PhotoStep

\* What post and photos there are and are to be fit together.
LEMMA PostsAndPhotosNext ==
  ASSUME TablesInv, JobsInv, StoreInv, FaultsInv, FilesAsked, WaitInv, PostsAndPhotos, [Next]_vars
  PROVE  PostsAndPhotos'
<1>1. NumbersInv /\ UploadsInv /\ AddsInv /\ PostsInv
  BY DEF StoreInv, PostsAndPhotos
<1>2. FoundBefore
  BY <1>1, FoundNext DEF FoundBefore
<1>3. ASSUME NEW H \in SUBSET Slots, Eases(H) PROVE PostsAndPhotos'
  BY <1>2, <1>3, EaseNext
<1>4. ASSUME NEW h \in Slots, PostStep(h) PROVE PostsAndPhotos'
  BY <1>1, <1>4, AddBeginsNext, AddCommitsNext, DeleteBeginsNext, DeleteCommitsNext DEF PostStep
<1>5. ASSUME NEW h \in Slots, NEW c \in calls, Answers(h, c) PROVE PostsAndPhotos'
  BY <1>1, <1>5, AnswersNext
<1>6. ASSUME NEW c \in calls, PhotoRun(c) PROVE PostsAndPhotos'
  BY <1>1, <1>6, PhotosRun, PhotosMoveNext DEF PhotoRun
<1> QED
  BY <1>1, <1>3, <1>4, <1>5, <1>6, PhotoCases

(***************************************************************************)
(* Requests wait for their own calls.                                      *)
(***************************************************************************)

\* Calls are made with new numbers, and keep what they are about.
LEMMA CallsStay ==
  ASSUME NumbersInv, FaultsInv, FilesAsked, [Next]_vars
  PROVE  \A d \in calls' : \/ d.no \notin 1..made
                           \/ \E c \in calls : c.no = d.no /\ c.op = d.op /\ c.about = d.about
<1>1. CASE UNCHANGED filesVars \/ Takes \/ \E k \in unlink : deleteImage(k)
  BY <1>1 DEF filesVars, Takes, deleteImage
<1>2. CASE Sends
  <2>1. PICK n \in Nat : \E op, about, pc : Send(n, op, about, pc)
    BY <1>2 DEF Sends
  <2>2. \A op, about, pc : \A i \in 1..n :
          Call(made + i, op, about, pc).no = made + i /\ made + i \notin 1..made
    BY DEF Call, NumbersInv
  <2> QED BY <2>1, <2>2 DEF Send
<1>3. ASSUME NEW c \in calls, CallStep(c) \/ CallFails(c)
      PROVE  \E new : /\ calls' = (calls \ {c}) \cup {new}
                      /\ new.no = c.no /\ new.op = c.op /\ new.about = c.about
  <2>1. ASSUME NEW pc, Advance(c, pc) PROVE \E new : Becomes(c, new)
    BY <2>1, Advances
  <2>2. ASSUME NEW key, calls' = (calls \ {c}) \cup {[c EXCEPT !.pc = "unlink", !.key = key]}
        PROVE  \E new : Becomes(c, new)
    <3> DEFINE new == [c EXCEPT !.pc = "unlink", !.key = key]
    <3>1. DOMAIN new = CallFields /\ new.no = c.no /\ new.op = c.op /\ new.about = c.about
      BY DEF NumbersInv, CallFields
    <3> QED BY <2>2, <3>1 DEF Becomes
  <2>3. CASE findAvatar(c)
    BY <2>1, <2>2, <2>3 DEF findAvatar, Becomes
  <2>4. CASE savePostPhoto(c) \/ addPostPhoto(c) \/ findPostPhotos(c) \/ deleteAllPostPhotos(c)
    BY <2>1, <2>4 DEF savePostPhoto, addPostPhoto, findPostPhotos, deleteAllPostPhotos, Becomes
  <2>5. CASE deleteAvatarImage(c) \/ deleteAvatar(c) \/ saveAvatar(c) \/ addAvatar(c) \/ CallFails(c)
    BY <2>1, <2>5 DEF deleteAvatarImage, deleteAvatar, saveAvatar, addAvatar, CallFails, Becomes
  <2> QED BY <1>3, <2>3, <2>4, <2>5 DEF CallStep
<1>4. CASE FilesStop
  <2>1. ASSUME NEW c \in calls, NEW d, d = IF Answered(c) THEN c ELSE [c EXCEPT !.pc = "lost"]
        PROVE  d.no = c.no /\ d.op = c.op /\ d.about = c.about
    BY <2>1 DEF NumbersInv, CallFields
  <2> QED BY <1>4, <2>1 DEF FilesStop
<1> QED
  BY <1>1, <1>2, <1>3, <1>4, FilesSteps

\* A request is called off, or does something else than to wait.
Quiet(h) ==
  /\ \A g \in Slots \ {h} : job'[g] = job[g]
  /\ job'[h] = Idle \/ (job'[h].op = job[h].op /\ job'[h].pc \notin {"calls", "photos"})
  /\ feed' = feed \/ feed' = StillShown(tables')

AvatarCalls(h) ==
  /\ At(h, AvatarOps, "find") /\ UNCHANGED tables
  /\ CallFiles(h, "user", Arg(h).user, 1, job[h].op, Arg(h).user, "find")

LEMMA HandlersMove ==
  ASSUME JobsInv, NEW h \in Slots, PostSteps(h) \/ FollowingSteps(h) \/ FeedSteps(h) \/ ListSteps(h)
  PROVE  \/ Quiet(h) /\ Busy(h)
         \/ AddPostUploads(h) \/ DeleteBegins(h) \/ AvatarCalls(h)
         \/ PageReads(h) \/ PageEnds(h) \/ ShowPage(h)
<1>1. ASSUME NEW ops, NEW at \in {"find", "create", "check", "write", "followees", "cursor"}, At(h, ops, at),
             NEW name, NEW values, NEW pc, Read(h, name, values, pc), pc \notin {"calls", "photos"}
      PROVE  Quiet(h) /\ Busy(h)
  <2>1. DOMAIN job = Slots /\ DOMAIN job[h] = Fields /\ Busy(h) /\ job[h].pc = at
    BY <1>1 DEF JobsInv, Fields, At
  <2>2. PICK v \in values : Learn(h, name, v, pc)
    BY <1>1 DEF Read
  <2>3. /\ \A g \in Slots \ {h} : job'[g] = job[g]
        /\ job'[h].op = job[h].op /\ job'[h].pc \in {pc, job[h].pc}
    BY <2>1, <2>2 DEF Learn, Fields
  <2> QED BY <1>1, <2>1, <2>3 DEF Read, Quiet
<1>2. ASSUME NEW answer, Reply(h, answer), feed' = feed \/ feed' = StillShown(tables') PROVE Quiet(h)
  BY <1>2 DEF Reply, Quiet, JobsInv
<1>3. ASSUME NEW ops, NEW at, At(h, ops, at), NEW endpoint, NEW result, Answer(h, endpoint, result)
      PROVE  Quiet(h) /\ Busy(h)
  BY <1>2, <1>3 DEF Answer, At
<1>4. ASSUME NEW ops, NEW at, At(h, ops, at), NEW new, NEW endpoint, Commit(h, new, endpoint)
      PROVE  Quiet(h) /\ Busy(h)
  BY <1>2, <1>4 DEF Commit, At
<1>5. CASE AddPostFinds(h) \/ UpdatePostFinds(h)
  BY <1>1, <1>3, <1>5 DEF AddPostFinds, UpdatePostFinds
<1>6. CASE AddPostEnds(h) \/ UpdatePostEnds(h) \/ DeletePostEnds(h)
  BY <1>4, <1>6 DEF AddPostEnds, UpdatePostEnds, DeletePostEnds
<1>7. CASE DeletePostFinds(h)
  BY <1>3, <1>7 DEF DeletePostFinds, MineOrAnswer, DeleteBegins
<1>8. CASE LikeReads(h)
  BY <1>1, <1>8 DEF LikeReads
<1>9. CASE LikePostEnds(h) \/ LikeCommentEnds(h)
  BY <1>3, <1>4, <1>9 DEF LikePostEnds, LikeCommentEnds
<1>10. CASE CommentReads(h) \/ CommentEnds(h) \/ AnswerEnds(h)
  BY <1>1, <1>3, <1>4, <1>10 DEF CommentReads, CommentEnds, AnswerEnds
<1>11. CASE FollowFinds(h) \/ FollowChecks(h)
  BY <1>1, <1>3, <1>11 DEF FollowFinds, FollowChecks
<1>12. CASE FollowEnds(h) \/ UnfollowEnds(h)
  BY <1>4, <1>12 DEF FollowEnds, UnfollowEnds
<1>13. CASE AvatarFinds(h) \/ AvatarEnds(h)
  BY <1>3, <1>13 DEF AvatarFinds, AvatarEnds, AvatarCalls
<1>14. CASE PageFollowees(h) \/ PageCursor(h)
  BY <1>1, <1>14 DEF PageFollowees, PageCursor
<1>15. CASE CommentsFind(h) \/ AnswersFind(h)
  BY <1>1, <1>3, <1>15 DEF CommentsFind, AnswersFind, FindOrAnswer
<1> QED
  BY <1>5, <1>6, <1>7, <1>8, <1>9, <1>10, <1>11, <1>12, <1>13, <1>14, <1>15
  DEF PostSteps, FollowingSteps, FeedSteps, ListSteps, CommentsRead, AnswersRead, FollowersRead,
      FollowingRead, SearchRead, AdminListsRead

\* Who waits has waited before, or begins to wait for the calls he makes.
StillWaits(g) ==
  /\ Busy(g) /\ job[g].pc = "calls"
  /\ job'[g].op = job[g].op /\ job'[g].arg = job[g].arg /\ job'[g].got = job[g].got
  /\ job'[g].todo \subseteq job[g].todo

StartsToWait(g) ==
  /\ job'[g].op \in {"addPost", "deletePost"} \cup AvatarOps
  /\ job'[g].todo \subseteq 1..made'
  /\ \A d \in calls' : d.no \in job'[g].todo => d.op = CallOf(job'[g].op) /\ d.about = Subject(g)'

Waiting(g) == Busy(g)' /\ job'[g].pc = "calls" => StillWaits(g) \/ StartsToWait(g)

LEMMA CallsAreAwaited ==
  ASSUME NumbersInv, NEW h \in Slots, NEW name, NEW value, NEW n \in Nat, NEW op, NEW about, NEW pc,
         Called(n, op, about, pc), Waits(h, name, value, n),
         job[h].op \in {"addPost", "deletePost"} \cup AvatarOps, op = CallOf(job[h].op),
         about = Subject(h)'
  PROVE  \A g \in Slots : Waiting(g)
<1>1. ASSUME NEW d \in calls', d.no \in made + 1 .. made + n PROVE d.op = op /\ d.about = about
  BY <1>1 DEF Called, Call, NumbersInv
<1>2. made + 1 .. made + n \subseteq 1..made'
  BY DEF Called, NumbersInv
<1>3. StartsToWait(h)
  BY <1>1, <1>2 DEF StartsToWait, Waits
<1> QED
  BY <1>3 DEF Waiting, StillWaits, Waits, Busy

LEMMA WaitNext ==
  ASSUME JobsInv, NumbersInv, FaultsInv, FilesAsked, WaitInv, [Next]_vars
  PROVE  WaitInv'
<1>1. ASSUME UNCHANGED job PROVE \A g \in Slots : Waiting(g)
  BY <1>1 DEF Waiting, StillWaits, Busy
<1>2. ASSUME NEW h \in Slots, \A g \in Slots \ {h} : job'[g] = job[g],
             job'[h] = Idle \/ job'[h].pc # "calls"
      PROVE  \A g \in Slots : Waiting(g)
  BY <1>2 DEF Waiting, StillWaits, Busy
<1>3. ASSUME NEW h \in Slots, Begins(h) PROVE \A g \in Slots : Waiting(g)
  <2> TAKE g \in Slots
  <2>1. CASE g = h
    BY <1>3, <2>1 DEF Begins, Waiting
  <2>2. CASE g # h /\ Busy(g)
    <3>1. job'[g] = [job[g] EXCEPT !.alone = FALSE] /\ DOMAIN job[g] = Fields
      BY <1>3, <2>2 DEF Begins, JobsInv, Fields
    <3> QED BY <2>2, <3>1 DEF Waiting, StillWaits, Fields
  <2>3. CASE g # h /\ ~Busy(g)
    BY <1>3, <2>3 DEF Begins, Waiting, Busy
  <2> QED BY <2>1, <2>2, <2>3
<1>4. ASSUME NEW h \in Slots,
             PostRequests(h) \/ FollowingRequests(h) \/ FeedRequests(h) \/ ListRequests(h)
      PROVE  \A g \in Slots : Waiting(g)
  BY <1>1, <1>3, <1>4, RequestsBegin
<1>5. ASSUME NEW h \in Slots, PostSteps(h) \/ FollowingSteps(h) \/ FeedSteps(h) \/ ListSteps(h)
      PROVE  \A g \in Slots : Waiting(g)
  <2>1. CASE Quiet(h)
    BY <1>2, <2>1 DEF Quiet
  <2>2. CASE AddPostUploads(h)
    <3> DEFINE id == Len(tables.post) + 1
               post == [id |-> id, created |-> now]
    <3>1. Busy(h) /\ job[h].op = "addPost" /\ Arg(h).files \in Nat
          /\ CallFiles(h, "post", post, Arg(h).files, "uploadPostPhoto", id, "put")
      BY <2>2 DEF AddPostUploads, At, FilesAsked
    <3>2. Called(Arg(h).files, "uploadPostPhoto", id, "put") /\ Waits(h, "post", post, Arg(h).files)
      BY <3>1, Sent
    <3>3. Subject(h)' = id
      BY <3>1, <3>2 DEF Waits, Subject, Added, Got
    <3> QED BY <3>1, <3>2, <3>3, CallsAreAwaited DEF CallOf
  <2>3. CASE DeleteBegins(h)
    <3> DEFINE p == Arg(h).post
    <3>1. Busy(h) /\ job[h].op = "deletePost"
          /\ CallFiles(h, "post", p, 1, "deletePostPhotos", p, "find")
      BY <2>3 DEF DeleteBegins, At
    <3>2. Called(1, "deletePostPhotos", p, "find") /\ Waits(h, "post", p, 1)
      BY <3>1, Sent
    <3>3. Subject(h)' = p
      BY <3>1, <3>2 DEF Waits, Subject, Arg
    <3> QED BY <3>1, <3>2, <3>3, CallsAreAwaited DEF CallOf
  <2>4. CASE AvatarCalls(h)
    <3> DEFINE u == Arg(h).user
    <3>1. Busy(h) /\ job[h].op \in AvatarOps /\ CallFiles(h, "user", u, 1, job[h].op, u, "find")
      BY <2>4 DEF AvatarCalls, At
    <3>2. Called(1, job[h].op, u, "find") /\ Waits(h, "user", u, 1)
      BY <3>1, Sent
    <3>3. Subject(h)' = u
      BY <3>1, <3>2 DEF Waits, Subject, Arg, AvatarOps
    <3>4. CallOf(job[h].op) = job[h].op
      BY <3>1 DEF CallOf, AvatarOps
    <3> QED BY <3>1, <3>2, <3>3, <3>4, CallsAreAwaited
  <2>5. CASE PageReads(h)
    <3>1. DOMAIN job = Slots /\ DOMAIN job[h] = Fields /\ job[h].pc = "rows"
      BY <2>5 DEF PageReads, At, JobsInv, Fields
    <3>2. PICK page : Learn(h, "page", page, "photos")
      BY <2>5 DEF PageReads
    <3>3. (\A g \in Slots \ {h} : job'[g] = job[g]) /\ job'[h].pc # "calls"
      BY <3>1, <3>2 DEF Learn, Fields
    <3> QED BY <1>2, <3>3
  <2>6. CASE PageEnds(h) \/ ShowPage(h)
    <3>1. job' = [job EXCEPT ![h] = Idle] /\ DOMAIN job = Slots
      BY <2>6 DEF PageEnds, ShowPage, Reply, JobsInv
    <3> QED BY <1>2, <3>1
  <2> QED BY <1>5, <2>1, <2>2, <2>3, <2>4, <2>5, <2>6, HandlersMove
<1>6. ASSUME NEW h \in Slots, NEW c \in calls, CallReturns(h, c) PROVE \A g \in Slots : Waiting(g)
  <2>1. CASE Returned(h, c.no, "commit")
    <3>1. DOMAIN job = Slots /\ DOMAIN job[h] = Fields /\ Busy(h) /\ job[h].pc = "calls"
      BY <1>6 DEF CallReturns, JobsInv, Fields
    <3>2. /\ \A g \in Slots \ {h} : job'[g] = job[g]
          /\ job'[h].op = job[h].op /\ job'[h].arg = job[h].arg /\ job'[h].got = job[h].got
          /\ job'[h].todo \subseteq job[h].todo
      BY <2>1, <3>1 DEF Returned, Fields
    <3> QED BY <3>1, <3>2 DEF Waiting, StillWaits, Busy
  <2>2. CASE Reply(h, "Internal") \/ Abandon(h)
    BY <1>2, <2>2 DEF Reply, Abandon, JobsInv
  <2> QED BY <1>6, <2>1, <2>2 DEF CallReturns
<1>7. ASSUME NEW h \in Slots, GatewayFails(h) PROVE \A g \in Slots : Waiting(g)
  BY <1>2, <1>7 DEF GatewayFails, Fail, JobsInv
<1>8. ASSUME \/ \E c \in calls : Unheard(c)
             \/ FilesRun \/ FilesFail \/ Tick \/ (\E u \in tables.user : Moderate(u)) \/ UNCHANGED vars
      PROVE  \A g \in Slots : Waiting(g)
  BY <1>1, <1>8 DEF Unheard, FilesRun, FilesFail, Tick, Moderate, vars, handlerVars
<1>9. ASSUME GatewayRestarts PROVE \A g \in Slots : Waiting(g)
  BY <1>9 DEF GatewayRestarts, Restart, Waiting, Busy
<1>10. ASSUME NEW g \in Slots PROVE Waiting(g)
  BY <1>1, <1>4, <1>5, <1>6, <1>7, <1>8, <1>9 DEF Next, Waiting
<1>11. ASSUME NEW g \in Slots, Busy(g)', job'[g].pc = "calls", StillWaits(g)
       PROVE  /\ job'[g].op \in {"addPost", "deletePost"} \cup AvatarOps
              /\ job'[g].todo \subseteq 1..made'
              /\ \A d \in calls' : d.no \in job'[g].todo =>
                   d.op = CallOf(job'[g].op) /\ d.about = Subject(g)'
  <2>1. job[g].todo \subseteq 1..made /\ job[g].op \in {"addPost", "deletePost"} \cup AvatarOps
    BY <1>11 DEF StillWaits, WaitInv
  <2>2. made \in Nat /\ made' \in Nat /\ made <= made'
    <3>1. made \in Nat
      BY DEF NumbersInv
    <3>2. \A n \in Nat : made + n \in Nat /\ made <= made + n
      BY <3>1
    <3>3. made' = made \/ \E n \in Nat : made' = made + n
      BY FilesSteps DEF filesVars, Sends, Send, Takes, deleteImage, FilesStop, CallFails, CallStep,
         savePostPhoto, addPostPhoto, findPostPhotos, deleteAllPostPhotos, findAvatar,
         deleteAvatarImage, deleteAvatar, saveAvatar, addAvatar
    <3> QED BY <3>1, <3>2, <3>3
  <2>3. Subject(g)' = Subject(g)
    BY <1>11 DEF StillWaits, Subject, Added, Arg, Got
  <2>4. ASSUME NEW d \in calls', d.no \in job'[g].todo
        PROVE  d.op = CallOf(job[g].op) /\ d.about = Subject(g)
    <3>1. PICK c \in calls : c.no = d.no /\ c.op = d.op /\ c.about = d.about
      BY <1>11, <2>1, <2>4, CallsStay DEF StillWaits
    <3> QED BY <1>11, <2>4, <3>1 DEF StillWaits, WaitInv
  <2> QED BY <1>11, <2>1, <2>2, <2>3, <2>4 DEF StillWaits
<1> QED
  BY <1>10, <1>11 DEF WaitInv, Waiting, StartsToWait

(***************************************************************************)
(* What a reader is shown.                                                 *)
(***************************************************************************)

FeedSame ==
  /\ feed'.open = feed.open
  /\ feed.open => /\ {"open", "kind", "seen"} \subseteq DOMAIN feed'
                  /\ feed'.kind = feed.kind /\ feed'.seen = feed.seen

JobStays(g) ==
  Busy(g)' => /\ Busy(g) /\ job'[g].op = job[g].op
              /\ job'[g].pc = "photos" => job[g].pc = "photos" /\ job'[g].got = job[g].got

LEMMA FeedStays ==
  ASSUME FeedShown, feed' = feed \/ \E d : feed' = StillShown(d)
  PROVE  FeedSame
<1>1. CASE feed' = feed
  BY <1>1 DEF FeedShown, FeedSame
<1>2. ASSUME NEW d, feed' = StillShown(d), feed.open PROVE FeedSame
  BY <1>2 DEF FeedShown, FeedSame, StillShown
<1>3. CASE ~feed.open
  BY <1>3 DEF FeedSame, StillShown
<1> QED
  BY <1>1, <1>2, <1>3

LEMMA AskStays ==
  ASSUME FeedSame, NEW g, AsksFeed(g), JobStays(g)
  PROVE  AsksFeed(g)'
BY DEF FeedSame, AsksFeed, JobStays, Got

LEMMA ShownStays ==
  ASSUME FeedSame, FeedShown, broken \subseteq broken'
  PROVE  FeedShown'
BY DEF FeedSame, FeedShown

LEMMA BrokenStays ==
  ASSUME TablesInv, JobsInv, NumbersInv, WaitInv, AddsInv, PostsInv, [Next]_vars
  PROVE  broken \subseteq broken'
<1>1. ASSUME NEW H, Eases(H) PROVE broken \subseteq broken'
  BY <1>1 DEF Eases, JobsEase
<1>2. ASSUME NEW h, PostStep(h) PROVE broken \subseteq broken'
  BY <1>2 DEF PostStep, AddBegins, AddCommits, DeleteBegins, DeleteCommits, AddPostUploads, AddPostEnds,
              DeletePostEnds, CallFiles, Commit
<1>3. ASSUME NEW h, NEW c, Answers(h, c) PROVE broken \subseteq broken'
  BY <1>3 DEF Answers, CallReturns
<1>4. ASSUME NEW c, PhotoRun(c) PROVE broken \subseteq broken'
  BY <1>4 DEF PhotoRun
<1> QED
  BY <1>1, <1>2, <1>3, <1>4, PhotoCases

\* A request that begins leaves the others alone.
LEMMA AskLeaves ==
  ASSUME JobsInv, NEW h \in Slots, NEW op, NEW arg, NEW pc, NEW todo, Ask(h, op, arg, pc, todo)
  PROVE  /\ job'[h].op = op /\ job'[h].pc = pc /\ feed' = feed
         /\ \A g \in Slots \ {h} : JobStays(g)
<1>1. /\ job'[h].op = op /\ job'[h].pc = pc /\ feed' = feed
      /\ \A g \in Slots \ {h} : job'[g] = IF Busy(g) THEN [job[g] EXCEPT !.alone = FALSE] ELSE Idle
  BY DEF Ask, Start, Request
<1>2. ASSUME NEW g \in Slots \ {h} PROVE JobStays(g)
  <2>1. CASE Busy(g)
    <3>1. job'[g] = [job[g] EXCEPT !.alone = FALSE] /\ DOMAIN job[g] = Fields
      BY <1>1, <2>1 DEF JobsInv, Fields
    <3>2. job'[g].op = job[g].op /\ job'[g].pc = job[g].pc /\ job'[g].got = job[g].got
      BY <3>1 DEF Fields
    <3> QED BY <2>1, <3>2 DEF JobStays
  <2>2. CASE ~Busy(g)
    BY <1>1, <2>2 DEF JobStays, Busy
  <2> QED BY <2>1, <2>2
<1> QED
  BY <1>1, <1>2

LEMMA FeedRequested ==
  ASSUME JobsInv, FeedInv, NEW h \in Slots,
         PostRequests(h) \/ FollowingRequests(h) \/ FeedRequests(h) \/ ListRequests(h),
         broken \subseteq broken'
  PROVE  FeedInv'
<1>1. FeedShown /\ \A g \in Slots : AsksFeed(g)
  BY DEF FeedInv
<1>2. ASSUME NEW op, NEW arg, NEW pc, NEW todo, Ask(h, op, arg, pc, todo),
             \/ op \notin {"page", "list"}
             \/ op = "page" /\ pc # "photos" /\ feed.open /\ feed.kind \in Kinds
             \/ op = "list" /\ feed.open /\ feed.kind \in ListKinds
      PROVE  FeedInv'
  <2>1. /\ job'[h].op = op /\ job'[h].pc = pc /\ feed' = feed
        /\ \A g \in Slots \ {h} : JobStays(g)
    BY <1>2, AskLeaves
  <2>2. FeedSame
    BY <1>1, <2>1, FeedStays
  <2>3. FeedShown'
    BY <1>1, <2>2, ShownStays
  <2>4. AsksFeed(h)'
    BY <1>2, <2>1 DEF AsksFeed
  <2>5. \A g \in Slots \ {h} : AsksFeed(g)'
    BY <1>1, <2>1, <2>2, AskStays
  <2> QED BY <2>3, <2>4, <2>5 DEF FeedInv
<1>3. ASSUME UNCHANGED job, ~feed.open, feed'.open = TRUE, {"open", "kind", "seen"} \subseteq DOMAIN feed',
             feed'.seen = <<>>
      PROVE  FeedInv'
  <2>1. \A g \in Slots : AsksFeed(g)'
    BY <1>1, <1>3 DEF AsksFeed, Busy
  <2>2. IsSeq(feed'.seen) /\ DOMAIN feed'.seen = {}
    BY <1>3, EmptySeq DEF IsSeq
  <2> QED BY <1>3, <2>1, <2>2 DEF FeedInv, FeedShown
<1>4. CASE PostRequests(h)
  BY <1>2, <1>4 DEF PostRequests
<1>5. CASE FollowingRequests(h)
  BY <1>2, <1>5 DEF FollowingRequests, FollowOps, AvatarOps
<1>6. CASE FeedRequests(h)
  <2>1. CASE PageRequest(h)
    BY <1>2, <2>1 DEF PageRequest
  <2>2. ASSUME NEW kind, NEW u, NEW sorting, OpenFeed(kind, u, sorting) PROVE FeedInv'
    BY <1>3, <2>2 DEF OpenFeed, handlerVars
  <2> QED BY <1>6, <2>1, <2>2 DEF FeedRequests
<1>7. CASE ListRequests(h)
  <2>1. CASE ListRequest(h)
    BY <1>2, <2>1 DEF ListRequest
  <2>2. ASSUME NEW kind, NEW u, NEW about, NEW dir, NEW size, OpenList(kind, u, about, dir, size)
        PROVE  FeedInv'
    BY <1>3, <2>2 DEF OpenList, handlerVars
  <2> QED BY <1>7, <2>1, <2>2 DEF ListRequests
<1> QED
  BY <1>4, <1>5, <1>6, <1>7

\* A page is a sequence: there are finitely many rows to choose from.
LEMMA RowsAreFinite ==
  ASSUME TablesInv, PostsInv, NEW f, NEW owners, NEW dates
  PROVE  IsFiniteSet(PageRows(f, owners, dates))
<1> DEFINE P == DOMAIN tables.post
           L == DOMAIN tables.like
           S == {tables.like[k].status : k \in L}
           T == S \cup {"none"}
           R == {[post |-> x[1], status |-> x[2]] : x \in P \X T}
<1>1. IsFiniteSet(P) /\ IsFiniteSet(L)
  <2>1. IsSeq(tables.post) /\ IsSeq(tables.like)
    BY DEF PostsInv, TablesInv, Likes, LikeOps
  <2>2. \A s : IsSeq(s) => \E n \in Nat : DOMAIN s = 1..n
    BY SeqDomain
  <2>3. \A n \in Nat : IsFiniteSet(1..n)
    BY FS_Interval
  <2> QED BY <2>1, <2>2, <2>3
<1>2. IsFiniteSet(T)
  <2> DEFINE g == [k \in L |-> tables.like[k].status]
  <2>1. g \in Surjection(L, S)
    BY DEF Surjection
  <2>2. IsFiniteSet(S)
    <3> HIDE DEF g, S, L
    <3> QED BY <1>1, <2>1, FS_Surjection
  <2> HIDE DEF S
  <2> QED BY <2>2, FS_AddElement
<1>3. IsFiniteSet(P \X T)
  <2> HIDE DEF P, T
  <2> QED BY <1>1, <1>2, FS_Product
<1>4. IsFiniteSet(R)
  <2> DEFINE g == [x \in P \X T |-> [post |-> x[1], status |-> x[2]]]
  <2>1. g \in Surjection(P \X T, R)
    <3> HIDE DEF P, T
    <3> QED BY DEF Surjection
  <2> HIDE DEF g, R, P, T
  <2> QED BY <1>3, <2>1, FS_Surjection
<1>5. ASSUME NEW r \in PageRows(f, owners, dates) PROVE r \in R
  <2>1. PICK p \in Visible(tables) : \E s \in StatusesOf(p) : r = [post |-> p, status |-> s]
    BY DEF PageRows
  <2>2. PICK s \in StatusesOf(p) : r = [post |-> p, status |-> s]
    BY <2>1
  <2>3. p \in P
    BY <2>1 DEF Visible, LiveRows
  <2>4. s \in T
    BY <2>2 DEF StatusesOf, LikesOf, LikesOn, LiveRows
  <2>5. <<p, s>> \in P \X T /\ <<p, s>>[1] = p /\ <<p, s>>[2] = s
    BY <2>3, <2>4
  <2> QED BY <2>2, <2>5
<1> QED
  <2> HIDE DEF R
  <2> QED BY <1>4, <1>5, FS_Subset

LEMMA PagesAreSequences ==
  ASSUME NEW R, IsFiniteSet(R), NEW f, NEW page \in Pages(R, f)
  PROVE  IsSeq(page)
<1>1. Cardinality(R) \in Nat
  BY FS_CardinalityType
<1>2. \E n \in Nat : page \in [1..n -> R]
  BY <1>1, PageSizeAssumption DEF Pages
<1>3. PICK n \in Nat : DOMAIN page = 1..n
  BY <1>2
<1> DEFINE V == {page[i] : i \in DOMAIN page}
<1>4. page \in [1..n -> V]
  BY <1>2, <1>3
<1>5. page \in Seq(V)
  <2> HIDE DEF V
  <2> QED BY <1>4, IsASeq
<1> QED
  BY <1>5 DEF IsSeq

LEMMA Concatenated ==
  ASSUME NEW s, IsSeq(s), NEW t, IsSeq(t)
  PROVE  /\ IsSeq(s \o t)
         /\ \A i \in DOMAIN (s \o t) : \/ i \in DOMAIN s /\ (s \o t)[i] = s[i]
                                       \/ \E j \in DOMAIN t : (s \o t)[i] = t[j]
<1> DEFINE S == {s[i] : i \in DOMAIN s}
           T == {t[i] : i \in DOMAIN t}
           V == S \cup T
           u == s \o t
<1>1. s \in Seq(V) /\ t \in Seq(V)
  BY SeqMonotonic DEF IsSeq
<1>2. Len(s) \in Nat /\ Len(t) \in Nat /\ DOMAIN s = 1..Len(s) /\ DOMAIN t = 1..Len(t)
  BY SeqDomain
<1>3. /\ u \in Seq(V) /\ Len(u) = Len(s) + Len(t)
      /\ \A i \in 1..Len(s) + Len(t) : u[i] = IF i <= Len(s) THEN s[i] ELSE t[i - Len(s)]
  <2> HIDE DEF V
  <2> QED BY <1>1, ConcatProperties
<1>4. DOMAIN u = 1..Len(s) + Len(t)
  <2> HIDE DEF V, u
  <2> QED BY <1>3, LenProperties
<1> HIDE DEF u
<1>5. ASSUME NEW i \in DOMAIN u
      PROVE  (i \in DOMAIN s /\ u[i] = s[i]) \/ \E j \in DOMAIN t : u[i] = t[j]
  <2>1. CASE i <= Len(s)
    BY <1>2, <1>3, <1>4, <2>1
  <2>2. CASE ~(i <= Len(s))
    <3>1. i - Len(s) \in DOMAIN t /\ u[i] = t[i - Len(s)]
      BY <1>2, <1>3, <1>4, <2>2
    <3> QED BY <3>1
  <2> QED BY <2>1, <2>2
<1>6. IsSeq(u)
  <2>1. DOMAIN u = 1..Len(u) /\ Len(u) \in Nat
    BY <1>2, <1>3, <1>4
  <2>2. u \in [1..Len(u) -> {u[i] : i \in DOMAIN u}]
    <3>1. u = [i \in 1..Len(u) |-> u[i]]
      <4> HIDE DEF V
      <4> QED BY <1>3, <2>1
    <3> QED BY <2>1, <3>1
  <2> DEFINE W == {u[i] : i \in DOMAIN u}
  <2>3. u \in Seq(W)
    <3> HIDE DEF W
    <3> QED BY <2>1, <2>2, IsASeq DEF W
  <2> QED BY <2>3 DEF IsSeq
<1> QED
  BY <1>5, <1>6 DEF u

\* A page of posts is read and then shown: its posts have all their photos, or
\* an addition or a deletion of them failed.
LEMMA PageRead ==
  ASSUME TablesInv, JobsInv, PostsInv, FeedInv, NEW h \in Slots, PageReads(h)
  PROVE  FeedInv'
<1>1. /\ FeedShown /\ (\A g \in Slots : AsksFeed(g))
      /\ Busy(h) /\ job[h].op = "page" /\ feed.open /\ feed.kind \in Kinds
  BY DEF FeedInv, PageReads, At, AsksFeed
<1>2. PICK page \in Pages(PageRows(feed, Got(h, "owners"), Got(h, "cursor")), feed) :
        Learn(h, "page", page, "photos")
  BY DEF PageReads
<1>3. IsSeq(page)
  BY <1>2, RowsAreFinite, PagesAreSequences
<1>4. /\ \A g \in Slots \ {h} : job'[g] = job[g]
      /\ job'[h].op = job[h].op /\ Got(h, "page")' = page
  <2>1. DOMAIN job = Slots /\ DOMAIN job[h] = Fields
    BY <1>1 DEF JobsInv, Fields
  <2>2. job'[h].op = job[h].op /\ job'[h].got = With(job[h].got, "page", page)
    BY <1>2, <2>1 DEF Learn, Fields
  <2> QED BY <1>2, <2>1, <2>2 DEF Learn, Got, With
<1>5. FeedSame
  <2>1. \E after, again : feed' = [feed EXCEPT !.after = after, !.restarted = again]
    BY DEF PageReads
  <2> QED BY <1>1, <2>1 DEF FeedSame, FeedShown
<1>6. FeedShown'
  BY <1>1, <1>5, ShownStays DEF PageReads
<1>7. \A g \in Slots \ {h} : AsksFeed(g)'
  BY <1>1, <1>4, <1>5, AskStays DEF JobStays, Busy
<1>8. AsksFeed(h)'
  <2>1. feed'.open /\ feed'.kind = feed.kind
    BY <1>1, <1>5 DEF FeedSame
  <2> QED BY <1>1, <1>3, <1>4, <2>1 DEF AsksFeed, Got
<1> QED
  BY <1>6, <1>7, <1>8 DEF FeedInv

LEMMA PageShown ==
  ASSUME JobsInv, PostsInv, FeedInv, NEW h \in Slots, PageEnds(h)
  PROVE  FeedInv'
<1>1. /\ FeedShown /\ (\A g \in Slots : AsksFeed(g))
      /\ Busy(h) /\ feed.open /\ feed.kind \in Kinds /\ IsSeq(Got(h, "page"))
  BY DEF FeedInv, PageEnds, At, AsksFeed
<1> DEFINE page == Got(h, "page")
           Full(p) == p \notin LiveRows(tables.post) \/ InDeletion(p)
                      \/ Cardinality(PhotosOf(p)) = tables.post[p].files
           new == [i \in DOMAIN page |-> [post |-> page[i].post, full |-> Full(page[i].post)]]
<1>2. /\ feed'.open = feed.open /\ feed'.kind = feed.kind /\ feed'.seen = feed.seen \o new
      /\ {"open", "kind", "seen"} \subseteq DOMAIN feed'
  <2>1. \E last, over : feed' = [feed EXCEPT !.seen = @ \o new, !.last = last, !.over = over]
    BY DEF PageEnds
  <2> HIDE DEF new
  <2> QED BY <1>1, <2>1 DEF FeedShown
<1>3. \A i \in DOMAIN new : new[i].full \/ new[i].post \in broken
  BY DEF PostsInv, InDeletion
<1>4. IsSeq(new)
  BY <1>1, SeqChanged
<1>5. /\ IsSeq(feed'.seen)
      /\ \A i \in DOMAIN feed'.seen : feed'.seen[i].full \/ feed'.seen[i].post \in broken
  <2> HIDE DEF new
  <2>1. /\ IsSeq(feed.seen)
        /\ \A i \in DOMAIN feed.seen : feed.seen[i].full \/ feed.seen[i].post \in broken
    BY <1>1 DEF FeedShown
  <2> QED BY <1>2, <1>3, <1>4, <2>1, Concatenated
<1>6. FeedShown'
  BY <1>1, <1>2, <1>5 DEF FeedShown, PageEnds
<1>7. \A g \in Slots : AsksFeed(g)'
  <2>1. job' = [job EXCEPT ![h] = Idle] /\ DOMAIN job = Slots
    BY DEF PageEnds, Reply, JobsInv
  <2>2. feed'.open = feed.open /\ feed'.kind = feed.kind
    BY <1>2
  <2> QED BY <1>1, <2>1, <2>2 DEF AsksFeed, Busy, Got
<1> QED
  BY <1>6, <1>7 DEF FeedInv

LEMMA ListShown ==
  ASSUME JobsInv, FeedInv, NEW h \in Slots, ShowPage(h)
  PROVE  FeedInv'
<1>1. /\ FeedShown /\ (\A g \in Slots : AsksFeed(g))
      /\ feed.open /\ feed.kind \in ListKinds /\ feed.kind \notin Kinds
  BY DEF FeedInv, ShowPage, At, AsksFeed, ListKinds, CommentKinds, CursorKinds, Kinds
<1>2. /\ feed'.open = feed.open /\ feed'.kind = feed.kind
      /\ {"open", "kind", "seen"} \subseteq DOMAIN feed'
  <2>1. PICK page :
          feed' = [feed EXCEPT !.page = @ + 1,
                               !.seen = @ \o [i \in DOMAIN page |-> page[i].entry],
                               !.last = IF page = <<>> THEN @ ELSE page[Len(page)].entry,
                               !.over = Len(page) < feed.size]
    BY DEF ShowPage
  <2> QED BY <1>1, <2>1 DEF FeedShown
<1>3. FeedShown'
  BY <1>1, <1>2 DEF FeedShown
<1>4. \A g \in Slots : AsksFeed(g)'
  <2>1. job' = [job EXCEPT ![h] = Idle] /\ DOMAIN job = Slots
    BY DEF ShowPage, Reply, JobsInv
  <2> QED BY <1>1, <1>2, <2>1 DEF AsksFeed, Busy, Got
<1> QED
  BY <1>3, <1>4 DEF FeedInv

LEMMA FeedNext ==
  ASSUME TablesInv, JobsInv, NumbersInv, FilesAsked, WaitInv, AddsInv, PostsInv, FeedInv, [Next]_vars
  PROVE  FeedInv'
<1>1. broken \subseteq broken'
  BY BrokenStays
<1>2. FeedShown /\ (\A g \in Slots : AsksFeed(g))
  BY DEF FeedInv
<1>3. ASSUME feed' = feed \/ (\E d : feed' = StillShown(d)), \A g \in Slots : JobStays(g)
      PROVE  FeedInv'
  BY <1>1, <1>2, <1>3, FeedStays, ShownStays, AskStays DEF FeedInv
<1>4. ASSUME NEW h \in Slots, \A g \in Slots \ {h} : job'[g] = job[g],
             \/ job'[h] = Idle
             \/ Busy(h) /\ job'[h].op = job[h].op /\ job'[h].pc # "photos"
      PROVE  \A g \in Slots : JobStays(g)
  BY <1>4 DEF JobStays, Busy
<1>5. ASSUME UNCHANGED job PROVE \A g \in Slots : JobStays(g)
  BY <1>5 DEF JobStays, Busy
<1>6. ASSUME NEW h \in Slots,
             PostRequests(h) \/ FollowingRequests(h) \/ FeedRequests(h) \/ ListRequests(h)
      PROVE  FeedInv'
  BY <1>1, <1>6, FeedRequested
<1>7. ASSUME NEW h \in Slots, PostSteps(h) \/ FollowingSteps(h) \/ FeedSteps(h) \/ ListSteps(h)
      PROVE  FeedInv'
  <2>1. CASE Quiet(h) /\ Busy(h)
    <3>1. \A g \in Slots : JobStays(g)
      BY <1>4, <2>1 DEF Quiet
    <3> QED BY <1>3, <2>1, <3>1 DEF Quiet
  <2>2. ASSUME Busy(h), NEW name, NEW value, NEW n \in Nat, NEW op, NEW about, NEW pc,
               CallFiles(h, name, value, n, op, about, pc)
        PROVE  FeedInv'
    <3>1. Called(n, op, about, pc) /\ Waits(h, name, value, n)
      BY <2>2, Sent
    <3>2. \A g \in Slots : JobStays(g)
      BY <1>4, <2>2, <3>1 DEF Waits
    <3> QED BY <1>3, <3>1, <3>2 DEF Called
  <2>3. CASE AddPostUploads(h)
    BY <2>2, <2>3 DEF AddPostUploads, At, FilesAsked
  <2>4. CASE DeleteBegins(h) \/ AvatarCalls(h)
    BY <2>2, <2>4 DEF DeleteBegins, AvatarCalls, At
  <2> QED BY <1>7, <2>1, <2>3, <2>4, HandlersMove, PageRead, PageShown, ListShown
<1>8. ASSUME NEW h \in Slots, NEW c \in calls, CallReturns(h, c) PROVE FeedInv'
  <2>1. DOMAIN job = Slots /\ DOMAIN job[h] = Fields /\ Busy(h) /\ job[h].pc = "calls"
    BY <1>8 DEF CallReturns, JobsInv, Fields
  <2>2. CASE Returned(h, c.no, "commit")
    <3>1. /\ \A g \in Slots \ {h} : job'[g] = job[g]
          /\ job'[h].op = job[h].op /\ job'[h].pc # "photos"
      BY <2>1, <2>2 DEF Returned, Fields
    <3>2. \A g \in Slots : JobStays(g)
      BY <1>4, <2>1, <3>1
    <3> QED BY <1>3, <1>8, <3>2 DEF CallReturns
  <2>3. CASE Reply(h, "Internal") \/ Abandon(h)
    <3>1. job' = [job EXCEPT ![h] = Idle]
      BY <2>3 DEF Reply, Abandon
    <3>2. \A g \in Slots : JobStays(g)
      BY <1>4, <2>1, <3>1
    <3> QED BY <1>3, <1>8, <3>2 DEF CallReturns
  <2> QED BY <1>8, <2>2, <2>3 DEF CallReturns
<1>9. ASSUME NEW h \in Slots, GatewayFails(h) PROVE FeedInv'
  <2>1. job' = [job EXCEPT ![h] = Idle] /\ feed' = feed /\ DOMAIN job = Slots
    BY <1>9 DEF GatewayFails, Fail, JobsInv
  <2>2. \A g \in Slots : JobStays(g)
    BY <1>4, <2>1
  <2> QED BY <1>3, <2>1, <2>2
<1>10. ASSUME (\E c \in calls : Unheard(c)) \/ FilesRun \/ FilesFail \/ Tick \/ UNCHANGED vars
       PROVE  FeedInv'
  <2>1. UNCHANGED <<job, feed>>
    BY <1>10 DEF Unheard, FilesRun, FilesFail, Tick, vars, handlerVars
  <2> QED BY <1>3, <1>5, <2>1
<1>11. ASSUME NEW u \in tables.user, Moderate(u) PROVE FeedInv'
  <2>1. UNCHANGED job /\ \E d : feed' = StillShown(d)
    BY <1>11 DEF Moderate
  <2> QED BY <1>3, <1>5, <2>1
<1>12. ASSUME GatewayRestarts PROVE FeedInv'
  <2>1. feed' = feed /\ \A g \in Slots : JobStays(g)
    BY <1>12 DEF GatewayRestarts, Restart, JobStays, Busy
  <2> QED BY <1>3, <2>1
<1> QED
  BY <1>6, <1>7, <1>8, <1>9, <1>10, <1>11, <1>12 DEF Next

(***************************************************************************)
(* Posts have their photos.                                                *)
(***************************************************************************)

LEMMA InitPictures == Init => PicturesInv
<1> SUFFICES ASSUME Init PROVE PicturesInv
  OBVIOUS
<1>1. scene.posts \in Nat
  BY ScenesAssumption DEF Init
<1>2. /\ calls = {} /\ unlink = {} /\ job = [h \in Slots |-> Idle] /\ feed = [open |-> FALSE]
      /\ photos = {[post |-> i, key |-> i] : i \in 1..scene.posts} /\ bucket = 1..scene.posts
  BY DEF Init, HandlersInit, NoFeed
<1>3. \A h \in Slots : ~Busy(h) /\ PostInWork(h) = {} /\ ~Adds(h) /\ ~Deletes(h)
  BY <1>2 DEF Busy, PostInWork, Adds, Deletes, At
<1>4. WaitInv /\ AddsInv /\ DeletesInv /\ PutsInv /\ FeedInv
  BY <1>2, <1>3 DEF WaitInv, AddsInv, DeletesInv, PutsInv, FeedInv, FeedShown, AsksFeed
<1>5. tables.post = [p \in 1..scene.posts |-> tables.post[p]]
  BY DEF Init
<1>6. \A p \in 1..scene.posts : tables.post[p].live /\ tables.post[p].files = 1
  BY DEF Init, PostRow
<1>7. IsSeq(tables.post)
  <2> DEFINE V == {tables.post[i] : i \in DOMAIN tables.post}
  <2>1. tables.post \in [1..scene.posts -> V]
    BY <1>5
  <2>2. tables.post \in Seq(V)
    <3> HIDE DEF V
    <3> QED BY <1>1, <2>1, IsASeq
  <2> QED BY <2>2 DEF IsSeq
<1>8. PhotosInv
  BY <1>2, <1>5, <1>6 DEF PhotosInv, IsRow, LiveRows
<1>9. ASSUME NEW p \in 1..scene.posts
      PROVE  Cardinality(PhotosOf(p)) = 1 /\ Kept(p) /\ DeletionsOf(p) = {}
  <2>1. PhotosOf(p) = {[post |-> p, key |-> p]}
    BY <1>2 DEF PhotosOf
  <2>2. Cardinality(PhotosOf(p)) = 1
    BY <2>1, FS_Singleton
  <2> QED BY <1>2, <2>1, <2>2 DEF Kept, DeletionsOf
<1>10. PostsInv
  BY <1>5, <1>6, <1>7, <1>9 DEF PostsInv, LiveRows
<1> QED
  BY <1>4, <1>8, <1>10 DEF PicturesInv

\* Posts, their photos, the files of these and the requests and calls at work on them fit
\* together, whatever of them overlaps, fails or is left behind.
THEOREM PhotosKept == Spec => []PicturesInv
<1>1. LikeInv /\ StoredInv /\ PicturesInv /\ [Next]_vars => PicturesInv'
  <2> SUFFICES ASSUME LikeInv, StoredInv, PicturesInv, [Next]_vars PROVE PicturesInv'
    OBVIOUS
  <2>1. TablesInv /\ JobsInv /\ StoreInv /\ NumbersInv /\ FaultsInv /\ FilesAsked
    BY DEF LikeInv, StoredInv, StoreInv
  <2>2. WaitInv /\ PostsAndPhotos /\ AddsInv /\ PostsInv /\ FeedInv
    BY DEF PicturesInv, PostsAndPhotos
  <2>3. WaitInv' /\ PostsAndPhotos' /\ FeedInv'
    BY <2>1, <2>2, WaitNext, PostsAndPhotosNext, FeedNext
  <2> QED BY <2>3 DEF PicturesInv, PostsAndPhotos
<1> QED BY <1>1, InitPictures, LikesKept, FilesKept, PTL DEF Spec

\* A post nothing is at work on has all its photos with their files, a photo has its post,
\* and a reader was shown posts with all their photos, unless an addition or a deletion of
\* that post failed.
THEOREM PostsHavePhotos == Spec => []PhotosFollowPosts
<1>1. PicturesInv => PhotosFollowPosts
  <2> SUFFICES ASSUME PicturesInv PROVE PhotosFollowPosts
    OBVIOUS
  <2>1. PostsInv /\ PhotosInv /\ FeedShown
    BY DEF PicturesInv, FeedInv
  <2>2. ASSUME NEW p \in LiveRows(tables.post) \ broken, ~InWork(p)
        PROVE  /\ Cardinality(PhotosOf(p)) = tables.post[p].files
               /\ KeysOf(p) \subseteq bucket \ unlink
    <3>1. Cardinality(PhotosOf(p)) = tables.post[p].files /\ Kept(p)
      BY <2>1, <2>2 DEF PostsInv, InWork
    <3> QED BY <3>1 DEF Kept, KeysOf
  <2>3. \A x \in photos : IsRow(tables.post, x.post) \/ InWork(x.post) \/ x.post \in broken
    BY <2>1 DEF PhotosInv, InWork
  <2>4. feed.open /\ feed.kind \in Kinds =>
          \A i \in DOMAIN feed.seen : feed.seen[i].full \/ feed.seen[i].post \in broken
    BY <2>1 DEF FeedShown
  <2> QED BY <2>2, <2>3, <2>4 DEF PhotosFollowPosts
<1> QED BY <1>1, PhotosKept, PTL

(***************************************************************************)
(* Errors: what a request that overlaps nothing has read is still so when  *)
(* it writes, and its calls meet nobody else's.                            *)
(***************************************************************************)

\* A comment has its post.
HaveRefs(d) == \A c \in LiveRows(d.comment) : IsRow(d.post, d.comment[c].post)

\* A thing and one's like of it, read together, are there.
LikeSound(j, thing, things, likes) ==
  /\ j.pc = "write" => j.todo = {}
  /\ thing \notin j.todo =>
       thing \in DOMAIN j.got /\ (j.got[thing] # 0 => IsRow(things, j.arg[thing]))
  /\ "like" \notin j.todo =>
       "like" \in DOMAIN j.got /\ (j.got["like"].id # 0 => IsRow(likes, j.got["like"].id))

Sound(j, d) ==
  /\ j.op = "updatePost" /\ j.pc = "write" => IsRow(d.post, j.arg.post)
  /\ j.op = "deletePost" /\ j.pc \in {"calls", "commit"} => IsRow(d.post, j.arg.post)
  /\ j.op = "likePost" => LikeSound(j, "post", d.post, d.like)
  /\ j.op = "likeComment" => LikeSound(j, "comment", d.comment, d.commentLike)
  /\ j.op \in {"comment", "answer"} /\ j.pc = "write" => IsRow(d.post, j.got["post"])
  /\ j.op = "answer" /\ j.pc = "write" => IsRow(d.comment, j.arg.comment)
  /\ j.op = "follow" /\ j.pc = "write" => <<j.arg.user, j.arg.other>> \notin d.follow
  /\ j.op = "unfollow" /\ j.pc = "write" => <<j.arg.user, j.arg.other>> \in d.follow
  /\ j.op = "deleteFollower" /\ j.pc = "write" => <<j.arg.other, j.arg.user>> \in d.follow

\* The calls there are are its own, and one about an avatar is the only one.
Lonely(j, requested, stored) ==
  \A c \in requested :
    /\ j.pc = "calls" /\ c.no \in j.todo /\ c.pc # "thrown"
    /\ c.op \in AvatarOps => \A d \in requested : d = c
    /\ c.op = "uploadAvatar" /\ c.pc \in {"put", "insert"} => \A a \in stored : a.owner # c.about

ErrorsInv ==
  /\ oops = {} /\ HaveRefs(tables)
  /\ \A h \in Slots : Busy(h) /\ job[h].alone => Sound(job[h], tables) /\ Lonely(job[h], calls, avatars)

\* A step of a handler that answers no error, and leaves what it needs to go on.
SafeStep(h) ==
  /\ oops' = oops /\ HaveRefs(tables')
  /\ Busy(h) /\ job' = [job EXCEPT ![h] = job'[h]]
  /\ job'[h] # Idle /\ job'[h].alone =>
       Sound(job'[h], tables') /\ Lonely(job'[h], calls', avatars')

LEMMA AnswerIsSafe ==
  ASSUME JobsInv, ErrorsInv, NEW h \in Slots, Busy(h), NEW endpoint,
         NEW result \in endpoint \ {"Internal"}, Answer(h, endpoint, result)
  PROVE  SafeStep(h)
<1>1. job' = [job EXCEPT ![h] = Idle] /\ job'[h] = Idle /\ tables' = tables
  BY DEF Answer, Reply, JobsInv
<1>2. oops' = oops
  BY DEF Answer, Reply, Switch
<1> QED BY <1>1, <1>2 DEF SafeStep, ErrorsInv

LEMMA CommitIsSafe ==
  ASSUME JobsInv, ErrorsInv, NEW h \in Slots, Busy(h), NEW endpoint, "Success" \in endpoint,
         NEW new, Commit(h, new, endpoint), new = Thrown => ~job[h].alone,
         new # Thrown => HaveRefs(new)
  PROVE  SafeStep(h)
<1>1. job' = [job EXCEPT ![h] = Idle] /\ job'[h] = Idle
  BY DEF Commit, Reply, JobsInv
<1>2. oops' = oops
  BY DEF Commit, Reply, Switch
<1>3. HaveRefs(tables')
  BY DEF Commit, ErrorsInv
<1> QED BY <1>1, <1>2, <1>3 DEF SafeStep

\* Nobody is called.
LEMMA NoCalls ==
  ASSUME ErrorsInv, NEW h \in Slots, Busy(h), job[h].alone, job[h].pc # "calls"
  PROVE  calls = {}
BY DEF ErrorsInv, Lonely

LEMMA ReadIsSafe ==
  ASSUME JobsInv, ErrorsInv, NEW h \in Slots, Busy(h), NEW name, NEW values, NEW pc,
         Read(h, name, values, pc), job[h].pc # "calls",
         \A v \in values : Learns(h, name, v, pc) /\ job[h].alone => Sound(job'[h], tables)
  PROVE  SafeStep(h)
<1>1. PICK v \in values : Learn(h, name, v, pc)
  BY DEF Read
<1>2. Learns(h, name, v, pc)
  BY <1>1, LearnLearns
<1>3. job[h].alone => Lonely(job'[h], calls', avatars')
  BY NoCalls DEF Read, filesVars, Lonely
<1>4. oops' = oops /\ tables' = tables
  BY <1>1 DEF Learn, Read
<1> QED BY <1>2, <1>3, <1>4 DEF SafeStep, ErrorsInv, Learns

LEMMA CallIsSafe ==
  ASSUME NumbersInv, JobsInv, ErrorsInv, NEW h \in Slots, Busy(h), job[h].pc # "calls", NEW name, NEW value,
         NEW n \in Nat, NEW op, NEW about, NEW pc,
         CallFiles(h, name, value, n, op, about, pc), HaveRefs(tables'),
         pc \notin {"thrown", "insert"}, op = "uploadAvatar" => pc # "put",
         op \in AvatarOps => n = 1,
         \A j : j.op = job[h].op /\ j.arg = job[h].arg /\ j.pc = "calls" /\ job[h].alone => Sound(j, tables')
  PROVE  SafeStep(h)
<1>1. DOMAIN job = Slots /\ DOMAIN job[h] = Fields
  BY DEF JobsInv, Fields
<1>2. /\ job' = [job EXCEPT ![h] = job'[h]]
      /\ job'[h].op = job[h].op /\ job'[h].arg = job[h].arg /\ job'[h].pc = "calls"
      /\ job'[h].todo = made + 1 .. made + n /\ job'[h].alone = job[h].alone /\ oops' = oops
  BY <1>1 DEF CallFiles, Expect, Fields
<1>3. ASSUME job[h].alone PROVE Lonely(job'[h], calls', avatars')
  <2>1. calls' = {Call(made + i, op, about, pc) : i \in 1..n}
    BY <1>3, NoCalls DEF CallFiles, Send
  <2>2. \A c \in calls' : c.op = op /\ c.pc = pc /\ c.no \in made + 1 .. made + n
    BY <2>1 DEF Call, NumbersInv
  <2>3. op \in AvatarOps => \A c, d \in calls' : c = d
    BY <2>1
  <2> QED BY <1>2, <2>2, <2>3 DEF Lonely
<1> QED BY <1>2, <1>3 DEF SafeStep

\* What is written leaves the comments their posts.
LEMMA RefsWritten ==
  ASSUME StateTyped, HaveRefs(tables)
  PROVE  /\ \A name \in {"like", "commentLike", "follow", "banned"} : \A value :
              HaveRefs([tables EXCEPT ![name] = value])
         /\ \A id \in DOMAIN tables.post : \A owner, created, files :
              HaveRefs([tables EXCEPT !.post[id] = PostRow(owner, created, files)])
         /\ \A p : \A date : IsRow(tables.post, p) => HaveRefs([tables EXCEPT !.post[p].updated = date])
         /\ \A p : HaveRefs(deletePost(tables, p)) \/ deletePost(tables, p) = Thrown
         /\ \A u, p, answers, time : IsRow(tables.post, p) =>
              HaveRefs([tables EXCEPT !.comment = Append(@, CommentRow(u, p, answers, time))])
         /\ HaveRefs([tables EXCEPT !.post = Append(@, Gone)])
<1>1. TableNames \subseteq DOMAIN tables
  BY DEF StateTyped
<1>2. \A name \in {"like", "commentLike", "follow", "banned"} : \A value :
        HaveRefs([tables EXCEPT ![name] = value])
  BY <1>1 DEF HaveRefs, TableNames
<1>3. ASSUME NEW posts, \A p \in LiveRows(tables.post) : IsRow(posts, p)
      PROVE  HaveRefs([tables EXCEPT !.post = posts])
  BY <1>1, <1>3 DEF HaveRefs, TableNames, IsRow
<1>4. ASSUME NEW id \in DOMAIN tables.post, NEW row, row.live
      PROVE  HaveRefs([tables EXCEPT !.post = [tables.post EXCEPT ![id] = row]])
  <2>1. \A p \in LiveRows(tables.post) : IsRow([tables.post EXCEPT ![id] = row], p)
    BY <1>4 DEF IsRow, LiveRows
  <2> QED BY <1>3, <2>1
<1>5. \A id \in DOMAIN tables.post : \A owner, created, files :
        HaveRefs([tables EXCEPT !.post[id] = PostRow(owner, created, files)])
  BY <1>4 DEF PostRow
<1>6. ASSUME NEW p, NEW date, IsRow(tables.post, p)
      PROVE  HaveRefs([tables EXCEPT !.post[p].updated = date])
  <2> DEFINE row == [tables.post[p] EXCEPT !.updated = date]
  <2>1. p \in DOMAIN tables.post /\ row.live
    BY <1>6 DEF IsRow, LiveRows
  <2> HIDE DEF row
  <2>2. HaveRefs([tables EXCEPT !.post = [tables.post EXCEPT ![p] = row]])
    BY <1>4, <2>1
  <2> QED BY <2>2 DEF row
<1>7. IsSeq(tables.post) /\ IsSeq(tables.comment)
  <2>1. \A S : \A s \in Seq(S) : IsSeq(s)
    <3> SUFFICES ASSUME NEW S, NEW s \in Seq(S) PROVE IsSeq(s)
      OBVIOUS
    <3> DEFINE R == {s[i] : i \in DOMAIN s}
    <3>1. DOMAIN s = 1..Len(s) /\ Len(s) \in Nat /\ s \in [1..Len(s) -> S]
      BY LenProperties
    <3>2. s \in [1..Len(s) -> R]
      BY <3>1
    <3> HIDE DEF R
    <3>3. s \in Seq(R)
      BY <3>1, <3>2, IsASeq
    <3> QED BY <3>3 DEF IsSeq, R
  <2> QED BY <2>1 DEF StateTyped, RowsTyped
<1>8. HaveRefs([tables EXCEPT !.post = Append(@, Gone)])
  <2>1. \A p \in LiveRows(tables.post) : IsRow(Append(tables.post, Gone), p)
    BY <1>7, SeqAppended DEF IsRow, LiveRows
  <2> QED BY <1>3, <2>1
<1>9. ASSUME NEW u, NEW p, NEW answers, NEW time, IsRow(tables.post, p)
      PROVE  HaveRefs([tables EXCEPT !.comment = Append(@, CommentRow(u, p, answers, time))])
  <2> DEFINE row == CommentRow(u, p, answers, time)  t == Append(tables.comment, row)
             d == [tables EXCEPT !.comment = t]
  <2>1. row.post = p
    BY DEF CommentRow
  <2> HIDE DEF row
  <2>2. \A c \in LiveRows(t) : t[c].post = p \/ (c \in LiveRows(tables.comment) /\ t[c] = tables.comment[c])
    BY <1>7, <2>1, SeqAppended DEF LiveRows
  <2> HIDE DEF t
  <2>3. d.comment = t /\ d.post = tables.post
    BY <1>1 DEF TableNames
  <2> HIDE DEF d
  <2>4. HaveRefs(d)
    BY <1>9, <2>2, <2>3 DEF HaveRefs
  <2> QED BY <2>4 DEF d, t, row
<1>10. ASSUME NEW p, deletePost(tables, p) # Thrown PROVE HaveRefs(deletePost(tables, p))
  <2> DEFINE gone == {c \in LiveRows(tables.comment) : tables.comment[c].post = p}
             d == [tables EXCEPT !.post[p] = Gone, !.comment = DeleteRows(@, gone),
                     !.like = DeleteRows(@, LikesOn(tables.like, p)),
                     !.commentLike = DeleteRows(@, UNION {LikesOn(tables.commentLike, c) : c \in gone})]
  <2>1. deletePost(tables, p) = d
    BY <1>10 DEF deletePost, Statement
  <2>2. d.post = [tables.post EXCEPT ![p] = Gone] /\ d.comment = DeleteRows(tables.comment, gone)
    BY <1>1 DEF TableNames
  <2> HIDE DEF d
  <2>3. \A c \in LiveRows(d.comment) : c \in LiveRows(tables.comment) /\ c \notin gone
                                       /\ d.comment[c] = tables.comment[c]
    BY <2>2 DEF LiveRows, DeleteRows, Gone
  <2>4. \A q \in LiveRows(tables.post) : q # p => IsRow(d.post, q)
    BY <2>2 DEF LiveRows, IsRow
  <2> QED BY <2>1, <2>3, <2>4 DEF HaveRefs, IsRow
<1> QED BY <1>2, <1>5, <1>6, <1>8, <1>9, <1>10

\* A request about a like learns a thing more.
LEMMA LikeStaysSound ==
  ASSUME NEW i, NEW j, NEW thing, thing # "like", NEW things, NEW likes, NEW name, NEW value, LikeSound(i, thing, things, likes),
         i.pc = "find", j.arg = i.arg, j.todo = i.todo \ {name}, j.pc = IF j.todo = {} THEN "write" ELSE i.pc,
         j.got[name] = value, DOMAIN j.got = DOMAIN i.got \cup {name},
         \A other \in DOMAIN i.got : other # name => j.got[other] = i.got[other],
         name = thing /\ value # 0 => IsRow(things, i.arg[thing]),
         name = "like" /\ value.id # 0 => IsRow(likes, value.id)
  PROVE  LikeSound(j, thing, things, likes)
<1>1. j.pc = "write" => j.todo = {}
  OBVIOUS
<1>2. thing \notin j.todo => thing \in DOMAIN j.got /\ (j.got[thing] # 0 => IsRow(things, j.arg[thing]))
  BY DEF LikeSound
<1>3. "like" \notin j.todo =>
        "like" \in DOMAIN j.got /\ (j.got["like"].id # 0 => IsRow(likes, j.got["like"].id))
  BY DEF LikeSound
<1> QED BY <1>1, <1>2, <1>3 DEF LikeSound

LEMMA PostStepsSafe ==
  ASSUME StateTyped, JobsInv, NumbersInv, ErrorsInv, NEW h \in Slots, PostSteps(h)
  PROVE  SafeStep(h)
<1> USE DEF At
<1>1. Busy(h) /\ HaveRefs(tables) /\ TableNames \subseteq DOMAIN tables
  BY DEF PostSteps, AddPostFinds, AddPostUploads, AddPostEnds, UpdatePostFinds, UpdatePostEnds,
     DeletePostFinds, DeletePostEnds, LikeReads, LikePostEnds, LikeCommentEnds, CommentReads,
     CommentEnds, AnswerEnds, ErrorsInv, StateTyped
<1>2. JobTyped(job[h], tables, now) /\ (job[h].alone => Sound(job[h], tables))
  BY <1>1 DEF StateTyped, ErrorsInv
<1>3. MineOrAnswer(h) \in {"Mine", "NotFound", "Forbidden"}
      /\ (MineOrAnswer(h) = "Mine" => IsRow(tables.post, Arg(h).post))
  BY DEF MineOrAnswer, getPostById, Visible, IsRow
<1>4. CASE AddPostFinds(h)
  <2>1. CASE Answer(h, addPostResults, "NotFound")
    BY <1>1, <2>1, AnswerIsSafe DEF addPostResults
  <2>2. CASE Read(h, "user", {Arg(h).user}, "create")
    <3>1. \A v \in {Arg(h).user} : Learns(h, "user", v, "create") => Sound(job'[h], tables)
      BY <1>4 DEF Learns, Sound, AddPostFinds
    <3> QED BY <1>1, <1>4, <2>2, <3>1, ReadIsSafe DEF AddPostFinds
  <2> QED BY <1>4, <2>1, <2>2 DEF AddPostFinds
<1>5. CASE AddPostUploads(h)
  <2> DEFINE id == Len(tables.post) + 1  post == [id |-> id, created |-> now]
  <2>1. /\ CallFiles(h, "post", post, Arg(h).files, "uploadPostPhoto", id, "put")
        /\ tables' = [tables EXCEPT !.post = Append(@, Gone)] /\ job[h].op = "addPost" /\ job[h].pc = "create"
    BY <1>5 DEF AddPostUploads
  <2>2. HaveRefs(tables') /\ Arg(h).files \in Nat
    BY <1>1, <1>2, <2>1, RefsWritten, SocialBounds DEF JobTyped, AskTyped, Arg
  <2>3. \A j : j.op = "addPost" => Sound(j, tables')
    BY DEF Sound
  <2>4. "uploadPostPhoto" \notin AvatarOps
    BY DEF AvatarOps
  <2> DEFINE n == Arg(h).files
  <2>5. n \in Nat /\ CallFiles(h, "post", post, n, "uploadPostPhoto", id, "put")
    BY <2>1, <2>2
  <2>6. \A j : j.op = job[h].op /\ j.arg = job[h].arg /\ j.pc = "calls" /\ job[h].alone => Sound(j, tables')
    BY <2>1, <2>3
  <2> HIDE DEF id, post, n
  <2> QED BY <1>1, <2>1, <2>2, <2>4, <2>5, <2>6, CallIsSafe
<1>6. CASE AddPostEnds(h)
  <2> DEFINE new == addPost(tables, Got(h, "post").id, Arg(h).user, Got(h, "post").created, Arg(h).files)
  <2>1. Got(h, "post").id \in DOMAIN tables.post /\ Arg(h).user \in tables.user
    BY <1>2, <1>6 DEF JobTyped, LearntTyped, Arg, Got, AddPostEnds
  <2>2. tables # Thrown
    BY <1>1 DEF Thrown, TableNames
  <2>3. new # Thrown /\ HaveRefs(new)
    <3> DEFINE d == [tables EXCEPT !.post[Got(h, "post").id]
                       = PostRow(Arg(h).user, Got(h, "post").created, Arg(h).files)]
    <3>1. new = d
      BY <2>1, <2>2 DEF addPost, Statement
    <3>2. HaveRefs(d)
      BY <1>1, <2>1, RefsWritten
    <3>3. d # Thrown
      BY <1>1 DEF Thrown, TableNames
    <3> QED BY <3>1, <3>2, <3>3
  <2> HIDE DEF new
  <2>4. Commit(h, new, addPostResults)
    BY <1>6 DEF AddPostEnds, new
  <2> QED BY <1>1, <2>3, <2>4, CommitIsSafe DEF addPostResults
<1>7. CASE UpdatePostFinds(h)
  <2>1. CASE MineOrAnswer(h) # "Mine"
    BY <1>1, <1>3, <1>7, <2>1, AnswerIsSafe DEF UpdatePostFinds, updatePostResults
  <2>2. CASE MineOrAnswer(h) = "Mine"
    <3>1. Read(h, "date", {now}, "write") /\ job[h].op = "updatePost" /\ job[h].pc = "find"
      BY <1>7, <2>2 DEF UpdatePostFinds
    <3>2. \A v \in {now} : Learns(h, "date", v, "write") => Sound(job'[h], tables)
      BY <1>3, <2>2, <3>1 DEF Learns, Sound, Arg
    <3> QED BY <1>1, <3>1, <3>2, ReadIsSafe
  <2> QED BY <2>1, <2>2
<1>8. CASE UpdatePostEnds(h)
  <2> DEFINE new == updatePost(tables, Arg(h).post, Got(h, "date"))
  <2>1. job[h].alone => IsRow(tables.post, Arg(h).post)
    BY <1>2, <1>8 DEF Sound, UpdatePostEnds, Arg
  <2>2. tables # Thrown /\ \A d : DOMAIN d = DOMAIN tables => d # Thrown
    BY <1>1 DEF Thrown, TableNames
  <2>3. (new # Thrown => HaveRefs(new)) /\ (job[h].alone => new # Thrown)
    BY <1>1, <2>1, <2>2, RefsWritten DEF updatePost, Statement
  <2> HIDE DEF new
  <2>4. Commit(h, new, updatePostResults)
    BY <1>8 DEF UpdatePostEnds, new
  <2> QED BY <1>1, <2>3, <2>4, CommitIsSafe DEF updatePostResults
<1>9. CASE DeletePostFinds(h)
  <2>1. CASE MineOrAnswer(h) # "Mine"
    BY <1>1, <1>3, <1>9, <2>1, AnswerIsSafe DEF DeletePostFinds, deletePostResults
  <2>2. CASE MineOrAnswer(h) = "Mine"
    <3>1. /\ CallFiles(h, "post", Arg(h).post, 1, "deletePostPhotos", Arg(h).post, "find")
          /\ tables' = tables /\ job[h].op = "deletePost" /\ job[h].pc = "find"
      BY <1>9, <2>2 DEF DeletePostFinds
    <3>2. \A j : j.op = "deletePost" /\ j.arg = job[h].arg => Sound(j, tables')
      BY <1>3, <2>2, <3>1 DEF Sound, Arg
    <3> QED BY <1>1, <3>1, <3>2, CallIsSafe DEF AvatarOps
  <2> QED BY <2>1, <2>2
<1>10. CASE DeletePostEnds(h)
  <2> DEFINE new == deletePost(tables, Arg(h).post)
  <2>1. job[h].alone => IsRow(tables.post, Arg(h).post)
    BY <1>2, <1>10 DEF Sound, DeletePostEnds, Arg
  <2>2. tables # Thrown /\ \A d : DOMAIN d = DOMAIN tables => d # Thrown
    BY <1>1 DEF Thrown, TableNames
  <2>3. (new # Thrown => HaveRefs(new)) /\ (job[h].alone => new # Thrown)
    BY <1>1, <2>1, <2>2, RefsWritten DEF deletePost, Statement
  <2> HIDE DEF new
  <2>4. Commit(h, new, deletePostResults)
    BY <1>10 DEF DeletePostEnds, new
  <2> QED BY <1>1, <2>3, <2>4, CommitIsSafe DEF deletePostResults
<1>11. CASE CommentReads(h)
  <2>1. CASE /\ job[h].op = "comment" /\ job[h].pc = "find"
             /\ LET p == getPostById(tables, Arg(h).post) IN
                  IF p = 0 THEN Answer(h, createCommentResults, "NotFound") ELSE Read(h, "post", {p}, "write")
    <3> DEFINE p == getPostById(tables, Arg(h).post)
    <3>1. p # 0 => IsRow(tables.post, p)
      BY DEF getPostById, Visible, IsRow
    <3>2. \/ p = 0 /\ Answer(h, createCommentResults, "NotFound")
          \/ p # 0 /\ Read(h, "post", {p}, "write")
      BY <2>1
    <3> HIDE DEF p
    <3>3. p # 0 => \A v \in {p} : Learns(h, "post", v, "write") => Sound(job'[h], tables)
      BY <2>1, <3>1 DEF Learns, Sound
    <3> QED BY <1>1, <2>1, <3>2, <3>3, AnswerIsSafe, ReadIsSafe DEF createCommentResults
  <2>2. CASE /\ job[h].op = "answer" /\ job[h].pc = "find"
             /\ LET c == getCommentById(tables, Arg(h).comment) IN
                  IF c = 0 THEN Answer(h, answerForCommentResults, "NotFound")
                  ELSE Read(h, "post", {tables.comment[c].post}, "write")
    <3> DEFINE c == getCommentById(tables, Arg(h).comment)  p == tables.comment[c].post
    <3>1. c # 0 => IsRow(tables.comment, Arg(h).comment) /\ c = Arg(h).comment
      BY DEF getCommentById
    <3>2. c # 0 => IsRow(tables.post, p)
      BY <1>1, <3>1 DEF HaveRefs, IsRow
    <3>3. \/ c = 0 /\ Answer(h, answerForCommentResults, "NotFound")
          \/ c # 0 /\ Read(h, "post", {p}, "write")
      BY <2>2
    <3> HIDE DEF c, p
    <3>4. c # 0 => \A v \in {p} : Learns(h, "post", v, "write") => Sound(job'[h], tables)
      BY <2>2, <3>1, <3>2 DEF Learns, Sound, Arg
    <3> QED BY <1>1, <2>2, <3>3, <3>4, AnswerIsSafe, ReadIsSafe DEF answerForCommentResults
  <2> QED BY <1>11, <2>1, <2>2 DEF CommentReads
<1>12. CASE CommentEnds(h) \/ AnswerEnds(h)
  <2> DEFINE answers == IF job[h].op = "comment" THEN 0 ELSE Arg(h).comment
             new == addComment(tables, Got(h, "post"), Arg(h).user, answers, now)
  <2>1. job[h].alone => /\ IsRow(tables.post, Got(h, "post"))
                        /\ answers = 0 \/ IsRow(tables.comment, answers)
    BY <1>2, <1>12 DEF Sound, CommentEnds, AnswerEnds, Arg, Got
  <2>2. /\ job[h].op = "comment" => Commit(h, new, createCommentResults)
        /\ job[h].op = "answer" => Commit(h, new, answerForCommentResults)
        /\ job[h].op \in {"comment", "answer"}
    BY <1>12 DEF CommentEnds, AnswerEnds
  <2>3. tables # Thrown /\ \A d : DOMAIN d = DOMAIN tables => d # Thrown
    BY <1>1 DEF Thrown, TableNames
  <2> HIDE DEF answers
  <2>4. (new # Thrown => HaveRefs(new)) /\ (job[h].alone => new # Thrown)
    BY <1>1, <2>1, <2>3, RefsWritten DEF addComment, Statement
  <2> HIDE DEF new
  <2> QED BY <1>1, <2>2, <2>4, CommitIsSafe DEF createCommentResults, answerForCommentResults
<1>13. CASE LikeReads(h)
  <2>1. ASSUME NEW name, NEW values, Read(h, name, values, "write"), job[h].pc = "find",
               NEW thing \in {"post", "comment"}, NEW things, NEW likes,
               \A j : j.op = job[h].op => (Sound(j, tables) <=> LikeSound(j, thing, things, likes)),
               name = thing => \A v \in values : v # 0 => IsRow(things, Arg(h)[thing]),
               name = "like" => \A v \in values : v.id # 0 => IsRow(likes, v.id)
        PROVE  SafeStep(h)
    <3>1. ASSUME NEW v \in values, Learns(h, name, v, "write"), job[h].alone PROVE Sound(job'[h], tables)
      <4>1. LikeSound(job[h], thing, things, likes)
        BY <1>2, <2>1, <3>1
      <4>2. LikeSound(job'[h], thing, things, likes)
        BY <2>1, <3>1, <4>1, LikeStaysSound DEF Learns, Arg
      <4> QED BY <2>1, <3>1, <4>2 DEF Learns
    <3> QED BY <1>1, <2>1, <3>1, ReadIsSafe
  <2>2. ASSUME NEW likes, NEW i, NEW u, NEW v \in LikeRead(likes, FindFirst(LikesOf(likes, i, u))), v.id # 0
        PROVE  IsRow(likes, v.id)
    BY <2>2 DEF LikeRead, FindFirst, LikesOf, LikesOn, IsRow
  <2>3. CASE job[h].op = "likePost"
    <3>1. \A j : j.op = job[h].op => (Sound(j, tables) <=> LikeSound(j, "post", tables.post, tables.like))
      BY <2>3 DEF Sound
    <3>2. \A v \in {getPostById(tables, Arg(h).post)} : v # 0 => IsRow(tables.post, Arg(h)["post"])
      BY DEF getPostById, Visible, IsRow
    <3>3. CASE Read(h, "post", {getPostById(tables, Arg(h).post)}, "write") /\ job[h].pc = "find"
      BY <2>1, <3>1, <3>2, <3>3
    <3>4. CASE job[h].pc = "find" /\
                Read(h, "like", LikeRead(tables.like,
                       getLikeByPostIdAndUserId(tables, Arg(h).post, Arg(h).user)), "write")
      <4>1. \A v \in LikeRead(tables.like, getLikeByPostIdAndUserId(tables, Arg(h).post, Arg(h).user)) :
              v.id # 0 => IsRow(tables.like, v.id)
        BY <2>2 DEF getLikeByPostIdAndUserId
      <4> QED BY <2>1, <3>1, <3>4, <4>1
    <3> QED BY <1>13, <2>3, <3>3, <3>4 DEF LikeReads
  <2>4. CASE job[h].op = "likeComment"
    <3>1. \A j : j.op = job[h].op =>
            (Sound(j, tables) <=> LikeSound(j, "comment", tables.comment, tables.commentLike))
      BY <2>4 DEF Sound
    <3>2. \A v \in {getCommentById(tables, Arg(h).comment)} : v # 0 => IsRow(tables.comment, Arg(h)["comment"])
      BY DEF getCommentById
    <3>3. CASE Read(h, "comment", {getCommentById(tables, Arg(h).comment)}, "write") /\ job[h].pc = "find"
      BY <2>1, <3>1, <3>2, <3>3
    <3>4. CASE job[h].pc = "find" /\
                Read(h, "like", LikeRead(tables.commentLike,
                       getLikeByCommentIdAndUserId(tables, Arg(h).comment, Arg(h).user)), "write")
      <4>1. \A v \in LikeRead(tables.commentLike,
                       getLikeByCommentIdAndUserId(tables, Arg(h).comment, Arg(h).user)) :
              v.id # 0 => IsRow(tables.commentLike, v.id)
        BY <2>2 DEF getLikeByCommentIdAndUserId
      <4> QED BY <2>1, <3>1, <3>4, <4>1
    <3> QED BY <1>13, <2>4, <3>3, <3>4 DEF LikeReads
  <2> QED BY <1>13, <2>3, <2>4 DEF LikeReads
<1>14. CASE LikePostEnds(h)
  <2>1. CASE Got(h, "post") = 0
    BY <1>1, <1>14, <2>1, AnswerIsSafe DEF LikePostEnds, likePostResults
  <2>2. CASE Got(h, "post") # 0
    <3> DEFINE like == Got(h, "like")
    <3>1. job[h].op = "likePost" /\ job[h].pc = "write" /\ Commit(h, NewOrToggled(h), likePostResults)
      BY <1>14, <2>2 DEF LikePostEnds
    <3>2. job[h].alone => IsRow(tables.post, Arg(h).post) /\ (like.id # 0 => IsRow(tables.like, like.id))
      BY <1>2, <2>2, <3>1 DEF Sound, LikeSound, Arg, Got
    <3>3. tables # Thrown /\ \A value : [tables EXCEPT !.like = value] # Thrown
      BY <1>1 DEF Thrown, TableNames
    <3>4. \A value : HaveRefs([tables EXCEPT !.like = value])
      BY <1>1, RefsWritten
    <3>5. \E value : NewOrToggled(h) = Thrown \/ NewOrToggled(h) = [tables EXCEPT !.like = value]
      BY <3>3 DEF NewOrToggled, addLike, updateLike, Statement
    <3>6. job[h].alone => NewOrToggled(h) # Thrown
      BY <3>2, <3>3 DEF NewOrToggled, addLike, updateLike, Statement
    <3> QED BY <1>1, <3>1, <3>4, <3>5, <3>6, CommitIsSafe DEF likePostResults
  <2> QED BY <2>1, <2>2
<1>15. CASE LikeCommentEnds(h)
  <2> DEFINE like == Got(h, "like")  status == Arg(h).status
             added == addCommentLike(tables, Arg(h).comment, Arg(h).user, status, job[h].alone)
             updated == updateCommentLike(tables, like.id, status)
  <2>1. job[h].op = "likeComment" /\ job[h].pc = "write"
    BY <1>15 DEF LikeCommentEnds
  <2>2. job[h].alone /\ Got(h, "comment") # 0 =>
          IsRow(tables.comment, Arg(h).comment) /\ (like.id # 0 => IsRow(tables.commentLike, like.id))
    BY <1>2, <2>1 DEF Sound, LikeSound, Arg, Got
  <2>3. tables # Thrown /\ \A value : [tables EXCEPT !.commentLike = value] # Thrown
    BY <1>1 DEF Thrown, TableNames
  <2>4. \A value : HaveRefs([tables EXCEPT !.commentLike = value])
    BY <1>1, RefsWritten
  <2>5. \A new \in {added, updated} : new # Thrown => HaveRefs(new)
    BY <2>3, <2>4 DEF addCommentLike, updateCommentLike, Statement
  <2>6. /\ job[h].alone /\ Got(h, "comment") # 0 => added # Thrown
        /\ job[h].alone /\ Got(h, "comment") # 0 /\ like.id # 0 => updated # Thrown
    BY <2>2, <2>3 DEF addCommentLike, updateCommentLike, Statement
  <2>7. \/ \E result \in {"Success", "NotFound"} : Answer(h, likeCommentResults, result)
        \/ Got(h, "comment") # 0 /\ Commit(h, added, likeCommentResults)
        \/ Got(h, "comment") # 0 /\ like.id # 0 /\ Commit(h, updated, likeCommentResults)
    BY <1>15 DEF LikeCommentEnds
  <2> HIDE DEF like, status, added, updated
  <2> QED BY <1>1, <2>5, <2>6, <2>7, AnswerIsSafe, CommitIsSafe DEF likeCommentResults
<1> QED BY <1>4, <1>5, <1>6, <1>7, <1>8, <1>9, <1>10, <1>11, <1>12, <1>13, <1>14, <1>15 DEF PostSteps

LEMMA FollowingStepsSafe ==
  ASSUME StateTyped, JobsInv, NumbersInv, ErrorsInv, NEW h \in Slots, FollowingSteps(h)
  PROVE  SafeStep(h)
<1> USE DEF At
<1>1. Busy(h) /\ HaveRefs(tables) /\ (job[h].alone => Sound(job[h], tables))
  BY DEF FollowingSteps, FollowFinds, FollowChecks, FollowEnds, UnfollowEnds, AvatarFinds, AvatarEnds, ErrorsInv
<1>2. /\ \A op \in FollowOps : {"Success", "NotFound", "BadRequest"} \subseteq FollowResults(op) \ {"Internal"}
      /\ \A op \in AvatarOps : {"Success", "NotFound"} \subseteq AvatarResults(op) \ {"Internal"}
  BY DEF FollowOps, FollowResults, followToUserResults, unfollowToUserResults, deleteFollowerResults,
         AvatarOps, AvatarResults, uploadAvatarResults, deleteAvatarResults
<1>3. ASSUME NEW result \in {"Success", "NotFound", "BadRequest"}, job[h].op \in FollowOps,
             Answer(h, FollowResults(job[h].op), result)
      PROVE  SafeStep(h)
  BY <1>1, <1>2, <1>3, AnswerIsSafe
<1>4. CASE FollowFinds(h)
  <2>1. CASE Arg(h).user # Arg(h).other /\ getUserById(tables, Arg(h).other)
    <3>1. Read(h, "other", {Arg(h).other}, "check") /\ job[h].op \in FollowOps /\ job[h].pc = "find"
      BY <1>4, <2>1 DEF FollowFinds
    <3>2. \A v \in {Arg(h).other} : Learns(h, "other", v, "check") => Sound(job'[h], tables)
      BY <3>1 DEF Learns, Sound, FollowOps
    <3> QED BY <1>1, <3>1, <3>2, ReadIsSafe
  <2>2. CASE ~(Arg(h).user # Arg(h).other /\ getUserById(tables, Arg(h).other))
    BY <1>3, <1>4, <2>2 DEF FollowFinds
  <2> QED BY <2>1, <2>2
<1>5. CASE FollowChecks(h)
  <2>1. CASE (Pair(h) \in tables.follow) = (job[h].op = "follow")
    BY <1>3, <1>5, <2>1 DEF FollowChecks
  <2>2. CASE (Pair(h) \in tables.follow) # (job[h].op = "follow")
    <3>1. Read(h, "pair", {Pair(h)}, "write") /\ job[h].op \in FollowOps /\ job[h].pc = "check"
      BY <1>5, <2>2 DEF FollowChecks
    <3>2. \A v \in {Pair(h)} : Learns(h, "pair", v, "write") => Sound(job'[h], tables)
      BY <2>2, <3>1 DEF Learns, Sound, FollowOps, Pair, Arg
    <3> QED BY <1>1, <3>1, <3>2, ReadIsSafe
  <2> QED BY <2>1, <2>2
<1>6. CASE FollowEnds(h) \/ UnfollowEnds(h)
  <2> DEFINE new == IF job[h].op = "follow" THEN createFollow(tables, Pair(h)) ELSE deleteFollow(tables, Pair(h))
  <2>1. /\ job[h].op \in FollowOps /\ job[h].pc = "write"
        /\ Commit(h, new, FollowResults(job[h].op))
    BY <1>6 DEF FollowEnds, UnfollowEnds, FollowOps, FollowResults
  <2>2. job[h].alone => (Pair(h) \in tables.follow <=> job[h].op # "follow")
    BY <1>1, <2>1 DEF Sound, FollowOps, Pair, Arg
  <2>3. TableNames \subseteq DOMAIN tables
    BY DEF StateTyped
  <2>4. tables # Thrown /\ \A value : [tables EXCEPT !.follow = value] # Thrown
    BY <2>3 DEF Thrown, TableNames
  <2>5. job[h].alone => new # Thrown
    BY <2>2, <2>4 DEF createFollow, deleteFollow, Statement
  <2>6. \A value : HaveRefs([tables EXCEPT !.follow = value])
    BY <1>1, RefsWritten
  <2>7. new # Thrown => HaveRefs(new)
    BY <2>4, <2>6 DEF createFollow, deleteFollow, Statement
  <2> HIDE DEF new
  <2> QED BY <1>1, <1>2, <2>1, <2>5, <2>7, CommitIsSafe
<1>7. CASE AvatarFinds(h)
  <2>1. CASE ~getUserById(tables, Arg(h).user)
    BY <1>1, <1>2, <1>7, <2>1, AnswerIsSafe DEF AvatarFinds
  <2>2. CASE getUserById(tables, Arg(h).user)
    <3>1. /\ CallFiles(h, "user", Arg(h).user, 1, job[h].op, Arg(h).user, "find")
          /\ tables' = tables /\ job[h].op \in AvatarOps /\ job[h].pc = "find"
      BY <1>7, <2>2 DEF AvatarFinds
    <3>2. \A j : j.op \in AvatarOps => Sound(j, tables')
      BY DEF Sound, AvatarOps
    <3> QED BY <1>1, <3>1, <3>2, CallIsSafe
  <2> QED BY <2>1, <2>2
<1>8. CASE AvatarEnds(h)
  BY <1>1, <1>2, <1>8, AnswerIsSafe DEF AvatarEnds
<1> QED BY <1>4, <1>5, <1>6, <1>7, <1>8 DEF FollowingSteps

LEMMA ReadingStepsSafe ==
  ASSUME JobsInv, FeedInv, ErrorsInv, NEW h \in Slots, FeedSteps(h) \/ ListSteps(h)
  PROVE  SafeStep(h)
<1> USE DEF At
<1>1. HaveRefs(tables)
  BY DEF ErrorsInv
<1>2. \A j : j.op \in {"page", "list"} => Sound(j, tables)
  BY DEF Sound
<1>3. /\ \A kind \in Kinds : "Success" \in FeedResults(kind)
      /\ \A kind \in ListKinds : "Success" \in ListResults(kind)
      /\ \A kind \in CommentKinds : "NotFound" \in ListResults(kind) \ {"Internal"}
  BY DEF Kinds, ListKinds, CommentKinds, CursorKinds, FeedResults, ListResults,
         getPublicPostsResults, getPostsByUserResults, getFollowingsPostsResults,
         getCommentsForPostResults, getCommentAnswersForCommentResults, adminCommentsForPostResults,
         adminAnswersForCommentResults, adminPostsResults, getFollowersResults, getFollowingResults,
         adminFollowersResults, adminFollowingResults, searchUsersResults, adminUsersResults
<1>4. ASSUME Busy(h), job[h].op \in {"page", "list"}, job[h].pc # "calls", NEW name, NEW values, NEW pc,
             Read(h, name, values, pc)
      PROVE  SafeStep(h)
  <2>1. \A v \in values : Learns(h, name, v, pc) => Sound(job'[h], tables)
    BY <1>2, <1>4 DEF Learns
  <2> QED BY <1>4, <2>1, ReadIsSafe
<1>5. ASSUME Busy(h), NEW answer, answer # "Internal", Reply(h, answer), tables' = tables PROVE SafeStep(h)
  BY <1>1, <1>5 DEF Reply, JobsInv, SafeStep, ErrorsInv
<1>6. CASE PageFollowees(h) \/ PageCursor(h)
  BY <1>4, <1>6 DEF PageFollowees, PageCursor
<1>7. CASE PageReads(h)
  <2>1. PICK page : Learn(h, "page", page, "photos")
    BY <1>7 DEF PageReads
  <2>2. Busy(h) /\ job[h].op = "page" /\ job[h].pc = "rows" /\ UNCHANGED <<tables, filesVars>>
    BY <1>7 DEF PageReads
  <2>3. Learns(h, "page", page, "photos")
    BY <2>1, <2>2, LearnLearns
  <2>4. Sound(job'[h], tables)
    BY <1>2, <2>2, <2>3 DEF Learns
  <2>5. job[h].alone => Lonely(job'[h], calls', avatars')
    BY <2>2, NoCalls DEF filesVars, Lonely
  <2> QED BY <1>1, <2>1, <2>2, <2>3, <2>4, <2>5 DEF Learn, Learns, SafeStep, ErrorsInv
<1>8. CASE PageEnds(h)
  <2>1. Busy(h) /\ job[h].op = "page" /\ tables' = tables /\ Reply(h, Switch(FeedResults(feed.kind), "Success"))
    BY <1>8 DEF PageEnds
  <2>2. feed.kind \in Kinds
    BY <2>1 DEF FeedInv, AsksFeed
  <2>3. Switch(FeedResults(feed.kind), "Success") = "Success"
    BY <1>3, <2>2 DEF Switch
  <2> QED BY <1>5, <2>1, <2>3
<1>9. CASE CommentsFind(h) \/ AnswersFind(h)
  <2>1. feed.kind \in CommentKinds /\ Busy(h) /\ job[h].op = "list" /\ job[h].pc = "find"
        /\ \E found : FindOrAnswer(h, found)
    BY <1>9 DEF CommentsFind, AnswersFind, CommentKinds
  <2>2. CASE Answer(h, ListResults(feed.kind), "NotFound")
    BY <1>3, <2>1, <2>2, AnswerIsSafe
  <2> QED BY <1>4, <2>1, <2>2 DEF FindOrAnswer
<1>10. CASE ShowPage(h)
  <2>1. Busy(h) /\ job[h].op = "list" /\ tables' = tables /\ Reply(h, Switch(ListResults(feed.kind), "Success"))
    BY <1>10 DEF ShowPage
  <2>2. feed.kind \in ListKinds
    BY <2>1 DEF FeedInv, AsksFeed
  <2>3. Switch(ListResults(feed.kind), "Success") = "Success"
    BY <1>3, <2>2 DEF Switch
  <2> QED BY <1>5, <2>1, <2>3
<1> QED BY <1>6, <1>7, <1>8, <1>9, <1>10 DEF FeedSteps, ListSteps, CommentsRead, AnswersRead,
    FollowersRead, FollowingRead, SearchRead, AdminListsRead

\* Who else is at work is not alone.
LEMMA SafeKeeps ==
  ASSUME JobsInv, AloneInv, ErrorsInv, NEW h \in Slots, SafeStep(h)
  PROVE  ErrorsInv'
<1>1. ASSUME NEW g \in Slots, Busy(g)', job'[g].alone
      PROVE  Sound(job'[g], tables') /\ Lonely(job'[g], calls', avatars')
  <2>1. CASE g = h
    BY <1>1, <2>1 DEF SafeStep, Busy
  <2>2. CASE g # h
    <3>1. job'[g] = job[g] /\ Busy(g) /\ Busy(h)
      BY <1>1, <2>2 DEF SafeStep, Busy, JobsInv
    <3> QED BY <1>1, <2>2, <3>1 DEF AloneInv
  <2> QED BY <2>1, <2>2
<1> QED BY <1>1 DEF SafeStep, ErrorsInv

\* Nobody learns anything, and who goes on has still only his calls.
LEMMA RestKeeps ==
  ASSUME TablesInv, ErrorsInv, \A g \in Slots : job'[g] \in {job[g], Idle}, oops' = oops,
         tables' = tables \/ \E value : tables' = [tables EXCEPT !.banned = value],
         \A g \in Slots : Busy(g) /\ job[g].alone /\ Lonely(job[g], calls, avatars) =>
                            Lonely(job[g], calls', avatars')
  PROVE  ErrorsInv'
<1>1. /\ tables'.post = tables.post /\ tables'.comment = tables.comment /\ tables'.like = tables.like
      /\ tables'.commentLike = tables.commentLike /\ tables'.follow = tables.follow
  BY DEF TablesInv
<1>2. HaveRefs(tables')
  BY <1>1 DEF HaveRefs, ErrorsInv
<1>3. \A j : Sound(j, tables) => Sound(j, tables')
  BY <1>1 DEF Sound
<1>4. ASSUME NEW g \in Slots, Busy(g)', job'[g].alone
      PROVE  Sound(job'[g], tables') /\ Lonely(job'[g], calls', avatars')
  <2>1. job'[g] = job[g] /\ Busy(g)
    BY <1>4 DEF Busy
  <2> QED BY <1>3, <1>4, <2>1 DEF ErrorsInv
<1> QED BY <1>2, <1>4 DEF ErrorsInv

\* A request that begins has nothing to lose.
LEMMA AskIsSafe ==
  ASSUME JobsInv, ErrorsInv, NEW h \in Slots, NEW op, NEW arg, NEW pc \in {"find", "rows", "followees"}, NEW todo,
         Ask(h, op, arg, pc, todo),
         op = "likePost" => {"post", "like"} \subseteq todo,
         op = "likeComment" => {"comment", "like"} \subseteq todo
  PROVE  ErrorsInv'
<1> DEFINE request == [Request(op, arg, pc, todo) EXCEPT !.alone = calls = {} /\ unlink = {}]
<1>1. /\ Start(h, request) /\ UNCHANGED <<tables, filesVars>> /\ oops' = oops
      /\ request.op = op /\ request.pc = pc /\ request.todo = todo /\ (request.alone => calls = {})
      /\ DOMAIN request = Fields
  BY DEF Ask, Start, Request, Fields
<1> HIDE DEF request
<1>2. /\ job'[h].op = op /\ job'[h].pc = pc /\ job'[h].todo = todo /\ (job'[h].alone => calls = {})
      /\ \A g \in Slots \ {h} : job'[g] = IF Busy(g) THEN [job[g] EXCEPT !.alone = FALSE] ELSE Idle
  BY <1>1 DEF Start, Fields
<1>3. ASSUME NEW g \in Slots, Busy(g)', job'[g].alone
      PROVE  Sound(job'[g], tables) /\ Lonely(job'[g], calls, avatars)
  <2>1. CASE g = h
    BY <1>2, <1>3, <2>1 DEF Sound, LikeSound, Lonely
  <2>2. CASE g # h
    <3> DEFINE j == [job[g] EXCEPT !.alone = FALSE]
    <3>1. job'[g] = j
      BY <1>2, <1>3, <2>2 DEF Busy
    <3>2. "alone" \in DOMAIN job[g]
      BY <1>2, <1>3, <2>2 DEF JobsInv, Busy
    <3> QED BY <1>3, <3>1, <3>2
  <2> QED BY <2>1, <2>2
<1> QED BY <1>1, <1>3 DEF ErrorsInv, filesVars

LEMMA RequestsSafe ==
  ASSUME TablesInv, JobsInv, ErrorsInv, NEW h \in Slots,
         PostRequests(h) \/ FollowingRequests(h) \/ FeedRequests(h) \/ ListRequests(h)
  PROVE  ErrorsInv'
<1>1. ASSUME NEW op, NEW arg, NEW pc \in {"find", "rows", "followees"}, NEW todo,
             Ask(h, op, arg, pc, todo), op \notin {"likePost", "likeComment"}
      PROVE  ErrorsInv'
  BY <1>1, AskIsSafe
<1>2. ASSUME NEW arg, Ask(h, "likePost", arg, "find", {"post", "like"}) PROVE ErrorsInv'
  BY <1>2, AskIsSafe
<1>3. ASSUME NEW arg, Ask(h, "likeComment", arg, "find", {"comment", "like"}) PROVE ErrorsInv'
  BY <1>3, AskIsSafe
<1>4. CASE PostRequests(h)
  <2>1. ASSUME NEW op \in {"addPost", "updatePost", "deletePost", "comment", "answer"}, NEW arg,
               Ask(h, op, arg, "find", {})
        PROVE  ErrorsInv'
    BY <1>1, <2>1
  <2>2. \/ \E op \in {"addPost", "updatePost", "deletePost", "comment", "answer"} : \E arg : Ask(h, op, arg, "find", {})
        \/ \E arg : Ask(h, "likePost", arg, "find", {"post", "like"})
        \/ \E arg : Ask(h, "likeComment", arg, "find", {"comment", "like"})
    BY <1>4, Zenon DEF PostRequests
  <2> QED BY <1>2, <1>3, <2>1, <2>2
<1>5. CASE FollowingRequests(h)
  BY <1>1, <1>5 DEF FollowingRequests, FollowOps, AvatarOps
<1>6. ASSUME UNCHANGED <<tables, filesVars, handlerVars>> PROVE ErrorsInv'
  BY <1>6, RestKeeps DEF filesVars, handlerVars
<1>7. CASE FeedRequests(h)
  <2>1. CASE PageRequest(h)
    BY <1>1, <2>1 DEF PageRequest
  <2>2. CASE \E kind, u, sorting : OpenFeed(kind, u, sorting)
    BY <1>6, <2>2 DEF OpenFeed
  <2> QED BY <1>7, <2>1, <2>2 DEF FeedRequests
<1>8. CASE ListRequests(h)
  <2>1. CASE ListRequest(h)
    <3> DEFINE pc == IF feed.kind \in CommentKinds THEN "find" ELSE "rows"
    <3>1. pc \in {"find", "rows", "followees"} /\ Ask(h, "list", [page |-> feed.page], pc, {})
      BY <2>1 DEF ListRequest
    <3> HIDE DEF pc
    <3> QED BY <1>1, <3>1
  <2>2. CASE \E kind, u, about, dir, size : OpenList(kind, u, about, dir, size)
    BY <1>6, <2>2 DEF OpenList
  <2> QED BY <1>8, <2>1, <2>2 DEF ListRequests
<1> QED BY <1>4, <1>5, <1>7, <1>8

\* Call c of the only request becomes new.
LEMMA LonelyMoves ==
  ASSUME NEW j, Lonely(j, calls, avatars), NEW c \in calls, NEW new, Becomes(c, new), new.pc # "thrown",
         c.op = "uploadAvatar" /\ new.pc \in {"put", "insert"} => \A a \in avatars' : a.owner # c.about
  PROVE  Lonely(j, calls', avatars')
<1>1. \A d \in calls' : d = new \/ (d \in calls /\ d # c)
  BY DEF Becomes
<1>2. j.pc = "calls" /\ new.no \in j.todo /\ new.op = c.op /\ new.about = c.about
  BY DEF Lonely, Becomes
<1>3. ASSUME NEW d \in calls', d.op \in AvatarOps PROVE d = new /\ \A e \in calls' : e = new
  BY <1>1, <1>2, <1>3 DEF Lonely
<1>4. ASSUME NEW d \in calls', d = new \/ d.op \notin AvatarOps
      PROVE  /\ d.pc # "thrown" /\ d.no \in j.todo
             /\ d.op = "uploadAvatar" /\ d.pc \in {"put", "insert"} => \A a \in avatars' : a.owner # d.about
  BY <1>1, <1>2, <1>4 DEF Lonely, AvatarOps
<1> QED BY <1>2, <1>3, <1>4 DEF Lonely

LEMMA FilesAreSafe ==
  ASSUME NumbersInv, NEW j, Lonely(j, calls, avatars),
         \/ \E c \in calls : CallStep(c) \/ CallFails(c)
         \/ FilesStop \/ \E k \in unlink : deleteImage(k)
  PROVE  Lonely(j, calls', avatars')
<1>1. ASSUME NEW c \in calls, NEW pc \in {"unlink", "delete", "done", "lost"}, Advance(c, pc)
      PROVE  Lonely(j, calls', avatars')
  BY <1>1, Advances, LonelyMoves
<1>2. ASSUME NEW c \in calls, NEW pc \in {"put", "insert"}, Advance(c, pc),
             c.op = "uploadAvatar" => \A a \in avatars' : a.owner # c.about
      PROVE  Lonely(j, calls', avatars')
  BY <1>2, Advances, LonelyMoves
<1>3. ASSUME NEW c \in calls,
             savePostPhoto(c) \/ addPostPhoto(c) \/ findPostPhotos(c) \/ deleteAllPostPhotos(c)
      PROVE  Lonely(j, calls', avatars')
  BY <1>1, <1>2, <1>3 DEF savePostPhoto, addPostPhoto, findPostPhotos, deleteAllPostPhotos, CallAt
<1>4. ASSUME NEW c \in calls, findAvatar(c) PROVE Lonely(j, calls', avatars')
  <2>1. CASE AvatarsOf(c.about) = {} /\ Advance(c, AfterDelete(c))
    BY <1>1, <1>2, <1>4, <2>1 DEF findAvatar, AvatarsOf, AfterDelete
  <2>2. ASSUME NEW key, calls' = (calls \ {c}) \cup {[c EXCEPT !.pc = "unlink", !.key = key]}
        PROVE  Lonely(j, calls', avatars')
    <3> DEFINE new == [c EXCEPT !.pc = "unlink", !.key = key]
    <3>1. /\ DOMAIN new = CallFields /\ new.pc = "unlink"
          /\ new.no = c.no /\ new.op = c.op /\ new.about = c.about
      BY DEF NumbersInv, CallFields
    <3>2. calls' = (calls \ {c}) \cup {new}
      BY <2>2
    <3> HIDE DEF new
    <3>3. Becomes(c, new)
      BY <3>1, <3>2 DEF Becomes
    <3> QED BY <3>1, <3>3, LonelyMoves
  <2> QED BY <1>4, <2>1, <2>2 DEF findAvatar
<1>5. ASSUME NEW c \in calls, deleteAvatarImage(c) PROVE Lonely(j, calls', avatars')
  BY <1>1, <1>5 DEF deleteAvatarImage
<1>6. ASSUME NEW c \in calls, deleteAvatar(c) PROVE Lonely(j, calls', avatars')
  <2>1. \A a \in avatars' : a.owner # c.about
    BY <1>6 DEF deleteAvatar, AvatarsOf
  <2> QED BY <1>1, <1>2, <1>6, <2>1 DEF deleteAvatar, AfterDelete
<1>7. ASSUME NEW c \in calls, saveAvatar(c) PROVE Lonely(j, calls', avatars')
  <2>1. \A a \in avatars' : a.owner # c.about
    BY <1>7 DEF saveAvatar, CallAt, Lonely
  <2> QED BY <1>2, <1>7, <2>1 DEF saveAvatar
<1>8. ASSUME NEW c \in calls, addAvatar(c) PROVE Lonely(j, calls', avatars')
  <2>1. AvatarsOf(c.about) = {}
    BY <1>8 DEF addAvatar, CallAt, Lonely, AvatarsOf
  <2> QED BY <1>1, <1>8, <2>1 DEF addAvatar
<1>9. ASSUME NEW c \in calls, CallFails(c) PROVE Lonely(j, calls', avatars')
  BY <1>1, <1>9 DEF CallFails
<1>10. ASSUME FilesStop PROVE Lonely(j, calls', avatars')
  <2>1. avatars' = avatars
    BY <1>10 DEF FilesStop
  <2> DEFINE lost(c) == IF Answered(c) THEN c ELSE [c EXCEPT !.pc = "lost"]
  <2>2. ASSUME NEW c \in calls
        PROVE  lost(c).no = c.no /\ lost(c).op = c.op /\ lost(c).pc \in {"done", "thrown", "lost"}
               /\ (lost(c).pc = "thrown" => c.pc = "thrown")
    BY DEF NumbersInv, CallFields, Answered
  <2>3. calls' = {lost(c) : c \in calls}
    BY <1>10 DEF FilesStop
  <2> HIDE DEF lost
  <2> QED BY <2>1, <2>2, <2>3 DEF Lonely
<1>11. ASSUME NEW k \in unlink, deleteImage(k) PROVE Lonely(j, calls', avatars')
  BY <1>11 DEF deleteImage
<1> QED BY <1>3, <1>4, <1>5, <1>6, <1>7, <1>8, <1>9, <1>10, <1>11 DEF CallStep

\* The last call that returns was the last there was.
LEMMA CallReturnsSafe ==
  ASSUME JobsInv, NumbersInv, WaitInv, ErrorsInv, NEW h \in Slots, NEW c \in calls, CallReturns(h, c)
  PROVE  SafeStep(h)
<1>1. /\ Busy(h) /\ job[h].pc = "calls" /\ c.no \in job[h].todo /\ calls' = calls \ {c}
      /\ tables' = tables /\ avatars' = avatars /\ DOMAIN job = Slots /\ DOMAIN job[h] = Fields
      /\ HaveRefs(tables)
  BY DEF CallReturns, JobsInv, Fields, ErrorsInv
<1>2. job[h].alone => Lonely(job[h], calls, avatars) /\ Sound(job[h], tables)
  BY <1>1 DEF ErrorsInv
<1>3. CASE Returned(h, c.no, "commit")
  <2>1. /\ job' = [job EXCEPT ![h] = job'[h]] /\ oops' = oops
        /\ job'[h].op = job[h].op /\ job'[h].arg = job[h].arg /\ job'[h].got = job[h].got
        /\ job'[h].alone = job[h].alone /\ job'[h].todo = job[h].todo \ {c.no}
        /\ job'[h].pc = IF job[h].todo = {c.no} THEN "commit" ELSE "calls"
    BY <1>1, <1>3 DEF Returned, Fields
  <2>2. job[h].alone => Sound(job'[h], tables')
    <3>1. job[h].op \in {"addPost", "deletePost"} \cup AvatarOps
      BY <1>1 DEF WaitInv
    <3> QED BY <1>1, <1>2, <2>1, <3>1 DEF Sound, AvatarOps
  <2>3. ASSUME job[h].alone PROVE Lonely(job'[h], calls', avatars')
    <3>1. \A d \in calls' : d \in calls /\ d.no \in job[h].todo \ {c.no}
      BY <1>1, <1>2, <2>3 DEF Lonely, NumbersInv
    <3>2. \A d \in calls' : job[h].todo # {c.no}
      BY <3>1
    <3> QED BY <1>1, <1>2, <2>1, <2>3, <3>1, <3>2 DEF Lonely
  <2> QED BY <1>1, <2>1, <2>2, <2>3 DEF SafeStep
<1>4. CASE c.pc = "thrown" /\ Reply(h, "Internal")
  <2>1. ~job[h].alone
    BY <1>2, <1>4 DEF Lonely
  <2>2. job' = [job EXCEPT ![h] = Idle] /\ job'[h] = Idle /\ oops' = oops
    BY <1>1, <1>4, <2>1 DEF Reply
  <2> QED BY <1>1, <2>2 DEF SafeStep
<1>5. CASE Abandon(h)
  BY <1>1, <1>5 DEF Abandon, SafeStep
<1> QED BY <1>3, <1>4, <1>5 DEF CallReturns

LEMMA ErrorsNext ==
  ASSUME LikeInv, StateTyped, NumbersInv, WaitInv, FeedInv, ErrorsInv, [Next]_vars
  PROVE  ErrorsInv'
<1>1. TablesInv /\ JobsInv /\ AloneInv
  BY DEF LikeInv
<1>2. ASSUME NEW h \in Slots, PostSteps(h) \/ FollowingSteps(h) \/ FeedSteps(h) \/ ListSteps(h)
      PROVE  ErrorsInv'
  BY <1>1, <1>2, PostStepsSafe, FollowingStepsSafe, ReadingStepsSafe, SafeKeeps
<1>3. ASSUME NEW h \in Slots,
             PostRequests(h) \/ FollowingRequests(h) \/ FeedRequests(h) \/ ListRequests(h)
      PROVE  ErrorsInv'
  BY <1>1, <1>3, RequestsSafe
<1>4. ASSUME NEW h \in Slots, NEW c \in calls, CallReturns(h, c) PROVE ErrorsInv'
  BY <1>1, <1>4, CallReturnsSafe, SafeKeeps
<1>5. ASSUME UNCHANGED <<tables, oops, calls, avatars>>, \A g \in Slots : job'[g] \in {job[g], Idle}
      PROVE  ErrorsInv'
  BY <1>1, <1>5, RestKeeps
<1>6. ASSUME NEW h \in Slots, GatewayFails(h) PROVE ErrorsInv'
  BY <1>1, <1>5, <1>6 DEF GatewayFails, Fail, JobsInv, filesVars
<1>7. ASSUME GatewayRestarts \/ Tick \/ UNCHANGED vars PROVE ErrorsInv'
  BY <1>5, <1>7 DEF GatewayRestarts, Restart, Tick, vars, filesVars, handlerVars
<1>8. ASSUME NEW c \in calls, Unheard(c) PROVE ErrorsInv'
  <2>1. \A j : Lonely(j, calls, avatars) => Lonely(j, calls', avatars')
    BY <1>8 DEF Unheard, Lonely
  <2> QED BY <1>1, <1>8, <2>1, RestKeeps DEF Unheard, handlerVars
<1>9. ASSUME FilesRun \/ FilesFail PROVE ErrorsInv'
  <2>1. /\ UNCHANGED <<tables, job, oops>>
        /\ \/ \E c \in calls : CallStep(c) \/ CallFails(c)
           \/ FilesStop \/ \E k \in unlink : deleteImage(k)
    BY <1>9 DEF FilesRun, FilesFail, handlerVars
  <2>2. \A j : Lonely(j, calls, avatars) => Lonely(j, calls', avatars')
    BY <2>1, FilesAreSafe
  <2> QED BY <1>1, <2>1, <2>2, RestKeeps
<1>10. ASSUME NEW u \in tables.user, Moderate(u) PROVE ErrorsInv'
  <2>1. UNCHANGED <<job, oops, calls, avatars>> /\ \E value : tables' = [tables EXCEPT !.banned = value]
    BY <1>10 DEF Moderate, filesVars
  <2> QED BY <1>1, <2>1, RestKeeps
<1> QED BY <1>2, <1>3, <1>4, <1>6, <1>7, <1>8, <1>9, <1>10 DEF Next

LEMMA InitErrors == Init => ErrorsInv
<1> SUFFICES ASSUME Init PROVE ErrorsInv
  OBVIOUS
<1>1. /\ scene.posts \in Nat /\ scene.comments \in Nat /\ (scene.comments > 0 => scene.posts > 0)
      /\ oops = {} /\ job = [h \in Slots |-> Idle]
  BY ScenesAssumption, ScenesFit DEF Init, HandlersInit
<1>2. PICK people \in SUBSET Users :
      \E owner \in [1..scene.posts -> people], commentator \in [1..scene.comments -> people] :
      \E id, place :
        tables = [user |-> people, id |-> id, place |-> place,
                 post |-> [i \in 1..scene.posts |-> PostRow(owner[i], i, 1)],
                 comment |-> [i \in 1..scene.comments |->
                                CommentRow(commentator[i], 1, 0, scene.posts + i)],
                 like |-> <<>>, commentLike |-> <<>>,
                 follow |-> {pair \in people \X people : scene.friends /\ pair[1] # pair[2]},
                 banned |-> {}]
  BY DEF Init
<1>3. PICK owner \in [1..scene.posts -> people], commentator \in [1..scene.comments -> people] :
      \E id, place :
        tables = [user |-> people, id |-> id, place |-> place,
                 post |-> [i \in 1..scene.posts |-> PostRow(owner[i], i, 1)],
                 comment |-> [i \in 1..scene.comments |->
                                CommentRow(commentator[i], 1, 0, scene.posts + i)],
                 like |-> <<>>, commentLike |-> <<>>,
                 follow |-> {pair \in people \X people : scene.friends /\ pair[1] # pair[2]},
                 banned |-> {}]
  BY <1>2
<1>4. /\ tables.post = [i \in 1..scene.posts |-> PostRow(owner[i], i, 1)]
      /\ tables.comment = [i \in 1..scene.comments |-> CommentRow(commentator[i], 1, 0, scene.posts + i)]
  BY <1>3
<1>5. \A c \in DOMAIN tables.comment : tables.comment[c].post = 1 /\ 1 \in 1..scene.posts
  BY <1>1, <1>4 DEF CommentRow
<1>6. \A p \in 1..scene.posts : IsRow(tables.post, p)
  BY <1>4 DEF IsRow, LiveRows, PostRow
<1>7. HaveRefs(tables)
  BY <1>5, <1>6 DEF HaveRefs, LiveRows
<1> QED BY <1>1, <1>7 DEF ErrorsInv, Busy

\* What a request that overlaps nothing has read is still so when it writes, a comment has
\* its post, and the calls such a request makes are the only ones.
THEOREM ErrorsKept == Spec => []ErrorsInv
<1>1. LikeInv /\ StoredInv /\ StateTyped /\ FilesTyped /\ PicturesInv /\ ErrorsInv /\ [Next]_vars
      => ErrorsInv'
  BY ErrorsNext DEF StoredInv, PicturesInv
<1> QED BY <1>1, InitErrors, LikesKept, FilesKept, TypesKept, PhotosKept, PTL DEF Spec

\* No request that overlapped nothing is answered 500, unless something failed.
THEOREM ErrorsOnlyByRace == Spec => []ServerErrorOnlyByRace
<1>1. ErrorsInv => ServerErrorOnlyByRace
  BY DEF ErrorsInv, ServerErrorOnlyByRace
<1> QED BY <1>1, ErrorsKept, PTL
=============================================================================
