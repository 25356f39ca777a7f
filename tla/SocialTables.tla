----------------------------- MODULE SocialTables -----------------------------
(***************************************************************************)
(* The gateway's tables of posts, comments, likes and follows, and the     *)
(* repositories over them, each method a function from tables to tables.   *)
(* A like has no unique constraint, a follow has one.                      *)
(***************************************************************************)
EXTENDS Tables

CONSTANTS
  Users,      \* who may be a user
  MaxFiles    \* photos of one post

LikeStatuses == {"like", "dislike", "none"}

\* A row of UserPost.  updated is 0 (null) until an update; files is history:
\* how many photos came with it.
PostRow(owner, created, files) ==
  [live |-> TRUE, owner |-> owner, created |-> created, updated |-> 0, files |-> files]

PostRows(time) ==
  [live : {TRUE}, owner : Users, created : 0..time, updated : 0..time, files : 0..MaxFiles]

\* A row of PostComment; answers is the comment it answers, or 0.
CommentRow(owner, post, answers, created) ==
  [live |-> TRUE, owner |-> owner, post |-> post, answers |-> answers, created |-> created]

CommentRows(time) ==
  [live : {TRUE}, owner : Users, post : Nat \ {0}, answers : Nat, created : 0..time]

\* A row of LikesPost or LikesComment.  alone is history: the request that
\* inserted it overlapped no other.
LikeRows == [live : {TRUE}, user : Users, on : Nat \ {0}, status : LikeStatuses, alone : BOOLEAN]

Visible(d) == {p \in LiveRows(d.post) : d.post[p].owner \notin d.banned}
LikesOn(likes, i) == {k \in LiveRows(likes) : likes[k].on = i}
LikesOf(likes, i, u) == {k \in LikesOn(likes, i) : likes[k].user = u}

(***************************************************************************)
(* UsersRepository, PostsRepository.                                       *)
(***************************************************************************)

\* Mutant: the id of the token is taken for a user.
AnyId(d, u) == TRUE

getUserById(d, u) == u \in d.user

addPost(d, id, owner, created, files) ==
  Statement(d, owner \in d.user, [d EXCEPT !.post[id] = PostRow(owner, created, files)])

\* A post of a banned user is not found.
getPostById(d, p) == IF p \in Visible(d) THEN p ELSE 0

updatePost(d, p, date) == Statement(d, IsRow(d.post, p), [d EXCEPT !.post[p].updated = date])

\* Its comments and likes, and the likes of those comments, go with it.
deletePost(d, p) ==
  LET comments == {c \in LiveRows(d.comment) : d.comment[c].post = p} IN
  Statement(d, IsRow(d.post, p),
    [d EXCEPT !.post[p] = Gone,
              !.comment = DeleteRows(@, comments),
              !.like = DeleteRows(@, LikesOn(d.like, p)),
              !.commentLike = DeleteRows(@, UNION {LikesOn(d.commentLike, c) : c \in comments})])

(***************************************************************************)
(* PostsLikeRepository, PostsLikeCommentRepository.                        *)
(***************************************************************************)

NewLike(on, u, status, alone) ==
  [live |-> TRUE, user |-> u, on |-> on, status |-> status, alone |-> alone]

addLike(d, p, u, alone) ==
  Statement(d, IsRow(d.post, p), [d EXCEPT !.like = Append(@, NewLike(p, u, "like", alone))])

updateLike(d, k, status) == Statement(d, IsRow(d.like, k), [d EXCEPT !.like[k].status = status])

getLikeByPostIdAndUserId(d, p, u) == FindFirst(LikesOf(d.like, p, u))

addCommentLike(d, c, u, status, alone) ==
  Statement(d, IsRow(d.comment, c),
            [d EXCEPT !.commentLike = Append(@, NewLike(c, u, status, alone))])

updateCommentLike(d, k, status) ==
  Statement(d, IsRow(d.commentLike, k), [d EXCEPT !.commentLike[k].status = status])

getLikeByCommentIdAndUserId(d, c, u) == FindFirst(LikesOf(d.commentLike, c, u))

(***************************************************************************)
(* PostsCommentRepository.                                                 *)
(***************************************************************************)

addComment(d, p, u, answers, created) ==
  Statement(d, IsRow(d.post, p) /\ (answers = 0 \/ IsRow(d.comment, answers)),
    [d EXCEPT !.comment = Append(@, CommentRow(u, p, answers, created))])

getCommentById(d, c) == IF IsRow(d.comment, c) THEN c ELSE 0

(***************************************************************************)
(* UsersFollowRepository: unique_follow.                                   *)
(***************************************************************************)

isFollowing(d, follower, followee) == <<follower, followee>> \in d.follow

createFollow(d, pair) == Statement(d, pair \notin d.follow, [d EXCEPT !.follow = @ \cup {pair}])
deleteFollow(d, pair) == Statement(d, pair \in d.follow, [d EXCEPT !.follow = @ \ {pair}])

getFollowingToInfo(d, u) == {v \in d.user : isFollowing(d, u, v)}
===============================================================================
