-------------------------------- MODULE Posts --------------------------------
(***************************************************************************)
(* Posts with their photos, comments and likes.                            *)
(***************************************************************************)
EXTENDS SocialState

(***************************************************************************)
(* AddPostUseCase: the row is inserted in a transaction that commits when  *)
(* the files service has stored every photo.                               *)
(***************************************************************************)

AddPostDtos == [user : tables.user \cup {Stranger}, files : 1..MaxFiles]

AddPostFinds(h) ==
  /\ At(h, {"addPost"}, "find")
  /\ IF ~getUserById(tables, Arg(h).user) THEN Answer(h, addPostResults, "NotFound")
     ELSE Read(h, "user", {Arg(h).user}, "create")

\* handleUpload up to its Promise.all; the row has its id and is not yet seen.
AddPostUploads(h) ==
  LET id == Len(tables.post) + 1 IN
  /\ At(h, {"addPost"}, "create")
  /\ id <= MaxPosts
  /\ tables' = [tables EXCEPT !.post = Append(@, Gone)]
  /\ CallFiles(h, "post", [id |-> id, created |-> now],
               Arg(h).files, "uploadPostPhoto", id, "put")

AddPostEnds(h) ==
  /\ At(h, {"addPost"}, "commit")
  /\ LET post == Got(h, "post") IN
       Commit(h, addPost(tables, post.id, Arg(h).user, post.created, Arg(h).files),
              addPostResults)

(***************************************************************************)
(* UpdatePostUseCase, DeletePostUseCase.                                   *)
(***************************************************************************)

\* The post is found and his: Mine, or this is the answer.
MineOrAnswer(h) ==
  LET p == getPostById(tables, Arg(h).post) IN
  IF p = 0 THEN "NotFound" ELSE IF tables.post[p].owner # Arg(h).user THEN "Forbidden" ELSE "Mine"

UpdatePostFinds(h) ==
  /\ At(h, {"updatePost"}, "find")
  /\ IF MineOrAnswer(h) # "Mine" THEN Answer(h, updatePostResults, MineOrAnswer(h))
     ELSE Read(h, "date", {now}, "write")

UpdatePostEnds(h) ==
  /\ At(h, {"updatePost"}, "write")
  /\ Commit(h, updatePost(tables, Arg(h).post, Got(h, "date")), updatePostResults)

\* Mutant: the row goes, its photos are forgotten.
DeleteRowOnly(h) ==
  /\ At(h, {"deletePost"}, "find")
  /\ IF MineOrAnswer(h) # "Mine" THEN Answer(h, deletePostResults, MineOrAnswer(h))
     ELSE Read(h, "post", {Arg(h).post}, "commit")

\* handleDelete: the transaction commits when the photos are gone.
DeletePostFinds(h) ==
  /\ At(h, {"deletePost"}, "find")
  /\ IF MineOrAnswer(h) # "Mine" THEN Answer(h, deletePostResults, MineOrAnswer(h))
     ELSE /\ CallFiles(h, "post", Arg(h).post, 1, "deletePostPhotos", Arg(h).post, "find")
          /\ UNCHANGED tables

DeletePostEnds(h) ==
  /\ At(h, {"deletePost"}, "commit")
  /\ Commit(h, deletePost(tables, Arg(h).post), deletePostResults)

(***************************************************************************)
(* AddLikePostUseCase, AddLikeDislikeCommentUseCase: post or comment and   *)
(* the user's like are read together, then the like is inserted or         *)
(* updated.                                                                *)
(***************************************************************************)

LikeRead(likes, ids) ==
  {IF k = 0 THEN [id |-> 0] ELSE [id |-> k, status |-> likes[k].status] : k \in ids}

LikeReads(h) ==
  \/ /\ At(h, {"likePost"}, "find") /\ "post" \in job[h].todo
     /\ Read(h, "post", {getPostById(tables, Arg(h).post)}, "write")
  \/ /\ At(h, {"likePost"}, "find") /\ "like" \in job[h].todo
     /\ Read(h, "like", LikeRead(tables.like,
               getLikeByPostIdAndUserId(tables, Arg(h).post, Arg(h).user)), "write")
  \/ /\ At(h, {"likeComment"}, "find") /\ "comment" \in job[h].todo
     /\ Read(h, "comment", {getCommentById(tables, Arg(h).comment)}, "write")
  \/ /\ At(h, {"likeComment"}, "find") /\ "like" \in job[h].todo
     /\ Read(h, "like", LikeRead(tables.commentLike,
               getLikeByCommentIdAndUserId(tables, Arg(h).comment, Arg(h).user)), "write")

\* Mutant: an inserted like at every click.
AlwaysNewLike(h) ==
  addLike(tables, Arg(h).post, Arg(h).user, job[h].alone)

\* createNewLike, or updateCurrentLike: a second click takes the like back.
NewOrToggled(h) ==
  LET like == Got(h, "like") IN
  IF like.id = 0 THEN addLike(tables, Arg(h).post, Arg(h).user, job[h].alone)
  ELSE updateLike(tables, like.id, IF like.status = "like" THEN "none" ELSE "like")

LikePostEnds(h) ==
  /\ At(h, {"likePost"}, "write")
  /\ IF Got(h, "post") = 0 THEN Answer(h, likePostResults, "NotFound")
     ELSE Len(tables.like) < MaxLikes /\ Commit(h, NewOrToggled(h), likePostResults)

LikeCommentEnds(h) ==
  LET like == Got(h, "like")  status == Arg(h).status IN
  /\ At(h, {"likeComment"}, "write")
  /\ CASE Got(h, "comment") = 0 -> Answer(h, likeCommentResults, "NotFound")
       [] Got(h, "comment") # 0 /\ like.id = 0 ->
            /\ Len(tables.commentLike) < MaxLikes
            /\ Commit(h, addCommentLike(tables, Arg(h).comment, Arg(h).user, status,
                                        job[h].alone), likeCommentResults)
       [] OTHER -> IF like.status = status THEN Answer(h, likeCommentResults, "Success")
                   ELSE Commit(h, updateCommentLike(tables, like.id, status), likeCommentResults)

(***************************************************************************)
(* AddCommentUseCase, AddAnswerForCommentUseCase.                          *)
(***************************************************************************)

CommentReads(h) ==
  \/ /\ At(h, {"comment"}, "find")
     /\ LET p == getPostById(tables, Arg(h).post) IN
          IF p = 0 THEN Answer(h, createCommentResults, "NotFound") ELSE Read(h, "post", {p}, "write")
  \/ /\ At(h, {"answer"}, "find")
     /\ LET c == getCommentById(tables, Arg(h).comment) IN
          IF c = 0 THEN Answer(h, answerForCommentResults, "NotFound")
          ELSE Read(h, "post", {tables.comment[c].post}, "write")

CommentEnds(h) ==
  /\ At(h, {"comment"}, "write") /\ Len(tables.comment) < MaxComments
  /\ Commit(h, addComment(tables, Got(h, "post"), Arg(h).user, 0, now), createCommentResults)

AnswerEnds(h) ==
  /\ At(h, {"answer"}, "write") /\ Len(tables.comment) < MaxComments
  /\ Commit(h, addComment(tables, Got(h, "post"), Arg(h).user, Arg(h).comment, now),
            answerForCommentResults)

PostRequests(h) ==
  \/ \E dto \in AddPostDtos : Ask(h, "addPost", dto, "find", {})
  \/ \E u \in tables.user, p \in DOMAIN tables.post :
       \/ \E op \in {"updatePost", "deletePost", "comment"} :
            Ask(h, op, [user |-> u, post |-> p], "find", {})
       \/ Ask(h, "likePost", [user |-> u, post |-> p], "find", {"post", "like"})
  \/ \E u \in tables.user, c \in DOMAIN tables.comment :
       \/ Ask(h, "answer", [user |-> u, comment |-> c], "find", {})
       \/ \E s \in LikeStatuses :
            Ask(h, "likeComment", [user |-> u, comment |-> c, status |-> s], "find",
                {"comment", "like"})

PostSteps(h) ==
  \/ AddPostFinds(h) \/ AddPostUploads(h) \/ AddPostEnds(h)
  \/ UpdatePostFinds(h) \/ UpdatePostEnds(h) \/ DeletePostFinds(h) \/ DeletePostEnds(h)
  \/ LikeReads(h) \/ LikePostEnds(h) \/ LikeCommentEnds(h)
  \/ CommentReads(h) \/ CommentEnds(h) \/ AnswerEnds(h)
==============================================================================
