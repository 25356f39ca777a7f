------------------------------ MODULE Followings ------------------------------
(***************************************************************************)
(* Who follows whom, and avatars.                                          *)
(***************************************************************************)
EXTENDS SocialState

FollowOps == {"follow", "unfollow", "deleteFollower"}

FollowResults(op) ==
  CASE op = "follow" -> followToUserResults
    [] op = "unfollow" -> unfollowToUserResults
    [] op = "deleteFollower" -> deleteFollowerResults

\* The pair of follower and followee the request is about.
Pair(h) ==
  IF job[h].op = "deleteFollower" THEN <<Arg(h).other, Arg(h).user>>
  ELSE <<Arg(h).user, Arg(h).other>>

\* The use case, up to the repository: it is not about himself, and the other exists.
FollowFinds(h) ==
  /\ At(h, FollowOps, "find")
  /\ CASE Arg(h).user = Arg(h).other -> Answer(h, FollowResults(job[h].op), "BadRequest")
       [] Arg(h).user # Arg(h).other /\ ~getUserById(tables, Arg(h).other) ->
            Answer(h, FollowResults(job[h].op), "NotFound")
       [] OTHER -> Read(h, "other", {Arg(h).other}, "check")

\* followToUser, unfollowToUser: nothing to do is a success.
FollowChecks(h) ==
  /\ At(h, FollowOps, "check")
  /\ IF (Pair(h) \in tables.follow) = (job[h].op = "follow")
     THEN Answer(h, FollowResults(job[h].op), "Success")
     ELSE Read(h, "pair", {Pair(h)}, "write")

FollowEnds(h) ==
  /\ At(h, {"follow"}, "write")
  /\ Commit(h, createFollow(tables, Pair(h)), followToUserResults)

UnfollowEnds(h) ==
  /\ At(h, {"unfollow", "deleteFollower"}, "write")
  /\ Commit(h, deleteFollow(tables, Pair(h)), FollowResults(job[h].op))

(***************************************************************************)
(* UploadAvatarUseCase, DeleteAvatarUseCase of the gateway.                *)
(***************************************************************************)

AvatarResults(op) == IF op = "uploadAvatar" THEN uploadAvatarResults ELSE deleteAvatarResults

AvatarFinds(h) ==
  /\ At(h, AvatarOps, "find")
  /\ IF ~getUserById(tables, Arg(h).user)
     THEN Answer(h, AvatarResults(job[h].op), "NotFound")
     ELSE /\ CallFiles(h, "user", Arg(h).user, 1, job[h].op, Arg(h).user, "find")
          /\ UNCHANGED tables

AvatarEnds(h) ==
  /\ At(h, AvatarOps, "commit")
  /\ Answer(h, AvatarResults(job[h].op), "Success")

FollowingRequests(h) ==
  \E u \in tables.user :
    \/ \E op \in FollowOps, v \in tables.user \cup {Stranger} :
         Ask(h, op, [user |-> u, other |-> v], "find", {})
    \/ \E op \in AvatarOps : Ask(h, op, [user |-> u], "find", {})

FollowingSteps(h) ==
  \/ FollowFinds(h) \/ FollowChecks(h) \/ FollowEnds(h) \/ UnfollowEnds(h)
  \/ AvatarFinds(h) \/ AvatarEnds(h)
===============================================================================
