------------------------------ MODULE MCSocial ------------------------------
(* Values for the constants of Social. *)
EXTENDS Social

CONSTANTS u1, u2, u3, h1, h2

Newest == [by |-> "createdAt", dir |-> "desc"]
Oldest == [by |-> "createdAt", dir |-> "asc"]
NoFeeds == {}
Scene(ops, feeds, posts, m, f, t, bans) ==
  [ops |-> ops, feeds |-> feeds, lists |-> {}, people |-> 2, posts |-> posts, comments |-> 0,
   friends |-> feeds # {}, moves |-> m, faults |-> f, time |-> t, bans |-> bans]

\* A list is read while one thing changes it.
ListScene(op, kinds, dirs, sizes, people, posts, comments, m, bans) ==
  [ops |-> {"list", op}, feeds |-> {}, lists |-> kinds \X dirs \X sizes, people |-> people,
   posts |-> posts, comments |-> comments, friends |-> op \in {"list", "unfollow"}, moves |-> m, faults |-> 0,
   time |-> 0, bans |-> bans]

\* What is requested together, and how much of it.
MCScenes ==
  { Scene({"addPost", "deletePost"}, NoFeeds, 0, 3, 0, 0, FALSE),
    Scene({"addPost", "deletePost"}, NoFeeds, 1, 2, 1, 1, FALSE),
    Scene({"deletePost", "updatePost"}, NoFeeds, 1, 3, 1, 1, FALSE),
    Scene({"likePost", "deletePost"}, NoFeeds, 1, 3, 0, 1, FALSE),
    Scene({"comment", "answer", "likeComment"}, NoFeeds, 1, 3, 0, 1, TRUE),
    Scene({"comment", "deletePost", "answer"}, NoFeeds, 1, 3, 0, 1, FALSE),
    Scene({"follow", "unfollow", "deleteFollower"}, NoFeeds, 0, 3, 1, 0, FALSE),
    Scene({"uploadAvatar", "deleteAvatar"}, NoFeeds, 0, 4, 0, 0, FALSE),
    Scene({"uploadAvatar", "deleteAvatar"}, NoFeeds, 0, 3, 1, 0, FALSE),
    Scene({"page", "deletePost"}, {<<"public", Newest>>}, 3, 3, 0, 3, FALSE),
    Scene({"page", "deletePost"}, {<<"own", Oldest>>}, 2, 4, 0, 2, FALSE),
    Scene({"page", "addPost"}, {<<"public", Newest>>}, 2, 3, 0, 3, FALSE),
    Scene({"page", "likePost"}, {<<"own", Newest>>}, 2, 3, 0, 2, FALSE),
    Scene({"page", "updatePost"}, Kinds \X Sortings, 2, 3, 0, 3, FALSE),
    Scene({"page", "unfollow"}, {<<"followings", Newest>>}, 2, 4, 0, 2, TRUE),
    ListScene("comment", {"comments", "adminComments"}, {"desc"}, {2}, 2, 1, 3, 3, TRUE),
    ListScene("answer", {"answers", "adminAnswers"}, {"asc"}, {1}, 2, 1, 1, 3, FALSE),
    ListScene("likeComment", {"comments"}, {"desc"}, {1}, 2, 1, 1, 3, FALSE),
    ListScene("deletePost", {"comments", "adminPosts"}, {"asc"}, {1}, 2, 1, 1, 3, FALSE),
    ListScene("list", CursorKinds \cup {"adminFollowing", "adminUsers"}, {"desc"}, {1, 2}, 3, 0, 0, 5, TRUE),
    ListScene("unfollow", {"adminFollowers", "adminFollowing"}, {"asc"}, {1}, 3, 0, 0, 3, FALSE) }

SlotSymmetry == Permutations(Slots) \cup Permutations(Users)
=============================================================================
