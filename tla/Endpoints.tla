------------------------------ MODULE Endpoints ------------------------------
(***************************************************************************)
(* How a request ends.  A use case or query catches whatever is thrown in  *)
(* it and yields one of the results of application-notification; the       *)
(* controller or resolver switches on the result and answers 500 to those  *)
(* it does not list.  Below are the results each endpoint of the gateway   *)
(* lists.                                                                  *)
(***************************************************************************)

AppResults == {"Success", "BadRequest", "NotFound", "Unauthorized", "Forbidden", "Internal"}

\* The switch of an endpoint that lists the results S.
Switch(S, result) == IF result \in S THEN result ELSE "Internal"

(***************************************************************************)
(* Authentication, security devices, user administration.                  *)
(***************************************************************************)

registration == {"Success", "BadRequest"}
registrationConfirmation == {"Success", "BadRequest", "NotFound", "Unauthorized"}
registrationEmailResending == {"Success", "BadRequest", "NotFound", "Unauthorized"}
googleAuthCallback == {"Success", "BadRequest", "Unauthorized"}
githubAuthCallback == {"Success", "BadRequest", "Unauthorized"}
restorePassword == {"Success", "NotFound", "Unauthorized"}

\* Mutant: a code that is used up is not expected.
BadCodeUnexpected == {"Success", "Unauthorized"}
restorePasswordConfirmation == {"Success", "BadRequest", "Unauthorized"}
login == {"Success", "Unauthorized"}
logout == {"Success"}
renewTokens == {"Success", "Unauthorized"}

terminateDeviceById == {"Success", "Forbidden", "NotFound"}
terminateAllExcludeCurrent == {"Success", "Forbidden", "NotFound"}

banUser == {"Success", "NotFound"}
unbanUser == {"Success", "NotFound"}
deleteUser == {"Success", "NotFound"}

(***************************************************************************)
(* Posts, comments, followings, avatars, and the lists of these.           *)
(***************************************************************************)

addPostResults == {"Success", "NotFound"}
updatePostResults == {"Success", "Forbidden", "NotFound"}
\* Mutant: the post of another is not expected.
OthersUnexpected == {"Success", "NotFound"}
deletePostResults == {"Success", "Forbidden", "NotFound"}
likePostResults == {"Success", "NotFound"}
createCommentResults == {"Success", "NotFound"}
answerForCommentResults == {"Success", "NotFound"}
likeCommentResults == {"Success", "NotFound"}
followToUserResults == {"Success", "NotFound", "BadRequest"}
unfollowToUserResults == {"Success", "NotFound", "BadRequest"}
deleteFollowerResults == {"Success", "NotFound", "BadRequest"}
uploadAvatarResults == {"Success", "NotFound"}
deleteAvatarResults == {"Success", "NotFound"}
getPublicPostsResults == {"Success"}
getPostsByUserResults == {"Success", "NotFound"}
getFollowingsPostsResults == {"Success"}
getCommentsForPostResults == {"Success", "NotFound"}
getCommentAnswersForCommentResults == {"Success", "NotFound"}
adminCommentsForPostResults == {"Success", "NotFound"}
adminAnswersForCommentResults == {"Success", "NotFound"}
adminPostsResults == {"Success"}
getFollowersResults == {"Success"}
getFollowingResults == {"Success"}
adminFollowersResults == {"Success"}
adminFollowingResults == {"Success"}
searchUsersResults == {"Success"}
adminUsersResults == {"Success"}
==============================================================================
