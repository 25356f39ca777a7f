---------------------------- MODULE FilesService ----------------------------
(***************************************************************************)
(* The files service: photos of posts and avatars, each a document in      *)
(* MongoDB and a file in the S3 bucket.  The gateway calls it over TCP; a  *)
(* call runs from await to await while others run, and goes on when its    *)
(* caller no longer waits.  A file is stored under a fresh key, here the   *)
(* number of the call that stores it.                                      *)
(***************************************************************************)
EXTENDS Naturals, FiniteSets

VARIABLES
  made,      \* how many calls were made so far
  calls,     \* the calls under way or answered
  photos,    \* PostPhoto documents: [post, key]
  avatars,   \* Avatar documents: [owner, key]; the owner is unique
  bucket,    \* keys of the files in S3
  unlink     \* keys being deleted that nobody waits for

filesVars == <<made, calls, photos, avatars, bucket, unlink>>

Call(no, op, about, pc) == [no |-> no, op |-> op, about |-> about, pc |-> pc, key |-> 0]

FilesTypeOK(Posts, Owners) ==
  /\ made \in Nat
  /\ \A c \in calls :
       /\ c.no \in 1..made /\ c.key \in 0..made
       /\ \/ c.op \in {"uploadPostPhoto", "deletePostPhotos"} /\ c.about \in Posts
          \/ c.op \in {"uploadAvatar", "deleteAvatar"} /\ c.about \in Owners
       /\ c.pc \in {"find", "unlink", "delete", "put", "insert", "done", "thrown", "lost"}
  /\ photos \subseteq [post : Posts, key : 1..made]
  /\ avatars \subseteq [owner : Owners, key : 1..made]
  /\ bucket \subseteq 1..made /\ unlink \subseteq 1..made

\* The gateway calls n times.
Send(n, op, about, pc) ==
  /\ made' = made + n
  /\ calls' = calls \cup {Call(made + i, op, about, pc) : i \in 1..n}
  /\ UNCHANGED <<photos, avatars, bucket, unlink>>

CallAt(c, ops, pc) == c \in calls /\ c.op \in ops /\ c.pc = pc
Advance(c, pc) == calls' = (calls \ {c}) \cup {[c EXCEPT !.pc = pc]}

\* A call that has been answered; the answer is taken, or nobody waits for it.
Answered(c) == c \in calls /\ c.pc \in {"done", "thrown", "lost"}

(***************************************************************************)
(* Photos of posts: SavePostPhotoUseCase, DeletePostPhotosUseCase.         *)
(***************************************************************************)

savePostPhoto(c) ==
  /\ CallAt(c, {"uploadPostPhoto"}, "put")
  /\ bucket' = bucket \cup {c.no}
  /\ Advance(c, "insert")
  /\ UNCHANGED <<made, photos, avatars, unlink>>

addPostPhoto(c) ==
  /\ CallAt(c, {"uploadPostPhoto"}, "insert")
  /\ photos' = photos \cup {[post |-> c.about, key |-> c.no]}
  /\ Advance(c, "done")
  /\ UNCHANGED <<made, avatars, bucket, unlink>>

PhotosOf(p) == {x \in photos : x.post = p}
KeysOf(p) == {x.key : x \in PhotosOf(p)}

\* The deletions in S3 are started, not waited for.
findPostPhotos(c) ==
  /\ CallAt(c, {"deletePostPhotos"}, "find")
  /\ unlink' = unlink \cup KeysOf(c.about)
  /\ Advance(c, IF KeysOf(c.about) = {} THEN "done" ELSE "delete")
  /\ UNCHANGED <<made, photos, avatars, bucket>>

deleteAllPostPhotos(c) ==
  /\ CallAt(c, {"deletePostPhotos"}, "delete")
  /\ photos' = photos \ PhotosOf(c.about)
  /\ Advance(c, "done")
  /\ UNCHANGED <<made, avatars, bucket, unlink>>

deleteImage(k) ==
  /\ k \in unlink
  /\ unlink' = unlink \ {k} /\ bucket' = bucket \ {k}
  /\ UNCHANGED <<made, calls, photos, avatars>>

(***************************************************************************)
(* Avatars: UploadAvatarUseCase, DeleteAvatarUseCase.                      *)
(***************************************************************************)

AvatarsOf(u) == {a \in avatars : a.owner = u}
AvatarOps == {"uploadAvatar", "deleteAvatar"}
AfterDelete(c) == IF c.op = "uploadAvatar" THEN "put" ELSE "done"

findAvatar(c) ==
  /\ CallAt(c, AvatarOps, "find")
  /\ \/ AvatarsOf(c.about) = {} /\ Advance(c, AfterDelete(c))
     \/ \E a \in AvatarsOf(c.about) :
          calls' = (calls \ {c}) \cup {[c EXCEPT !.pc = "unlink", !.key = a.key]}
  /\ UNCHANGED <<made, photos, avatars, bucket, unlink>>

\* The old file goes first, then its document.
deleteAvatarImage(c) ==
  /\ CallAt(c, AvatarOps, "unlink")
  /\ bucket' = bucket \ {c.key}
  /\ Advance(c, "delete")
  /\ UNCHANGED <<made, photos, avatars, unlink>>

\* Mutant: the document of the new avatar replaces the old one later.
KeepDocument(c) ==
  /\ CallAt(c, AvatarOps, "delete")
  /\ Advance(c, AfterDelete(c))
  /\ UNCHANGED <<made, photos, avatars, bucket, unlink>>

\* Whichever document the owner has by now.
deleteAvatar(c) ==
  /\ CallAt(c, AvatarOps, "delete")
  /\ avatars' = avatars \ AvatarsOf(c.about)
  /\ Advance(c, AfterDelete(c))
  /\ UNCHANGED <<made, photos, bucket, unlink>>

saveAvatar(c) ==
  /\ CallAt(c, {"uploadAvatar"}, "put")
  /\ bucket' = bucket \cup {c.no}
  /\ Advance(c, "insert")
  /\ UNCHANGED <<made, photos, avatars, unlink>>

addAvatar(c) ==
  /\ CallAt(c, {"uploadAvatar"}, "insert")
  /\ IF AvatarsOf(c.about) = {}
     THEN /\ avatars' = avatars \cup {[owner |-> c.about, key |-> c.no]}
          /\ Advance(c, "done")
     ELSE Advance(c, "thrown") /\ UNCHANGED avatars
  /\ UNCHANGED <<made, photos, bucket, unlink>>

CallStep(c) ==
  \/ savePostPhoto(c) \/ addPostPhoto(c) \/ findPostPhotos(c) \/ deleteAllPostPhotos(c)
  \/ findAvatar(c) \/ deleteAvatarImage(c) \/ deleteAvatar(c) \/ saveAvatar(c) \/ addAvatar(c)

\* MongoDB or S3 fails under a call.
CallFails(c) ==
  /\ ~Answered(c) /\ Advance(c, "lost")
  /\ UNCHANGED <<made, photos, avatars, bucket, unlink>>

\* The process stops, as it does when a deletion fails nobody waits for.
FilesStop ==
  /\ calls # {} \/ unlink # {}
  /\ calls' = {IF Answered(c) THEN c ELSE [c EXCEPT !.pc = "lost"] : c \in calls}
  /\ unlink' = {}
  /\ UNCHANGED <<made, photos, avatars, bucket>>
=============================================================================
