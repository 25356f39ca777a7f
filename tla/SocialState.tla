----------------------------- MODULE SocialState -----------------------------
(***************************************************************************)
(* State and steps shared by the gateway's handlers about posts, comments, *)
(* likes, follows and avatars: its tables, the files service it calls, and *)
(* the requests in flight.                                                 *)
(***************************************************************************)
EXTENDS ListQueries, FilesService, Handlers

CONSTANTS
  Stranger,                        \* the id of nobody
  MaxPosts, MaxComments, MaxLikes, \* bounds on the rows ever created
  Scenes                           \* what a behaviour is about, see Init

VARIABLES
  tables,    \* the rows, see SocialTables
  now,
  broken,    \* history: posts of which an addition or a deletion failed
  feed,      \* what a reader has been shown so far, see Feeds
  scene      \* what this behaviour is about, and its bounds

vars == <<tables, now, broken, feed, scene, filesVars, handlerVars>>

Ops == {"addPost", "updatePost", "deletePost", "likePost", "comment", "answer",
        "likeComment", "follow", "unfollow", "deleteFollower", "uploadAvatar",
        "deleteAvatar", "page", "list"}

Kinds == {"public", "own", "followings"}

\* How getSanitizationQuery lets a feed be sorted; by another column it has
\* no cursor.
Sortings == [by : {"createdAt", "updatedAt"}, dir : {"asc", "desc"}]

\* The operations requested, the feeds and lists read; how many users, posts
\* with a photo and comments of the first post there are at first, and whether
\* everybody follows everybody; the bounds; whether users are banned.
ASSUME ScenesAssumption ==
  Scenes \subseteq [ops : SUBSET Ops, feeds : SUBSET (Kinds \X Sortings),
                    lists : SUBSET (ListKinds \X {"asc", "desc"} \X {1, 2}),
                    people : Nat, posts : Nat, comments : Nat, friends : BOOLEAN, moves : Nat, faults : Nat,
                    time : Nat, bans : BOOLEAN]
ASSUME SocialBounds ==
  {MaxFiles, MaxPosts, MaxComments, MaxLikes} \subseteq Nat /\ Stranger \notin Users

\* What there is at first keeps the bounds, and a comment has its post.
ASSUME ScenesFit ==
  \A s \in Scenes : /\ s.posts <= MaxPosts /\ (s.posts > 0 => MaxFiles > 0)
                    /\ (s.comments > 0 => s.posts > 0)

NoFeed == [open |-> FALSE]

\* Users' ids or dates of registration, where a list is sorted by them.
Numberings(people, kinds) ==
  {f \in [people -> 1..Cardinality(people)] :
     IF \E list \in scene.lists : list[1] \in kinds
     THEN \A u, v \in people : u # v => f[u] # f[v]
     ELSE \A u \in people : f[u] = 1}

\* Post i was made by some user at second i; its photo is in place.
Init ==
  /\ scene \in Scenes
  /\ \E people \in {U \in SUBSET Users : Cardinality(U) = scene.people} :
     \E owner \in [1..scene.posts -> people], commentator \in [1..scene.comments -> people],
        id \in Numberings(people, CursorKinds),
        place \in Numberings(people, ListKinds \ (CommentKinds \cup {"adminPosts", "search"})) :
       tables = [user |-> people, id |-> id, place |-> place,
                 post |-> [i \in 1..scene.posts |-> PostRow(owner[i], i, 1)],
                 comment |-> [i \in 1..scene.comments |->
                                CommentRow(commentator[i], 1, 0, scene.posts + i)],
                 like |-> <<>>, commentLike |-> <<>>,
                 follow |-> {pair \in people \X people : scene.friends /\ pair[1] # pair[2]},
                 banned |-> {}]
  /\ made = scene.posts /\ calls = {} /\ avatars = {} /\ unlink = {}
  /\ photos = {[post |-> i, key |-> i] : i \in 1..scene.posts}
  /\ bucket = 1..scene.posts
  /\ now = scene.posts + scene.comments /\ broken = {} /\ feed = NoFeed
  /\ HandlersInit(scene.moves, scene.faults)

Arg(h) == job[h].arg
Got(h, name) == job[h].got[name]

\* A request of the scene, where a feed or list is opened first.  It is alone only if
\* no call is left behind either.
Ask(h, op, arg, pc, todo) ==
  /\ op \in scene.ops /\ (scene.feeds \cup scene.lists = {} \/ feed.open)
  /\ Start(h, [Request(op, arg, pc, todo) EXCEPT !.alone = calls = {} /\ unlink = {}])
  /\ UNCHANGED <<tables, now, broken, feed, scene, filesVars>>

\* A read: one of the values it may return.
Read(h, name, values, pc) ==
  /\ \E v \in values : Learn(h, name, v, pc)
  /\ UNCHANGED <<tables, now, broken, feed, scene, filesVars>>

\* A result, as the endpoint answers it.
Answer(h, endpoint, result) ==
  /\ Reply(h, Switch(endpoint, result))
  /\ UNCHANGED <<tables, now, broken, feed, scene, filesVars>>

\* Calls of the files service.
CallFiles(h, name, value, n, op, about, pc) ==
  /\ Expect(h, name, value, made + 1 .. made + n)
  /\ Send(n, op, about, pc)
  /\ UNCHANGED <<now, broken, feed, scene>>

\* Posts a request in flight is adding or deleting.
PostInWork(h) ==
  CASE At(h, {"addPost"}, "calls") \/ At(h, {"addPost"}, "commit") -> {Got(h, "post").id}
    [] At(h, {"deletePost"}, "calls") \/ At(h, {"deletePost"}, "commit") -> {Arg(h).post}
    [] OTHER -> {}

\* Posts the feed would show in tables d.
Shown(d, f) ==
  {p \in Visible(d) :
     CASE f.kind = "public" -> TRUE
       [] f.kind = "own" -> d.post[p].owner = f.reader
       [] f.kind = "followings" -> isFollowing(d, f.reader, d.post[p].owner)}

StillShown(d) ==
  IF ~feed.open THEN feed
  ELSE IF feed.kind \in Kinds THEN [feed EXCEPT !.steady = @ \cap Shown(d, feed)]
  ELSE LET old == Lines(tables, feed)  new == Lines(d, feed) IN
       [feed EXCEPT !.steady = @ \cap {l.entry : l \in new},
                    !.came = @ \/ ~(new \subseteq old), !.went = @ \/ ~(old \subseteq new)]

\* The last write of a handler: its tables, or 500 and none of it.
Commit(h, new, endpoint) ==
  /\ tables' = IF new = Thrown THEN tables ELSE new
  /\ broken' = IF new = Thrown THEN broken \cup PostInWork(h) ELSE broken
  /\ feed' = IF new = Thrown THEN feed ELSE StillShown(new)
  /\ Reply(h, Switch(endpoint, IF new = Thrown THEN "Internal" ELSE "Success"))
  /\ UNCHANGED <<now, scene, filesVars>>

(***************************************************************************)
(* The answers of the files service, failures, the clock, bans.            *)
(***************************************************************************)

\* The first call of a Promise.all that fails ends the request with 500; the
\* others go on.
CallReturns(h, c) ==
  /\ Busy(h) /\ job[h].pc = "calls"
  /\ Answered(c) /\ c.no \in job[h].todo
  /\ calls' = calls \ {c}
  /\ \/ c.pc = "done" /\ Returned(h, c.no, "commit") /\ UNCHANGED broken
     \/ c.pc = "thrown" /\ Reply(h, "Internal") /\ broken' = broken \cup PostInWork(h)
     \/ c.pc = "lost" /\ Abandon(h) /\ broken' = broken \cup PostInWork(h)
  /\ UNCHANGED <<tables, now, feed, scene, made, photos, avatars, bucket, unlink>>

\* The caller waits no longer.
Unheard(c) ==
  /\ Answered(c)
  /\ \A h \in Slots : Busy(h) /\ job[h].pc = "calls" => c.no \notin job[h].todo
  /\ calls' = calls \ {c}
  /\ UNCHANGED <<tables, now, broken, feed, scene, made, photos, avatars, bucket, unlink,
                 handlerVars>>

\* An await fails or times out; a call goes on in the files service.
GatewayFails(h) ==
  /\ Fail(h)
  /\ broken' = broken \cup PostInWork(h)
  /\ UNCHANGED <<tables, now, feed, scene, filesVars>>

GatewayRestarts ==
  /\ Restart
  /\ broken' = broken \cup UNION {PostInWork(h) : h \in Slots}
  /\ UNCHANGED <<tables, now, feed, scene, filesVars>>

FilesFail ==
  /\ faults > 0 /\ faults' = faults - 1
  /\ FilesStop \/ \E c \in calls : CallFails(c)
  /\ UNCHANGED <<tables, now, broken, feed, scene, job, moves, oops>>

FilesRun ==
  /\ (\E c \in calls : CallStep(c)) \/ (\E k \in unlink : deleteImage(k))
  /\ UNCHANGED <<tables, now, broken, feed, scene, handlerVars>>

Tick ==
  /\ now < scene.time /\ now' = now + 1
  /\ UNCHANGED <<tables, broken, feed, scene, filesVars, handlerVars>>

\* An administrator bans or unbans a user.
Moderate(u) ==
  LET new == [tables EXCEPT !.banned = IF u \in @ THEN @ \ {u} ELSE @ \cup {u}] IN
  /\ scene.bans /\ moves > 0 /\ moves' = moves - 1
  /\ tables' = new /\ feed' = StillShown(new)
  /\ UNCHANGED <<now, broken, scene, filesVars, job, faults, oops>>

TypeOK ==
  /\ tables.post \in Seq(PostRows(now) \cup {Gone}) /\ Len(tables.post) <= MaxPosts
  /\ tables.comment \in Seq(CommentRows(now) \cup {Gone})
  /\ tables.like \in Seq(LikeRows \cup {Gone}) /\ tables.commentLike \in Seq(LikeRows \cup {Gone})
  /\ tables.user \subseteq Users
  /\ tables.follow \subseteq tables.user \X tables.user /\ tables.banned \subseteq tables.user
  /\ FilesTypeOK(1..MaxPosts, Users)
  /\ broken \subseteq 1..MaxPosts
  /\ HandlersTypeOK(Ops)
==============================================================================
