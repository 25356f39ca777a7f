----------------------------- MODULE SocialProofs -----------------------------
(* A user has one like of a post or comment unless his requests overlapped, *)
(* an avatar has its file unless something failed, and everything has its   *)
(* type, for every value of the constants of Social.                        *)
EXTENDS Social, SequenceTheorems, TLAPS

(***************************************************************************)
(* The two tables of likes, as the requests about them see them.           *)
(***************************************************************************)

LikeOps == {"likePost", "likeComment"}
Likes(d, op) == IF op = "likePost" THEN d.like ELSE d.commentLike
Liked(h) == IF job[h].op = "likePost" THEN Arg(h).post ELSE Arg(h).comment
OwnLikes(h) == LikesOf(Likes(tables, job[h].op), Liked(h), Arg(h).user)

IsSeq(s) == s \in Seq({s[i] : i \in DOMAIN s})

LikeFields == {"live", "user", "on", "status", "alone"}
AreLikes(table) == \A k \in LiveRows(table) : DOMAIN table[k] = LikeFields

TablesInv ==
  /\ {"user", "post", "comment", "like", "commentLike", "follow", "banned"} \subseteq DOMAIN tables
  /\ \A op \in LikeOps : IsSeq(Likes(tables, op)) /\ AreLikes(Likes(tables, op))

JobsInv ==
  /\ DOMAIN job = Slots
  /\ \A h \in Slots : Busy(h) =>
       DOMAIN job[h] = {"op", "arg", "pc", "todo", "got", "alone"} /\ job[h].alone \in BOOLEAN

\* Who is alone is the only one.
AloneInv == \A g, h \in Slots : Busy(g) /\ Busy(h) /\ g # h => ~job[g].alone

\* A request about a like reads before it writes; and if it is alone and has
\* read that the user has none, then he has none.
HasRead(h) ==
  Busy(h) /\ job[h].op \in LikeOps =>
    /\ job[h].pc \in {"find", "write"}
    /\ job[h].pc = "write" => "like" \notin job[h].todo
    /\ "like" \notin job[h].todo => "like" \in DOMAIN job[h].got
    /\ job[h].alone /\ "like" \notin job[h].todo /\ Got(h, "like").id = 0 => OwnLikes(h) = {}

ReadInv == \A h \in Slots : HasRead(h)

LikeInv == TablesInv /\ JobsInv /\ AloneInv /\ ReadInv /\ OneLikePerUser


(***************************************************************************)
(* Sequences.                                                              *)
(***************************************************************************)

LEMMA SeqDomain == ASSUME NEW s, IsSeq(s) PROVE Len(s) \in Nat /\ DOMAIN s = 1 .. Len(s)
BY LenProperties DEF IsSeq

\* A sequence changed within its domain.
LEMMA SeqChanged ==
  ASSUME NEW s, IsSeq(s), NEW t, t = [i \in DOMAIN s |-> t[i]]
  PROVE  IsSeq(t)
<1> DEFINE R == {t[i] : i \in DOMAIN t}
<1>1. Len(s) \in Nat /\ DOMAIN s = 1 .. Len(s)  BY SeqDomain
<1>2. DOMAIN t = 1 .. Len(s)  BY <1>1
<1>3. \A i \in DOMAIN t : t[i] \in R  OBVIOUS
<1>4. t \in [1 .. Len(s) -> R]  BY <1>1, <1>2, <1>3
<1>5. t \in Seq(R)  BY <1>1, <1>4, IsASeq
<1> QED BY <1>5 DEF IsSeq

LEMMA SeqAppended ==
  ASSUME NEW s, IsSeq(s), NEW e
  PROVE  /\ IsSeq(Append(s, e))
         /\ DOMAIN Append(s, e) = DOMAIN s \cup {Len(s) + 1} /\ Len(s) + 1 \notin DOMAIN s
         /\ \A i \in DOMAIN s : Append(s, e)[i] = s[i]
         /\ Append(s, e)[Len(s) + 1] = e
<1> DEFINE R == {s[i] : i \in DOMAIN s}  T == R \cup {e}  t == Append(s, e)
<1>1. s \in Seq(R) /\ Len(s) \in Nat /\ DOMAIN s = 1 .. Len(s)  BY SeqDomain DEF IsSeq
<1>2. s \in Seq(T)  BY <1>1, SeqMonotonic
<1>3. t \in Seq(T) /\ Len(t) = Len(s) + 1  BY <1>2
<1>4. \A i \in 1 .. Len(s) : t[i] = s[i]  BY <1>2
<1>5. t[Len(s) + 1] = e  BY <1>2
<1>6. DOMAIN t = 1 .. Len(s) + 1  BY <1>3, LenProperties
<1>7. T = {t[i] : i \in DOMAIN t}
  BY <1>1, <1>4, <1>5, <1>6
<1> HIDE DEF T, t
<1>8. IsSeq(t)  BY <1>3, <1>7 DEF IsSeq
<1> QED BY <1>1, <1>4, <1>5, <1>6, <1>8 DEF t

(***************************************************************************)
(* What a step does to the requests.                                       *)
(***************************************************************************)

Fields == {"op", "arg", "pc", "todo", "got", "alone"}

\* A request about something else goes on, or a request ends.
GoesOn(h) ==
  /\ Busy(h)
  /\ job' = [job EXCEPT ![h] = job'[h]]
  /\ \/ job'[h] = Idle
     \/ /\ DOMAIN job'[h] = Fields
        /\ job'[h].op = job[h].op /\ job[h].op \notin LikeOps
        /\ job'[h].arg = job[h].arg /\ job'[h].alone = job[h].alone

\* A request about a like reads a thing more.
ReadsMore(h) ==
  /\ Busy(h) /\ job[h].op \in LikeOps /\ job[h].pc = "find"
  /\ \E name, value :
       /\ Learn(h, name, value, "write")
       /\ name \in job[h].todo
       /\ name = "like" /\ value.id = 0 => OwnLikes(h) = {}

\* A request begins.
Begins(h) ==
  /\ ~Busy(h)
  /\ DOMAIN job' = Slots
  /\ DOMAIN job'[h] = Fields /\ job'[h].alone \in BOOLEAN
  /\ job'[h].op \in LikeOps => job'[h].pc = "find" /\ "like" \in job'[h].todo
  /\ job'[h].op = "addPost" => job'[h].arg.files \in Nat
  /\ job'[h].pc \notin {"calls", "commit"}
  /\ job'[h].alone => \A g \in Slots : ~Busy(g)
  /\ \A g \in Slots \ {h} :
       job'[g] = IF Busy(g) THEN [job[g] EXCEPT !.alone = FALSE] ELSE Idle

USE DEF LikeOps

LEMMA RequestBegins ==
  ASSUME NEW h \in Slots, NEW op, NEW arg, NEW pc, NEW todo, Ask(h, op, arg, pc, todo),
         op \in LikeOps => pc = "find" /\ "like" \in todo,
         pc \notin {"calls", "commit"},
         op = "addPost" => arg.files \in Nat
  PROVE  Begins(h)
BY DEF Ask, Start, Request, Begins, Fields, Busy, Idle

LEMMA RequestsBegin ==
  ASSUME NEW h \in Slots
  PROVE  /\ PostRequests(h) \/ FollowingRequests(h) => Begins(h) /\ UNCHANGED tables
         /\ FeedRequests(h) \/ ListRequests(h) =>
              (Begins(h) \/ UNCHANGED job) /\ UNCHANGED tables
<1>1. PostRequests(h) \/ FollowingRequests(h) => Begins(h) /\ UNCHANGED tables
  <2>1. \A dto \in AddPostDtos : dto.files \in Nat  BY SocialBounds DEF AddPostDtos
  <2>2. ASSUME NEW op, NEW arg, Ask(h, op, arg, "find", {}), op \notin LikeOps,
               op = "addPost" => arg.files \in Nat
        PROVE  Begins(h) /\ UNCHANGED tables
    BY <2>2, RequestBegins DEF Ask
  <2>3. ASSUME NEW op \in LikeOps, NEW arg, NEW todo, Ask(h, op, arg, "find", todo), "like" \in todo
        PROVE  Begins(h) /\ UNCHANGED tables
    BY <2>3, RequestBegins DEF Ask
  <2>4. CASE PostRequests(h)
    <3>1. ASSUME NEW dto \in AddPostDtos, Ask(h, "addPost", dto, "find", {})
          PROVE  Begins(h) /\ UNCHANGED tables
      BY <2>1, <2>2, <3>1
    <3>2. ASSUME NEW u, NEW p, NEW op \in {"updatePost", "deletePost", "comment"},
                 Ask(h, op, [user |-> u, post |-> p], "find", {})
          PROVE  Begins(h) /\ UNCHANGED tables
      BY <2>2, <3>2
    <3>3. ASSUME NEW u, NEW p, Ask(h, "likePost", [user |-> u, post |-> p], "find", {"post", "like"})
          PROVE  Begins(h) /\ UNCHANGED tables
      BY <2>3, <3>3
    <3>4. ASSUME NEW u, NEW c, Ask(h, "answer", [user |-> u, comment |-> c], "find", {})
          PROVE  Begins(h) /\ UNCHANGED tables
      BY <2>2, <3>4
    <3>5. ASSUME NEW u, NEW c, NEW s,
                 Ask(h, "likeComment", [user |-> u, comment |-> c, status |-> s], "find",
                     {"comment", "like"})
          PROVE  Begins(h) /\ UNCHANGED tables
      BY <2>3, <3>5
    <3> QED BY <2>4, <3>1, <3>2, <3>3, <3>4, <3>5 DEF PostRequests
  <2>5. CASE FollowingRequests(h)
    BY <2>2, <2>5 DEF FollowingRequests, FollowOps, AvatarOps
  <2> QED BY <2>4, <2>5
<1>2. ASSUME FeedRequests(h) PROVE (Begins(h) \/ UNCHANGED job) /\ UNCHANGED tables
  <2>1. CASE PageRequest(h)
    <3>1. Ask(h, "page", [last |-> feed.last], "followees", {})  BY <2>1 DEF PageRequest
    <3> QED BY <3>1, RequestBegins DEF Ask
  <2> QED BY <1>2, <2>1 DEF FeedRequests, OpenFeed, handlerVars
<1>3. ASSUME ListRequests(h) PROVE (Begins(h) \/ UNCHANGED job) /\ UNCHANGED tables
  <2>1. ASSUME NEW pc \in {"find", "rows"}, Ask(h, "list", [page |-> feed.page], pc, {})
        PROVE  Begins(h) /\ UNCHANGED tables
    BY <2>1, RequestBegins DEF Ask
  <2>2. CASE ListRequest(h)  BY <2>1, <2>2 DEF ListRequest
  <2> QED BY <1>3, <2>2 DEF ListRequests, OpenList, handlerVars
<1> QED BY <1>1, <1>2, <1>3

\* The ways a handler takes a step.
LEMMA StepsGoOn ==
  ASSUME JobsInv, NEW h \in Slots, Busy(h)
  PROVE  /\ \A answer : Reply(h, answer) => GoesOn(h)
         /\ Abandon(h) \/ Fail(h) => GoesOn(h)
         /\ job[h].op \notin LikeOps =>
              /\ \A name, value, pc : Learn(h, name, value, pc) => GoesOn(h)
              /\ \A name, value, todo : Expect(h, name, value, todo) => GoesOn(h)
              /\ \A call, pc : Returned(h, call, pc) => GoesOn(h)
<1>1. DOMAIN job = Slots /\ DOMAIN job[h] = Fields  BY DEF JobsInv, Fields
<1>2. \A answer : Reply(h, answer) => GoesOn(h)  BY <1>1 DEF Reply, GoesOn
<1>3. Abandon(h) \/ Fail(h) => GoesOn(h)  BY <1>1 DEF Abandon, Fail, GoesOn
<1>4. ASSUME job[h].op \notin LikeOps, NEW name, NEW value, NEW pc, Learn(h, name, value, pc)
      PROVE  GoesOn(h)
  BY <1>1, <1>4 DEF Learn, GoesOn, Fields
<1>5. ASSUME job[h].op \notin LikeOps, NEW name, NEW value, NEW todo, Expect(h, name, value, todo)
      PROVE  GoesOn(h)
  BY <1>1, <1>5 DEF Expect, GoesOn, Fields
<1>6. ASSUME job[h].op \notin LikeOps, NEW call, NEW pc, Returned(h, call, pc)
      PROVE  GoesOn(h)
  BY <1>1, <1>6 DEF Returned, GoesOn, Fields
<1> QED BY <1>2, <1>3, <1>4, <1>5, <1>6

LEMMA ZeroIsNoLike == ASSUME TablesInv, NEW h \in Slots, Busy(h) PROVE 0 \notin OwnLikes(h)
BY SeqDomain DEF TablesInv, OwnLikes, LikesOf, LikesOn, LiveRows, Likes

LEMMA LikesAreRead ==
  ASSUME TablesInv, NEW h \in Slots, LikeReads(h)
  PROVE  ReadsMore(h) /\ UNCHANGED tables
<1> USE DEF At, Read
<1>1. Busy(h)  BY DEF LikeReads
<1>2. ASSUME NEW value, value.id = 0,
             \/ job[h].op = "likePost"
                /\ value \in LikeRead(tables.like, getLikeByPostIdAndUserId(tables, Arg(h).post, Arg(h).user))
             \/ job[h].op = "likeComment"
                /\ value \in LikeRead(tables.commentLike,
                                      getLikeByCommentIdAndUserId(tables, Arg(h).comment, Arg(h).user))
      PROVE  OwnLikes(h) = {}
  <2>1. value \in LikeRead(Likes(tables, job[h].op), FindFirst(OwnLikes(h)))
    BY <1>2 DEF getLikeByPostIdAndUserId, getLikeByCommentIdAndUserId, OwnLikes, Likes, Liked
  <2>2. PICK k \in FindFirst(OwnLikes(h)) :
          value = IF k = 0 THEN [id |-> 0] ELSE [id |-> k, status |-> Likes(tables, job[h].op)[k].status]
    BY <2>1 DEF LikeRead
  <2>3. k = 0  BY <1>2, <2>2
  <2> QED BY <1>1, <2>2, <2>3, ZeroIsNoLike DEF FindFirst
<1>3. CASE /\ At(h, {"likePost"}, "find") /\ "post" \in job[h].todo
           /\ Read(h, "post", {getPostById(tables, Arg(h).post)}, "write")
  BY <1>3 DEF ReadsMore
<1>4. CASE /\ At(h, {"likePost"}, "find") /\ "like" \in job[h].todo
           /\ Read(h, "like", LikeRead(tables.like,
                     getLikeByPostIdAndUserId(tables, Arg(h).post, Arg(h).user)), "write")
  BY <1>2, <1>4 DEF ReadsMore
<1>5. CASE /\ At(h, {"likeComment"}, "find") /\ "comment" \in job[h].todo
           /\ Read(h, "comment", {getCommentById(tables, Arg(h).comment)}, "write")
  BY <1>5 DEF ReadsMore
<1>6. CASE /\ At(h, {"likeComment"}, "find") /\ "like" \in job[h].todo
           /\ Read(h, "like", LikeRead(tables.commentLike,
                     getLikeByCommentIdAndUserId(tables, Arg(h).comment, Arg(h).user)), "write")
  BY <1>2, <1>6 DEF ReadsMore
<1> QED BY <1>3, <1>4, <1>5, <1>6 DEF LikeReads

(***************************************************************************)
(* What a step does to the tables of likes.                                *)
(***************************************************************************)

\* Rows go, or change in what does not tell whose they are.
Trims(old, new) ==
  /\ new = [k \in DOMAIN old |-> new[k]]
  /\ \A k \in DOMAIN old :
       new[k].live => /\ old[k].live /\ DOMAIN new[k] = DOMAIN old[k]
                      /\ new[k].user = old[k].user
                      /\ new[k].on = old[k].on /\ new[k].alone = old[k].alone

\* The request of h ends with a new like in the table op is about.
Inserts(h, op, d) ==
  /\ At(h, {op}, "write") /\ Got(h, "like").id = 0
  /\ DOMAIN d = DOMAIN tables
  /\ \A other \in LikeOps \ {op} : Trims(Likes(tables, other), Likes(d, other))
  /\ \E status : Likes(d, op) =
       Append(Likes(tables, op), NewLike(Liked(h), Arg(h).user, status, job[h].alone))

\* From the tables as they are to tables d.
Follows(d) ==
  /\ DOMAIN d = DOMAIN tables
  /\ \A op \in LikeOps : Trims(Likes(tables, op), Likes(d, op))

LEMMA SameLikes ==
  ASSUME TablesInv, NEW d, DOMAIN d = DOMAIN tables,
         d.like = tables.like, d.commentLike = tables.commentLike
  PROVE  Follows(d)
<1>1. ASSUME NEW op \in LikeOps PROVE Trims(Likes(tables, op), Likes(d, op))
  <2>1. Likes(d, op) = Likes(tables, op) /\ IsSeq(Likes(tables, op))
    BY DEF TablesInv, Likes
  <2> QED BY <2>1 DEF IsSeq, Trims
<1> QED BY <1>1 DEF Follows

LEMMA DeletionTrims ==
  ASSUME NEW old, NEW gone
  PROVE  Trims(old, DeleteRows(old, gone))
BY DEF Trims, DeleteRows, Gone

LEMMA StatusTrims ==
  ASSUME NEW old, IsSeq(old), AreLikes(old), NEW k \in LiveRows(old), NEW status
  PROVE  Trims(old, [old EXCEPT ![k].status = status])
<1> DEFINE row == [old[k] EXCEPT !.status = status]  new == [old EXCEPT ![k] = row]
<1>1. k \in DOMAIN old /\ old[k].live /\ DOMAIN old[k] = LikeFields  BY DEF AreLikes, LiveRows
<1>2. /\ DOMAIN row = DOMAIN old[k]
      /\ row.live = old[k].live /\ row.user = old[k].user
      /\ row.on = old[k].on /\ row.alone = old[k].alone
  BY <1>1 DEF LikeFields
<1>3. DOMAIN new = DOMAIN old /\ \A i \in DOMAIN old : new[i] = IF i = k THEN row ELSE old[i]
  BY <1>1
<1>4. new = [i \in DOMAIN old |-> new[i]]  OBVIOUS
<1> HIDE DEF row
<1> QED BY <1>1, <1>2, <1>3, <1>4 DEF Trims, row

\* A write yields tables that follow, or does not come about.
LEMMA CommitFollows ==
  ASSUME TablesInv, NEW h \in Slots, NEW endpoint, NEW new, Commit(h, new, endpoint),
         new = Thrown \/ Follows(new)
  PROVE  Follows(tables')
<1>1. Follows(tables)  BY SameLikes
<1> QED BY <1>1 DEF Commit

LEMMA StatementFollows ==
  ASSUME TablesInv, NEW ok, NEW d, ok => Follows(d)
  PROVE  Statement(tables, ok, d) = Thrown \/ Follows(Statement(tables, ok, d))
BY DEF Statement

LEMMA FieldsChange ==
  ASSUME TablesInv
  PROVE  /\ \A p, row : Follows([tables EXCEPT !.post[p] = row])
         /\ \A p, date : Follows([tables EXCEPT !.post[p].updated = date])
         /\ \A posts : Follows([tables EXCEPT !.post = posts])
         /\ \A comments : Follows([tables EXCEPT !.comment = comments])
         /\ \A pairs : Follows([tables EXCEPT !.follow = pairs])
         /\ \A users : Follows([tables EXCEPT !.banned = users])
<1>1. \A name \in {"post", "comment", "follow", "banned"} : \A value :
        Follows([tables EXCEPT ![name] = value])
  <2> SUFFICES ASSUME NEW name \in {"post", "comment", "follow", "banned"}, NEW value
               PROVE  Follows([tables EXCEPT ![name] = value])
    OBVIOUS
  <2> DEFINE d == [tables EXCEPT ![name] = value]
  <2>1. DOMAIN d = DOMAIN tables /\ d.like = tables.like /\ d.commentLike = tables.commentLike
    BY DEF TablesInv
  <2> HIDE DEF d
  <2>2. Follows(d)  BY <2>1, SameLikes
  <2> QED BY <2>2 DEF d
<1> QED BY <1>1

LEMMA DeletionFollows ==
  ASSUME TablesInv, NEW p
  PROVE  deletePost(tables, p) = Thrown \/ Follows(deletePost(tables, p))
<1> DEFINE gone == {c \in LiveRows(tables.comment) : tables.comment[c].post = p}
           d == [tables EXCEPT
             !.post[p] = Gone,
             !.comment = DeleteRows(@, gone),
             !.like = DeleteRows(@, LikesOn(tables.like, p)),
             !.commentLike = DeleteRows(@, UNION {LikesOn(tables.commentLike, c) : c \in gone})]
<1>1. /\ DOMAIN d = DOMAIN tables
      /\ d.like = DeleteRows(tables.like, LikesOn(tables.like, p))
      /\ d.commentLike = DeleteRows(tables.commentLike,
                                    UNION {LikesOn(tables.commentLike, c) : c \in gone})
  BY DEF TablesInv
<1>2. deletePost(tables, p) = Statement(tables, IsRow(tables.post, p), d)  BY DEF deletePost
<1> HIDE DEF d, gone
<1>3. Follows(d)  BY <1>1, DeletionTrims DEF Follows, Likes
<1> QED BY <1>2, <1>3, StatementFollows

LEMMA UpdateFollows ==
  ASSUME TablesInv, NEW k, NEW status
  PROVE  /\ updateLike(tables, k, status) = Thrown \/ Follows(updateLike(tables, k, status))
         /\ updateCommentLike(tables, k, status) = Thrown
              \/ Follows(updateCommentLike(tables, k, status))
<1>1. ASSUME IsRow(tables.like, k) PROVE Follows([tables EXCEPT !.like[k].status = status])
  <2> DEFINE new == [tables.like EXCEPT ![k].status = status]  d == [tables EXCEPT !.like = new]
  <2>1. Trims(tables.like, new) /\ IsSeq(tables.commentLike)
    BY <1>1, StatusTrims DEF TablesInv, Likes, IsRow
  <2> HIDE DEF new
  <2>2. DOMAIN d = DOMAIN tables /\ d.like = new /\ d.commentLike = tables.commentLike
    BY DEF TablesInv
  <2>3. Trims(tables.commentLike, tables.commentLike)  BY <2>1 DEF Trims, IsSeq
  <2>4. Follows(d)  BY <2>1, <2>2, <2>3 DEF Follows, Likes
  <2> QED BY <2>4 DEF new
<1>2. ASSUME IsRow(tables.commentLike, k)
      PROVE  Follows([tables EXCEPT !.commentLike[k].status = status])
  <2> DEFINE new == [tables.commentLike EXCEPT ![k].status = status]
             d == [tables EXCEPT !.commentLike = new]
  <2>1. Trims(tables.commentLike, new) /\ IsSeq(tables.like)
    BY <1>2, StatusTrims DEF TablesInv, Likes, IsRow
  <2> HIDE DEF new
  <2>2. DOMAIN d = DOMAIN tables /\ d.commentLike = new /\ d.like = tables.like
    BY DEF TablesInv
  <2>3. Trims(tables.like, tables.like)  BY <2>1 DEF Trims, IsSeq
  <2>4. Follows(d)  BY <2>1, <2>2, <2>3 DEF Follows, Likes
  <2> QED BY <2>4 DEF new
<1> QED BY <1>1, <1>2, StatementFollows DEF updateLike, updateCommentLike

\* One of the ways in which a handler writes.
Writes(h) ==
  \/ Follows(tables')
  \/ /\ job'[h] = Idle
     /\ \E op \in LikeOps : Inserts(h, op, tables')

LEMMA LikeIsWritten ==
  ASSUME TablesInv, JobsInv, NEW h \in Slots, LikePostEnds(h) \/ LikeCommentEnds(h)
  PROVE  GoesOn(h) /\ Writes(h)
<1>1. Busy(h) /\ job[h].op \in LikeOps /\ job[h].pc = "write" /\ DOMAIN job = Slots
  BY DEF LikePostEnds, LikeCommentEnds, At, JobsInv
<1>2. /\ Follows(tables)
      /\ \A op \in LikeOps : Trims(Likes(tables, op), Likes(tables, op))
  BY SameLikes DEF Follows
<1>3. CASE LikePostEnds(h)
  <2>1. job[h].op = "likePost"  BY <1>3 DEF LikePostEnds, At
  <2>2. CASE Answer(h, likePostResults, "NotFound")
    BY <1>1, <1>2, <2>2, StepsGoOn DEF Answer, Writes
  <2>3. CASE Commit(h, NewOrToggled(h), likePostResults)
    <3>1. GoesOn(h) /\ job'[h] = Idle  BY <1>1, <2>3, StepsGoOn DEF Commit, Reply
    <3>2. CASE Got(h, "like").id = 0
      <4> DEFINE d == [tables EXCEPT !.like =
                         Append(@, NewLike(Arg(h).post, Arg(h).user, "like", job[h].alone))]
      <4>1. /\ DOMAIN d = DOMAIN tables /\ d.commentLike = tables.commentLike
            /\ d.like = Append(tables.like, NewLike(Arg(h).post, Arg(h).user, "like", job[h].alone))
        BY DEF TablesInv
      <4> HIDE DEF d
      <4>2. Inserts(h, "likePost", d)
        BY <1>1, <1>2, <2>1, <3>2, <4>1 DEF Inserts, At, Likes, Liked
      <4>3. NewOrToggled(h) = Thrown \/ NewOrToggled(h) = d
        BY <3>2 DEF NewOrToggled, addLike, Statement, d
      <4> QED BY <1>2, <2>3, <3>1, <4>2, <4>3 DEF Commit, Writes
    <3>3. CASE Got(h, "like").id # 0
      <4>1. NewOrToggled(h) = Thrown \/ Follows(NewOrToggled(h))
        BY <3>3, UpdateFollows DEF NewOrToggled
      <4> QED BY <2>3, <3>1, <4>1, CommitFollows DEF Writes
    <3> QED BY <3>2, <3>3
  <2> QED BY <1>3, <2>2, <2>3 DEF LikePostEnds
<1>4. CASE LikeCommentEnds(h)
  <2>1. job[h].op = "likeComment"  BY <1>4 DEF LikeCommentEnds, At
  <2>2. CASE \/ Answer(h, likeCommentResults, "NotFound")
             \/ Answer(h, likeCommentResults, "Success")
    BY <1>1, <1>2, <2>2, StepsGoOn DEF Answer, Writes
  <2>3. CASE /\ Got(h, "like").id = 0
             /\ Commit(h, addCommentLike(tables, Arg(h).comment, Arg(h).user, Arg(h).status,
                                         job[h].alone), likeCommentResults)
    <3> DEFINE like == NewLike(Arg(h).comment, Arg(h).user, Arg(h).status, job[h].alone)
               d == [tables EXCEPT !.commentLike = Append(@, like)]
               new == addCommentLike(tables, Arg(h).comment, Arg(h).user, Arg(h).status,
                                     job[h].alone)
    <3>1. GoesOn(h) /\ job'[h] = Idle  BY <1>1, <2>3, StepsGoOn DEF Commit, Reply
    <3>2. /\ DOMAIN d = DOMAIN tables /\ d.like = tables.like
          /\ d.commentLike = Append(tables.commentLike, like)
      BY DEF TablesInv
    <3>3. new = Thrown \/ new = d  BY DEF addCommentLike, Statement
    <3> HIDE DEF d, new
    <3>4. Inserts(h, "likeComment", d)
      BY <1>1, <1>2, <2>1, <2>3, <3>2 DEF Inserts, At, Likes, Liked
    <3>5. Commit(h, new, likeCommentResults)  BY <2>3 DEF new
    <3> QED BY <1>2, <3>1, <3>3, <3>4, <3>5 DEF Commit, Writes
  <2>4. CASE Commit(h, updateCommentLike(tables, Got(h, "like").id, Arg(h).status), likeCommentResults)
    <3>1. GoesOn(h)  BY <1>1, <2>4, StepsGoOn DEF Commit
    <3> QED BY <2>4, <3>1, UpdateFollows, CommitFollows DEF Writes
  <2> QED BY <1>4, <2>2, <2>3, <2>4 DEF LikeCommentEnds
<1> QED BY <1>3, <1>4

\* Every other step of a handler leaves the likes, or deletes their post.
LEMMA OtherSteps ==
  ASSUME TablesInv, JobsInv, NEW h \in Slots,
         \/ PostSteps(h) /\ ~LikeReads(h) /\ ~LikePostEnds(h) /\ ~LikeCommentEnds(h)
         \/ FollowingSteps(h) \/ FeedSteps(h) \/ ListSteps(h)
  PROVE  GoesOn(h) /\ Follows(tables')
<1>1. Follows(tables)  BY SameLikes
<1>2. ASSUME Busy(h), job[h].op \notin LikeOps, NEW name, NEW values, NEW pc,
             Read(h, name, values, pc)
      PROVE  GoesOn(h) /\ Follows(tables')
  BY <1>1, <1>2, StepsGoOn DEF Read
<1>3. ASSUME Busy(h), NEW endpoint, NEW result, Answer(h, endpoint, result)
      PROVE  GoesOn(h) /\ Follows(tables')
  BY <1>1, <1>3, StepsGoOn DEF Answer
<1>4. ASSUME Busy(h), NEW new, NEW endpoint, Commit(h, new, endpoint),
             new = Thrown \/ Follows(new)
      PROVE  GoesOn(h) /\ Follows(tables')
  BY <1>4, CommitFollows, StepsGoOn DEF Commit
<1>5. ASSUME Busy(h), job[h].op \notin LikeOps, NEW name, NEW value, NEW n, NEW op, NEW about,
             NEW pc, CallFiles(h, name, value, n, op, about, pc)
      PROVE  GoesOn(h)
  BY <1>5, StepsGoOn DEF CallFiles
<1>6. ASSUME AddPostFinds(h) \/ UpdatePostFinds(h) PROVE GoesOn(h) /\ Follows(tables')
  BY <1>2, <1>3, <1>6 DEF AddPostFinds, UpdatePostFinds, At
<1>7. ASSUME AddPostUploads(h) PROVE GoesOn(h) /\ Follows(tables')
  BY <1>5, <1>7, FieldsChange DEF AddPostUploads, At
<1>8. ASSUME AddPostEnds(h) PROVE GoesOn(h) /\ Follows(tables')
  BY <1>4, <1>8, FieldsChange, StatementFollows DEF AddPostEnds, At, addPost
<1>9. ASSUME UpdatePostEnds(h) PROVE GoesOn(h) /\ Follows(tables')
  BY <1>4, <1>9, FieldsChange, StatementFollows DEF UpdatePostEnds, At, updatePost
<1>10. ASSUME DeletePostFinds(h) PROVE GoesOn(h) /\ Follows(tables')
  BY <1>1, <1>3, <1>5, <1>10 DEF DeletePostFinds, At
<1>11. ASSUME DeletePostEnds(h) PROVE GoesOn(h) /\ Follows(tables')
  BY <1>4, <1>11, DeletionFollows DEF DeletePostEnds, At
<1>12. ASSUME CommentReads(h) PROVE GoesOn(h) /\ Follows(tables')
  BY <1>2, <1>3, <1>12 DEF CommentReads, At
<1>13. ASSUME CommentEnds(h) \/ AnswerEnds(h) PROVE GoesOn(h) /\ Follows(tables')
  BY <1>4, <1>13, FieldsChange, StatementFollows DEF CommentEnds, AnswerEnds, At, addComment
<1>14. ASSUME FollowFinds(h) \/ FollowChecks(h) PROVE GoesOn(h) /\ Follows(tables')
  BY <1>2, <1>3, <1>14 DEF FollowFinds, FollowChecks, At, FollowOps
<1>15. ASSUME FollowEnds(h) \/ UnfollowEnds(h) PROVE GoesOn(h) /\ Follows(tables')
  BY <1>4, <1>15, FieldsChange, StatementFollows
     DEF FollowEnds, UnfollowEnds, At, createFollow, deleteFollow
<1>16. ASSUME AvatarFinds(h) \/ AvatarEnds(h) PROVE GoesOn(h) /\ Follows(tables')
  BY <1>1, <1>3, <1>5, <1>16 DEF AvatarFinds, AvatarEnds, At, AvatarOps
<1>17. ASSUME PageFollowees(h) \/ PageCursor(h) PROVE GoesOn(h) /\ Follows(tables')
  BY <1>2, <1>17 DEF PageFollowees, PageCursor, At
<1>18. ASSUME PageReads(h) \/ PageEnds(h) PROVE GoesOn(h) /\ Follows(tables')
  BY <1>1, <1>18, StepsGoOn DEF PageReads, PageEnds, At
<1>19. ASSUME CommentsFind(h) \/ AnswersFind(h) PROVE GoesOn(h) /\ Follows(tables')
  BY <1>2, <1>3, <1>19 DEF CommentsFind, AnswersFind, FindOrAnswer, At
<1>20. ASSUME ShowPage(h) PROVE GoesOn(h) /\ Follows(tables')
  BY <1>1, <1>20, StepsGoOn DEF ShowPage, At
<1> QED
  BY <1>6, <1>7, <1>8, <1>9, <1>10, <1>11, <1>12, <1>13, <1>14, <1>15, <1>16, <1>17, <1>18,
     <1>19, <1>20
  DEF PostSteps, FollowingSteps, FeedSteps, ListSteps, CommentsRead, AnswersRead, FollowersRead,
      FollowingRead, SearchRead, AdminListsRead

(***************************************************************************)
(* Every step.                                                             *)
(***************************************************************************)

\* The requests go on, begin, or are all dropped; nobody else writes.
StepOf(h) ==
  \/ GoesOn(h) /\ Writes(h)
  \/ ReadsMore(h) /\ Follows(tables')
  \/ Begins(h) /\ Follows(tables')

LEMMA Steps ==
  ASSUME TablesInv, JobsInv, ReadInv, [Next]_vars
  PROVE  \/ \E h \in Slots : StepOf(h)
         \/ UNCHANGED job /\ Follows(tables')
         \/ job' = [h \in Slots |-> Idle] /\ Follows(tables')
<1>1. Follows(tables)  BY SameLikes
<1>2. ASSUME NEW h \in Slots,
             \/ PostRequests(h) \/ FollowingRequests(h) \/ FeedRequests(h) \/ ListRequests(h)
      PROVE  StepOf(h) \/ (UNCHANGED job /\ Follows(tables'))
  BY <1>1, <1>2, RequestsBegin DEF StepOf
<1>3. ASSUME NEW h \in Slots,
             PostSteps(h) \/ FollowingSteps(h) \/ FeedSteps(h) \/ ListSteps(h)
      PROVE  StepOf(h)
  <2>1. CASE LikeReads(h)  BY <1>1, <2>1, LikesAreRead DEF StepOf
  <2>2. CASE LikePostEnds(h) \/ LikeCommentEnds(h)  BY <2>2, LikeIsWritten DEF StepOf
  <2>3. CASE ~LikeReads(h) /\ ~LikePostEnds(h) /\ ~LikeCommentEnds(h)
    BY <1>3, <2>3, OtherSteps DEF StepOf, Writes
  <2> QED BY <2>1, <2>2, <2>3
<1>4. ASSUME NEW h \in Slots, NEW c \in calls, CallReturns(h, c) PROVE StepOf(h)
  <2>1. job[h].op \notin LikeOps  BY <1>4 DEF CallReturns, ReadInv, HasRead
  <2>2. GoesOn(h)  BY <1>4, <2>1, StepsGoOn DEF CallReturns
  <2> QED BY <1>1, <1>4, <2>2 DEF CallReturns, StepOf, Writes
<1>5. ASSUME NEW h \in Slots, GatewayFails(h) PROVE StepOf(h)
  <2>1. GoesOn(h)  BY <1>5, StepsGoOn DEF GatewayFails, Fail
  <2> QED BY <1>1, <1>5, <2>1 DEF GatewayFails, StepOf, Writes
<1>6. ASSUME NEW c \in calls, Unheard(c) PROVE UNCHANGED job /\ Follows(tables')
  BY <1>1, <1>6 DEF Unheard, handlerVars
<1>7. ASSUME FilesRun \/ FilesFail \/ Tick PROVE UNCHANGED job /\ Follows(tables')
  BY <1>1, <1>7 DEF FilesRun, FilesFail, Tick, handlerVars
<1>8. ASSUME GatewayRestarts PROVE job' = [h \in Slots |-> Idle] /\ Follows(tables')
  BY <1>1, <1>8 DEF GatewayRestarts, Restart
<1>9. ASSUME NEW u \in tables.user, Moderate(u) PROVE UNCHANGED job /\ Follows(tables')
  BY <1>9, FieldsChange DEF Moderate
<1>10. CASE UNCHANGED vars  BY <1>1, <1>10 DEF vars, handlerVars
<1> QED BY <1>2, <1>3, <1>4, <1>5, <1>6, <1>7, <1>8, <1>9, <1>10 DEF Next

LEMMA FollowsKeeps ==
  ASSUME TablesInv, NEW d, Follows(d), NEW op \in LikeOps
  PROVE  /\ IsSeq(Likes(d, op)) /\ AreLikes(Likes(d, op))
         /\ \A i, u : LikesOf(Likes(d, op), i, u) \subseteq LikesOf(Likes(tables, op), i, u)
<1>1. Trims(Likes(tables, op), Likes(d, op)) /\ IsSeq(Likes(tables, op)) /\ AreLikes(Likes(tables, op))
  BY DEF Follows, TablesInv
<1>2. IsSeq(Likes(d, op))  BY <1>1, SeqChanged DEF Trims
<1> QED BY <1>1, <1>2 DEF Trims, AreLikes, LikesOf, LikesOn, LiveRows

LEMMA JobsNext ==
  ASSUME TablesInv, JobsInv, ReadInv, [Next]_vars
  PROVE  JobsInv'
<1>1. ASSUME NEW h \in Slots, GoesOn(h) PROVE JobsInv'
  BY <1>1 DEF GoesOn, JobsInv, Busy, Fields
<1>2. ASSUME NEW h \in Slots, ReadsMore(h) PROVE JobsInv'
  BY <1>2 DEF ReadsMore, Learn, JobsInv, Busy
<1>3. ASSUME NEW h \in Slots, Begins(h) PROVE JobsInv'
  BY <1>3 DEF Begins, JobsInv, Busy, Fields
<1>4. ASSUME UNCHANGED job PROVE JobsInv'  BY <1>4 DEF JobsInv, Busy
<1>5. ASSUME job' = [h \in Slots |-> Idle] PROVE JobsInv'  BY <1>5 DEF JobsInv, Busy
<1> QED BY <1>1, <1>2, <1>3, <1>4, <1>5, Steps DEF StepOf

LEMMA AloneNext ==
  ASSUME TablesInv, JobsInv, ReadInv, AloneInv, [Next]_vars
  PROVE  AloneInv'
<1>1. ASSUME NEW h \in Slots, GoesOn(h) PROVE AloneInv'
  BY <1>1 DEF GoesOn, JobsInv, AloneInv, Busy, Fields
<1>2. ASSUME NEW h \in Slots, ReadsMore(h) PROVE AloneInv'
  BY <1>2 DEF ReadsMore, Learn, JobsInv, AloneInv, Busy
<1>3. ASSUME NEW h \in Slots, Begins(h) PROVE AloneInv'
  BY <1>3 DEF Begins, JobsInv, AloneInv, Busy, Fields
<1>4. ASSUME UNCHANGED job PROVE AloneInv'  BY <1>4 DEF AloneInv, Busy
<1>5. ASSUME job' = [h \in Slots |-> Idle] PROVE AloneInv'  BY <1>5 DEF AloneInv, Busy
<1> QED BY <1>1, <1>2, <1>3, <1>4, <1>5, Steps DEF StepOf

\* It stays true of a handler that did nothing while no like was inserted.
LEMMA ReadStays ==
  ASSUME TablesInv, NEW g \in Slots, HasRead(g), job'[g] = job[g], Follows(tables')
  PROVE  HasRead(g)'
<1>1. ASSUME Busy(g), job[g].op \in LikeOps, OwnLikes(g) = {} PROVE OwnLikes(g)' = {}
  BY <1>1, FollowsKeeps DEF OwnLikes, Liked, Arg
<1> QED BY <1>1 DEF HasRead, Busy, Got

LEMMA ReadNext ==
  ASSUME TablesInv, JobsInv, AloneInv, ReadInv, [Next]_vars
  PROVE  ReadInv'
<1>1. SUFFICES ASSUME NEW g \in Slots PROVE HasRead(g)'
  BY DEF ReadInv
<1>2. HasRead(g) /\ DOMAIN job = Slots  BY DEF ReadInv, JobsInv
<1>3. ASSUME NEW h \in Slots, GoesOn(h), Writes(h) PROVE HasRead(g)'
  <2>1. CASE g = h  BY <1>2, <1>3, <2>1 DEF GoesOn, HasRead, Busy
  <2>2. CASE g # h /\ Follows(tables')
    BY <1>2, <1>3, <2>2, ReadStays DEF GoesOn
  <2>3. CASE g # h /\ Busy(h) /\ ~(Follows(tables'))
    <3>1. job'[g] = job[g]  BY <1>2, <1>3, <2>3 DEF GoesOn
    <3>2. Busy(g) => ~job[g].alone  BY <2>3 DEF AloneInv
    <3> QED BY <1>2, <3>1, <3>2 DEF HasRead, Busy, Got
  <2> QED BY <1>3, <2>1, <2>2, <2>3 DEF GoesOn
<1>4. ASSUME NEW h \in Slots, ReadsMore(h), Follows(tables') PROVE HasRead(g)'
  <2>1. CASE g # h  BY <1>2, <1>4, <2>1, ReadStays DEF ReadsMore, Learn
  <2>2. CASE g = h
    <3>1. PICK name, value : /\ Learn(h, name, value, "write")
                             /\ name \in job[h].todo
                             /\ name = "like" /\ value.id = 0 => OwnLikes(h) = {}
      BY <1>4 DEF ReadsMore
    <3>2. Busy(h) /\ job[h].op \in LikeOps /\ job[h].pc = "find" /\ DOMAIN job[h] = Fields
      BY <1>4 DEF ReadsMore, JobsInv, Fields
    <3>3. /\ job'[h].op = job[h].op /\ job'[h].arg = job[h].arg /\ job'[h].alone = job[h].alone
          /\ job'[h].todo = job[h].todo \ {name}
          /\ job'[h].pc = IF job[h].todo \ {name} = {} THEN "write" ELSE "find"
          /\ job'[h].got = With(job[h].got, name, value)
      BY <1>2, <3>1, <3>2 DEF Learn, Fields
    <3>4. /\ DOMAIN job'[h].got = {name} \cup DOMAIN job[h].got
          /\ job'[h].got[name] = value
          /\ \A other \in DOMAIN job[h].got : other # name => job'[h].got[other] = job[h].got[other]
      BY <3>3 DEF With
    <3>5. OwnLikes(h) = {} => OwnLikes(h)' = {}
      BY <1>4, <3>2, <3>3, FollowsKeeps DEF OwnLikes, Liked, Arg
    <3> QED BY <1>2, <2>2, <3>1, <3>2, <3>3, <3>4, <3>5 DEF HasRead, Got
  <2> QED BY <2>1, <2>2
<1>5. ASSUME NEW h \in Slots, Begins(h), Follows(tables') PROVE HasRead(g)'
  <2>1. CASE g = h  BY <1>5, <2>1 DEF Begins, HasRead
  <2>2. CASE g # h  BY <1>2, <1>5, <2>2 DEF Begins, HasRead, Busy, Got, JobsInv
  <2> QED BY <2>1, <2>2
<1>6. ASSUME UNCHANGED job, Follows(tables') PROVE HasRead(g)'
  BY <1>2, <1>6, ReadStays
<1>7. ASSUME job' = [h \in Slots |-> Idle] PROVE HasRead(g)'
  BY <1>7 DEF HasRead, Busy
<1> QED BY <1>3, <1>4, <1>5, <1>6, <1>7, Steps DEF StepOf

\* A table of likes with a new one.
LEMMA LikeIsAdded ==
  ASSUME TablesInv, NEW h \in Slots, NEW op \in LikeOps, Inserts(h, op, tables')
  PROVE  LET old == Likes(tables, op)  new == Likes(tables', op)  k == Len(old) + 1 IN
         /\ IsSeq(new) /\ AreLikes(new)
         /\ LiveRows(new) = LiveRows(old) \cup {k} /\ k \notin LiveRows(old)
         /\ \A i \in LiveRows(old) : new[i] = old[i]
         /\ new[k].user = Arg(h).user /\ new[k].on = Liked(h) /\ new[k].alone = job[h].alone
<1> DEFINE old == Likes(tables, op)  new == Likes(tables', op)  k == Len(old) + 1
<1>1. IsSeq(old) /\ AreLikes(old)  BY DEF TablesInv
<1>2. PICK status : new = Append(old, NewLike(Liked(h), Arg(h).user, status, job[h].alone))
  BY DEF Inserts
<1> DEFINE like == NewLike(Liked(h), Arg(h).user, status, job[h].alone)
<1>3. /\ DOMAIN like = LikeFields /\ like.live
      /\ like.user = Arg(h).user /\ like.on = Liked(h) /\ like.alone = job[h].alone
  BY DEF NewLike, LikeFields
<1> HIDE DEF like, old, new
<1>4. /\ IsSeq(new) /\ DOMAIN new = DOMAIN old \cup {k} /\ k \notin DOMAIN old
      /\ \A i \in DOMAIN old : new[i] = old[i]
      /\ new[k] = like
  BY <1>1, <1>2, SeqAppended DEF like
<1>5. LiveRows(new) = LiveRows(old) \cup {k}  BY <1>3, <1>4 DEF LiveRows
<1>6. k \notin LiveRows(old) /\ \A i \in LiveRows(old) : new[i] = old[i]  BY <1>4 DEF LiveRows
<1>7. AreLikes(new)  BY <1>1, <1>3, <1>4, <1>5, <1>6 DEF AreLikes
<1> QED BY <1>3, <1>4, <1>5, <1>6, <1>7 DEF old, new

LEMMA TablesNext ==
  ASSUME TablesInv, JobsInv, ReadInv, [Next]_vars
  PROVE  TablesInv'
<1>1. ASSUME Follows(tables') PROVE TablesInv'
  BY <1>1, FollowsKeeps DEF Follows, TablesInv
<1>2. ASSUME NEW h \in Slots, NEW op \in LikeOps, Inserts(h, op, tables') PROVE TablesInv'
  <2>1. ASSUME NEW other \in LikeOps
        PROVE  IsSeq(Likes(tables', other)) /\ AreLikes(Likes(tables', other))
    <3>1. CASE other = op  BY <1>2, <3>1, LikeIsAdded
    <3>2. CASE other # op
      <4>1. Trims(Likes(tables, other), Likes(tables', other))  BY <1>2, <3>2 DEF Inserts
      <4>2. IsSeq(Likes(tables', other))  BY <4>1, SeqChanged DEF Trims, TablesInv
      <4> QED BY <4>1, <4>2 DEF Trims, TablesInv, AreLikes, LiveRows
    <3> QED BY <3>1, <3>2
  <2> QED BY <1>2, <2>1 DEF Inserts, TablesInv
<1> QED BY <1>1, <1>2, Steps DEF StepOf, Writes

\* One like of each user on each thing, in a table of likes.
Single(likes) ==
  \A j, k \in LiveRows(likes) :
    j # k /\ likes[j].user = likes[k].user /\ likes[j].on = likes[k].on
      => ~likes[j].alone \/ ~likes[k].alone

LEMMA SinglePerTable == OneLikePerUser <=> \A op \in LikeOps : Single(Likes(tables, op))
BY DEF OneLikePerUser, Single, Likes

LEMMA TrimmedIsSingle ==
  ASSUME NEW old, NEW new, Trims(old, new), Single(old)
  PROVE  Single(new)
BY DEF Trims, Single, LiveRows

LEMMA SingleNext ==
  ASSUME LikeInv, [Next]_vars
  PROVE  OneLikePerUser'
<1>1. \A op \in LikeOps : Single(Likes(tables, op))  BY SinglePerTable DEF LikeInv
<1>2. TablesInv /\ JobsInv /\ ReadInv  BY DEF LikeInv
<1>3. ASSUME Follows(tables'), NEW op \in LikeOps PROVE Single(Likes(tables', op))
  BY <1>1, <1>3, TrimmedIsSingle DEF Follows
<1>4. ASSUME NEW h \in Slots, NEW op \in LikeOps, Inserts(h, op, tables'), NEW other \in LikeOps
      PROVE  Single(Likes(tables', other))
  <2>1. CASE other # op
    BY <1>1, <1>4, <2>1, TrimmedIsSingle DEF Inserts
  <2>2. CASE other = op
    <3> DEFINE old == Likes(tables, op)  new == Likes(tables', op)  k == Len(old) + 1
    <3>1. /\ LiveRows(new) = LiveRows(old) \cup {k}
          /\ \A i \in LiveRows(old) : new[i] = old[i]
          /\ new[k].user = Arg(h).user /\ new[k].on = Liked(h) /\ new[k].alone = job[h].alone
      BY <1>2, <1>4, LikeIsAdded
    <3>2. job[h].alone => OwnLikes(h) = {}
      BY <1>2, <1>4 DEF Inserts, At, ReadInv, HasRead
    <3>3. OwnLikes(h) = LikesOf(old, Liked(h), Arg(h).user)
      BY <1>4 DEF OwnLikes, Inserts, At, Likes
    <3> HIDE DEF old, new, k
    <3>4. \A i \in LiveRows(old) :
            old[i].user = Arg(h).user /\ old[i].on = Liked(h) => ~job[h].alone
      BY <3>2, <3>3 DEF LikesOf, LikesOn
    <3>5. Single(old)  BY <1>1 DEF old
    <3>6. Single(new)  BY <3>1, <3>4, <3>5 DEF Single
    <3> QED BY <2>2, <3>6 DEF new
  <2> QED BY <2>1, <2>2
<1>5. \A op \in LikeOps : Single(Likes(tables', op))
  BY <1>2, <1>3, <1>4, Steps DEF StepOf, Writes
<1> QED BY <1>5 DEF OneLikePerUser, Single, Likes

(***************************************************************************)
(* The theorems.                                                           *)
(***************************************************************************)

LEMMA InitLikes == Init => LikeInv
<1> SUFFICES ASSUME Init PROVE LikeInv
  OBVIOUS
<1>1. /\ {"user", "post", "comment", "like", "commentLike", "follow", "banned"} \subseteq DOMAIN tables
      /\ tables.like = <<>> /\ tables.commentLike = <<>>
  BY DEF Init
<1>2. job = [h \in Slots |-> Idle]  BY DEF Init, HandlersInit
<1>3. IsSeq(<<>>) /\ LiveRows(<<>>) = {}  BY EmptySeq DEF IsSeq, LiveRows
<1>4. TablesInv  BY <1>1, <1>3 DEF TablesInv, Likes, AreLikes
<1>5. JobsInv /\ AloneInv /\ ReadInv  BY <1>2 DEF JobsInv, AloneInv, ReadInv, HasRead, Busy
<1>6. OneLikePerUser  BY <1>1, <1>3 DEF OneLikePerUser
<1> QED BY <1>4, <1>5, <1>6 DEF LikeInv

\* The inductive invariant: what a request that is alone has read about a like is
\* still so when it writes.
THEOREM LikesKept == Spec => []LikeInv
<1>1. LikeInv /\ [Next]_vars => LikeInv'
  BY TablesNext, JobsNext, AloneNext, ReadNext, SingleNext DEF LikeInv
<1> QED BY <1>1, InitLikes, PTL DEF Spec

\* One click after the other leaves a user one like of a post or comment, though
\* no constraint says so, whatever is added, deleted or banned meanwhile.
THEOREM LikesAreSingle == Spec => []OneLikePerUser
<1>1. LikeInv => OneLikePerUser  BY DEF LikeInv
<1> QED BY <1>1, LikesKept, PTL

(***************************************************************************)
(* Avatars and their files: a number is a file's key or not used yet.      *)
(***************************************************************************)

CallFields == {"no", "op", "about", "pc", "key"}

\* An avatar that is to be deleted was found with its key.
Found(c) == c.op \in AvatarOps /\ c.pc = "unlink"

\* No avatar is, or was found to be, kept under key k.
NoAvatar(k) == /\ \A a \in avatars : a.key # k
               /\ \A c \in calls : Found(c) => c.key # k

NumbersInv ==
  /\ made \in Nat
  /\ \A c \in calls :
       /\ DOMAIN c = CallFields /\ c.no \in 1..made
       /\ Found(c) => c.key \in 1..made
       /\ \A d \in calls : c.no = d.no => c = d
  /\ \A a \in avatars : a.key \in 1..made
  /\ \A x \in photos : x.key \in 1..made
  /\ unlink \subseteq 1..made

\* A file that is being stored has a key nobody else uses.
UploadsInv ==
  \A d \in calls :
    /\ d.op = "uploadPostPhoto" /\ d.pc \in {"put", "insert"} => NoAvatar(d.no)
    /\ d.op = "uploadAvatar" /\ d.pc \in {"find", "unlink", "delete", "put", "insert"} =>
         /\ NoAvatar(d.no) /\ d.no \notin unlink /\ \A x \in photos : x.key # d.no
         /\ d.pc = "insert" => d.no \in bucket

\* The file of an avatar is no photo of a post, and deleted for its owner only.
KeysInv ==
  \A a \in avatars :
    /\ a.key \notin unlink /\ \A x \in photos : x.key # a.key
    /\ \A b \in avatars : b.key = a.key => b.owner = a.owner
    /\ \A c \in calls : Found(c) /\ c.key = a.key => c.about = a.owner

FaultsInv == faults \in Nat /\ scene.faults \in Nat /\ faults <= scene.faults

\* Unless something failed, an avatar without its file is about to go.
FileInv ==
  faults < scene.faults \/
  \A a \in avatars :
    \/ a.key \in bucket
    \/ \E c \in calls : c.op \in AvatarOps /\ c.about = a.owner /\ c.pc = "delete"

FilesAsked == \A h \in Slots : Busy(h) /\ job[h].op = "addPost" => Arg(h).files \in Nat

StoredInv == NumbersInv /\ UploadsInv /\ KeysInv /\ FaultsInv /\ FileInv /\ FilesAsked

\* The gateway calls the files service, or takes an answer.
Sends ==
  \E n \in Nat : \E op, about, pc :
    /\ Send(n, op, about, pc)
    /\ \/ op = "uploadPostPhoto" /\ pc = "put"
       \/ op \in AvatarOps \cup {"deletePostPhotos"} /\ pc = "find"

Takes ==
  \E c \in calls :
    /\ Answered(c) /\ calls' = calls \ {c}
    /\ UNCHANGED <<made, photos, avatars, bucket, unlink>>

Bounds == <<scene, faults>>

LEMMA RequestsOnly ==
  ASSUME NEW h \in Slots,
         PostRequests(h) \/ FollowingRequests(h) \/ FeedRequests(h) \/ ListRequests(h)
  PROVE  UNCHANGED <<Bounds, filesVars>>
<1>1. \A op, arg, pc, todo : Ask(h, op, arg, pc, todo) => UNCHANGED <<Bounds, filesVars>>
  BY DEF Ask, Start, Bounds
<1>2. CASE PostRequests(h) \/ FollowingRequests(h)
  BY <1>1, <1>2 DEF PostRequests, FollowingRequests
<1>3. CASE FeedRequests(h)
  BY <1>1, <1>3 DEF FeedRequests, PageRequest, OpenFeed, handlerVars, Bounds
<1>4. CASE ListRequests(h)
  BY <1>1, <1>4 DEF ListRequests, ListRequest, OpenList, handlerVars, Bounds
<1> QED BY <1>2, <1>3, <1>4

LEMMA HandlersCall ==
  ASSUME FilesAsked, NEW h \in Slots,
         PostSteps(h) \/ FollowingSteps(h) \/ FeedSteps(h) \/ ListSteps(h)
  PROVE  UNCHANGED Bounds /\ (UNCHANGED filesVars \/ Sends)
<1>1. \A name, values, pc : Read(h, name, values, pc) => UNCHANGED <<Bounds, filesVars>>
  BY DEF Read, Learn, Bounds
<1>2. \A endpoint, result : Answer(h, endpoint, result) => UNCHANGED <<Bounds, filesVars>>
  BY DEF Answer, Reply, Bounds
<1>3. \A new, endpoint : Commit(h, new, endpoint) => UNCHANGED <<Bounds, filesVars>>
  BY DEF Commit, Reply, Bounds
<1>4. \A name, value, n, op, about, pc : CallFiles(h, name, value, n, op, about, pc) =>
        UNCHANGED Bounds /\ Send(n, op, about, pc)
  BY DEF CallFiles, Expect, Bounds
<1>5. ASSUME AddPostFinds(h) \/ UpdatePostFinds(h) PROVE UNCHANGED <<Bounds, filesVars>>
  BY <1>1, <1>2, <1>5 DEF AddPostFinds, UpdatePostFinds
<1>6. ASSUME AddPostUploads(h) PROVE UNCHANGED Bounds /\ Sends
  BY <1>4, <1>6 DEF AddPostUploads, At, FilesAsked, Sends
<1>7. ASSUME AddPostEnds(h) \/ UpdatePostEnds(h) \/ DeletePostEnds(h)
      PROVE  UNCHANGED <<Bounds, filesVars>>
  BY <1>3, <1>7 DEF AddPostEnds, UpdatePostEnds, DeletePostEnds
<1>8. ASSUME DeletePostFinds(h) PROVE UNCHANGED Bounds /\ (UNCHANGED filesVars \/ Sends)
  BY <1>2, <1>4, <1>8 DEF DeletePostFinds, Sends
<1>9. ASSUME LikeReads(h) \/ LikePostEnds(h) \/ LikeCommentEnds(h)
      PROVE  UNCHANGED <<Bounds, filesVars>>
  BY <1>1, <1>2, <1>3, <1>9 DEF LikeReads, LikePostEnds, LikeCommentEnds
<1>10. ASSUME CommentReads(h) \/ CommentEnds(h) \/ AnswerEnds(h)
       PROVE  UNCHANGED <<Bounds, filesVars>>
  BY <1>1, <1>2, <1>3, <1>10 DEF CommentReads, CommentEnds, AnswerEnds
<1>11. ASSUME FollowFinds(h) \/ FollowChecks(h) \/ FollowEnds(h) \/ UnfollowEnds(h)
       PROVE  UNCHANGED <<Bounds, filesVars>>
  BY <1>1, <1>2, <1>3, <1>11 DEF FollowFinds, FollowChecks, FollowEnds, UnfollowEnds
<1>12. ASSUME AvatarFinds(h) PROVE UNCHANGED Bounds /\ (UNCHANGED filesVars \/ Sends)
  BY <1>2, <1>4, <1>12 DEF AvatarFinds, At, Sends
<1>13. ASSUME AvatarEnds(h) PROVE UNCHANGED <<Bounds, filesVars>>
  BY <1>2, <1>13 DEF AvatarEnds
<1>14. ASSUME FeedSteps(h) PROVE UNCHANGED <<Bounds, filesVars>>
  BY <1>1, <1>14 DEF FeedSteps, PageFollowees, PageCursor, PageReads, PageEnds, Learn, Reply, Bounds
<1>15. ASSUME CommentsFind(h) \/ AnswersFind(h) PROVE UNCHANGED <<Bounds, filesVars>>
  BY <1>1, <1>2, <1>15 DEF CommentsFind, AnswersFind, FindOrAnswer
<1>16. ASSUME ShowPage(h) PROVE UNCHANGED <<Bounds, filesVars>>
  BY <1>16 DEF ShowPage, Reply, Bounds
<1> QED
  BY <1>5, <1>6, <1>7, <1>8, <1>9, <1>10, <1>11, <1>12, <1>13, <1>14, <1>15, <1>16
  DEF PostSteps, FollowingSteps, ListSteps, CommentsRead, AnswersRead, FollowersRead,
      FollowingRead, SearchRead, AdminListsRead

\* Who changes what the files service has, and that failures are counted.
LEMMA FilesSteps ==
  ASSUME FaultsInv, FilesAsked, [Next]_vars
  PROVE  /\ scene' = scene /\ faults' \in Nat /\ faults' <= faults
         /\ \/ UNCHANGED filesVars
            \/ Sends \/ Takes
            \/ \E c \in calls : CallStep(c)
            \/ \E k \in unlink : deleteImage(k)
            \/ faults' < faults /\ (FilesStop \/ \E c \in calls : CallFails(c))
<1>1. ASSUME NEW h \in Slots,
             \/ PostRequests(h) \/ FollowingRequests(h) \/ FeedRequests(h) \/ ListRequests(h)
             \/ PostSteps(h) \/ FollowingSteps(h) \/ FeedSteps(h) \/ ListSteps(h)
      PROVE  scene' = scene /\ faults' = faults /\ (UNCHANGED filesVars \/ Sends)
  BY <1>1, RequestsOnly, HandlersCall DEF Bounds
<1>2. ASSUME NEW h \in Slots, NEW c \in calls, CallReturns(h, c)
      PROVE  scene' = scene /\ faults' = faults /\ Takes
  BY <1>2 DEF CallReturns, Returned, Reply, Abandon, Takes
<1>3. ASSUME NEW h \in Slots, GatewayFails(h)
      PROVE  scene' = scene /\ faults > 0 /\ faults' = faults - 1 /\ UNCHANGED filesVars
  BY <1>3 DEF GatewayFails, Fail
<1>4. ASSUME NEW c \in calls, Unheard(c) PROVE scene' = scene /\ faults' = faults /\ Takes
  BY <1>4 DEF Unheard, handlerVars, Takes
<1>5. ASSUME FilesRun
      PROVE  /\ scene' = scene /\ faults' = faults
             /\ (\E c \in calls : CallStep(c)) \/ \E k \in unlink : deleteImage(k)
  BY <1>5 DEF FilesRun, handlerVars
<1>6. ASSUME FilesFail
      PROVE  /\ scene' = scene /\ faults > 0 /\ faults' = faults - 1
             /\ FilesStop \/ \E c \in calls : CallFails(c)
  BY <1>6 DEF FilesFail
<1>7. ASSUME GatewayRestarts
      PROVE  scene' = scene /\ faults > 0 /\ faults' = faults - 1 /\ UNCHANGED filesVars
  BY <1>7 DEF GatewayRestarts, Restart
<1>8. ASSUME Tick \/ \E u \in tables.user : Moderate(u)
      PROVE  scene' = scene /\ faults' = faults /\ UNCHANGED filesVars
  BY <1>8 DEF Tick, Moderate, handlerVars
<1>9. CASE UNCHANGED vars  BY <1>9 DEF vars, handlerVars, FaultsInv
<1> QED BY <1>1, <1>2, <1>3, <1>4, <1>5, <1>6, <1>7, <1>8, <1>9 DEF Next, FaultsInv

StoreInv == NumbersInv /\ UploadsInv /\ KeysInv

\* Call c has become new.
Becomes(c, new) ==
  /\ calls' = (calls \ {c}) \cup {new}
  /\ DOMAIN new = CallFields
  /\ new.no = c.no /\ new.op = c.op /\ new.about = c.about

LEMMA Advances ==
  ASSUME NumbersInv, NEW c \in calls, NEW pc, Advance(c, pc)
  PROVE  \E new : Becomes(c, new) /\ new.pc = pc /\ new.key = c.key
<1> DEFINE new == [c EXCEPT !.pc = pc]
<1>1. DOMAIN c = CallFields  BY DEF NumbersInv
<1>2. /\ DOMAIN new = CallFields /\ new.pc = pc /\ new.key = c.key
      /\ new.no = c.no /\ new.op = c.op /\ new.about = c.about
  BY <1>1 DEF CallFields
<1>3. calls' = (calls \ {c}) \cup {new}  BY DEF Advance
<1> HIDE DEF new
<1> QED BY <1>2, <1>3 DEF Becomes

LEMMA NumbersMove ==
  ASSUME NumbersInv, NEW c \in calls, NEW new, Becomes(c, new), made' = made,
         Found(new) => new.key \in 1..made,
         \A a \in avatars' : a.key \in 1..made,
         \A x \in photos' : x.key \in 1..made,
         unlink' \subseteq 1..made
  PROVE  NumbersInv'
<1>1. ASSUME NEW d \in calls'
      PROVE  /\ DOMAIN d = CallFields /\ d.no \in 1..made
             /\ Found(d) => d.key \in 1..made
  BY <1>1 DEF NumbersInv, Becomes
<1>2. ASSUME NEW d \in calls', NEW e \in calls', d.no = e.no PROVE d = e
  BY <1>2 DEF NumbersInv, Becomes
<1> QED BY <1>1, <1>2 DEF NumbersInv, Found

\* Photos of posts: their keys were never an avatar's.
LEMMA PhotoSteps ==
  ASSUME StoreInv, NEW c \in calls,
         savePostPhoto(c) \/ addPostPhoto(c) \/ findPostPhotos(c) \/ deleteAllPostPhotos(c)
  PROVE  StoreInv'
<1>1. NumbersInv /\ UploadsInv /\ KeysInv  BY DEF StoreInv
<1>2. c.op \in {"uploadPostPhoto", "deletePostPhotos"}
  BY DEF savePostPhoto, addPostPhoto, findPostPhotos, deleteAllPostPhotos, CallAt
<1>3. PICK new : /\ Becomes(c, new)
                 /\ c.op = "uploadPostPhoto" =>
                      (new.pc = "insert" /\ c.pc = "put") \/ new.pc = "done"
  BY <1>1, Advances DEF savePostPhoto, addPostPhoto, findPostPhotos, deleteAllPostPhotos, CallAt
<1>4. /\ made' = made /\ avatars' = avatars /\ bucket \subseteq bucket'
      /\ \A x \in photos' : x \in photos \/ (x.key = c.no /\ c.op = "uploadPostPhoto" /\ c.pc = "insert")
      /\ \A k \in unlink' : k \in unlink \/ \E x \in photos : x.key = k
  BY DEF savePostPhoto, addPostPhoto, findPostPhotos, deleteAllPostPhotos, CallAt, KeysOf, PhotosOf
<1>5. \A d \in calls' : Found(d) => d \in calls
  BY <1>2, <1>3 DEF Becomes, Found, AvatarOps
<1>6. \A k : NoAvatar(k) => NoAvatar(k)'
  BY <1>4, <1>5 DEF NoAvatar, Found
<1>7. NumbersInv'
  <2>1. ~Found(new)  BY <1>2, <1>3 DEF Becomes, Found, AvatarOps
  <2>2. /\ \A x \in photos' : x.key \in 1..made
        /\ unlink' \subseteq 1..made /\ \A a \in avatars' : a.key \in 1..made
    BY <1>1, <1>4 DEF NumbersInv
  <2> QED BY <1>1, <1>3, <1>4, <2>1, <2>2, NumbersMove
<1>8. UploadsInv'
  <2> SUFFICES ASSUME NEW d \in calls'
               PROVE  /\ d.op = "uploadPostPhoto" /\ d.pc \in {"put", "insert"} => NoAvatar(d.no)'
                      /\ d.op = "uploadAvatar" /\ d.pc \in {"find", "unlink", "delete", "put", "insert"} =>
                           /\ NoAvatar(d.no)' /\ d.no \notin unlink' /\ \A x \in photos' : x.key # d.no
                           /\ d.pc = "insert" => d.no \in bucket'
    BY DEF UploadsInv
  <2>1. CASE d \in calls
    BY <1>1, <1>2, <1>4, <1>6, <2>1 DEF UploadsInv, NumbersInv
  <2>2. CASE d = new
    BY <1>1, <1>2, <1>3, <1>6, <2>2 DEF UploadsInv, Becomes
  <2> QED BY <1>3, <2>1, <2>2 DEF Becomes
<1>9. KeysInv'
  <2>1. ASSUME NEW a \in avatars PROVE a.key \notin unlink' /\ \A x \in photos' : x.key # a.key
    BY <1>1, <1>4, <2>1 DEF KeysInv, UploadsInv, NoAvatar
  <2> QED BY <1>1, <1>4, <1>5, <2>1 DEF KeysInv, Found
<1> QED BY <1>7, <1>8, <1>9 DEF StoreInv

\* Avatars: what is found is an avatar's key, what is stored is its own.
LEMMA AvatarSteps ==
  ASSUME StoreInv, NEW c \in calls,
         findAvatar(c) \/ deleteAvatarImage(c) \/ deleteAvatar(c) \/ saveAvatar(c) \/ addAvatar(c)
  PROVE  StoreInv'
<1>1. NumbersInv /\ UploadsInv /\ KeysInv  BY DEF StoreInv
<1>2. /\ c.op \in AvatarOps /\ DOMAIN c = CallFields /\ c.no \in 1..made
      /\ made' = made /\ photos' = photos /\ unlink' = unlink
  BY <1>1 DEF findAvatar, deleteAvatarImage, deleteAvatar, saveAvatar, addAvatar, CallAt, AvatarOps,
              NumbersInv
<1>3. PICK new :
        /\ Becomes(c, new)
        /\ c.pc = "find" /\ Found(new) => \E a \in avatars : a.key = new.key /\ a.owner = c.about
        /\ c.pc # "find" => ~Found(new)
        /\ c.pc \in {"find", "unlink", "delete", "put", "insert"}
        /\ new.pc = "insert" => c.pc = "put" /\ c.no \in bucket'
  <2>1. CASE findAvatar(c)
    <3>1. CASE Advance(c, AfterDelete(c))
      <4>1. AfterDelete(c) \in {"put", "done"}  BY DEF AfterDelete
      <4> QED BY <1>1, <2>1, <3>1, <4>1, Advances DEF findAvatar, CallAt, Found
    <3>2. ASSUME NEW a \in AvatarsOf(c.about),
                 calls' = (calls \ {c}) \cup {[c EXCEPT !.pc = "unlink", !.key = a.key]}
          PROVE  \E new : /\ Becomes(c, new) /\ new.pc = "unlink" /\ new.key = a.key
      <4> DEFINE new == [c EXCEPT !.pc = "unlink", !.key = a.key]
      <4>1. /\ DOMAIN new = CallFields /\ new.pc = "unlink" /\ new.key = a.key
            /\ new.no = c.no /\ new.op = c.op /\ new.about = c.about
        BY <1>2 DEF CallFields
      <4> HIDE DEF new
      <4>2. calls' = (calls \ {c}) \cup {new}  BY <3>2 DEF new
      <4> QED BY <4>1, <4>2 DEF Becomes
    <3>3. CASE \E a \in AvatarsOf(c.about) :
                 calls' = (calls \ {c}) \cup {[c EXCEPT !.pc = "unlink", !.key = a.key]}
      <4>1. PICK a \in AvatarsOf(c.about) :
              calls' = (calls \ {c}) \cup {[c EXCEPT !.pc = "unlink", !.key = a.key]}
        BY <3>3
      <4>2. a \in avatars /\ a.owner = c.about  BY DEF AvatarsOf
      <4> QED BY <2>1, <3>2, <4>1, <4>2 DEF findAvatar, CallAt
    <3> QED BY <2>1, <3>1, <3>3 DEF findAvatar
  <2>2. CASE deleteAvatarImage(c) \/ deleteAvatar(c)
    <3>1. AfterDelete(c) \in {"put", "done"}  BY DEF AfterDelete
    <3> QED BY <1>1, <2>2, <3>1, Advances DEF deleteAvatarImage, deleteAvatar, CallAt, Found
  <2>3. CASE saveAvatar(c)  BY <1>1, <2>3, Advances DEF saveAvatar, CallAt, Found
  <2>4. CASE addAvatar(c)  BY <1>1, <2>4, Advances DEF addAvatar, CallAt, Found
  <2> QED BY <2>1, <2>2, <2>3, <2>4
<1>4. /\ \A a \in avatars' :
           \/ a \in avatars
           \/ /\ a.key = c.no /\ a.owner = c.about
              /\ c.op = "uploadAvatar" /\ c.pc = "insert" /\ ~Found(new)
      /\ \A k \in bucket : k \in bucket' \/ (Found(c) /\ k = c.key)
  <2>1. CASE findAvatar(c)  BY <2>1 DEF findAvatar
  <2>2. CASE deleteAvatarImage(c)
    <3>1. Found(c)  BY <2>2 DEF deleteAvatarImage, CallAt, Found
    <3> QED BY <2>2, <3>1 DEF deleteAvatarImage
  <2>3. CASE deleteAvatar(c)  BY <2>3 DEF deleteAvatar
  <2>4. CASE saveAvatar(c)  BY <2>4 DEF saveAvatar
  <2>5. CASE addAvatar(c)
    <3>1. c.op = "uploadAvatar" /\ c.pc = "insert" /\ bucket' = bucket
      BY <2>5 DEF addAvatar, CallAt
    <3>2. avatars' = avatars \/ avatars' = avatars \cup {[owner |-> c.about, key |-> c.no]}
      BY <2>5 DEF addAvatar
    <3> QED BY <1>3, <3>1, <3>2
  <2> QED BY <2>1, <2>2, <2>3, <2>4, <2>5
<1>5. ASSUME NEW d \in calls', Found(d)
      PROVE  \/ d \in calls
             \/ d = new /\ \E a \in avatars : a.key = new.key /\ a.owner = c.about
  BY <1>3, <1>5 DEF Becomes
<1>6. NumbersInv'
  <2>1. Found(new) => new.key \in 1..made  BY <1>1, <1>3 DEF NumbersInv
  <2>2. \A a \in avatars' : a.key \in 1..made  BY <1>1, <1>2, <1>4 DEF NumbersInv
  <2> QED BY <1>1, <1>2, <1>3, <2>1, <2>2, NumbersMove DEF NumbersInv
<1>7. ASSUME NEW k, NoAvatar(k), k # c.no \/ c.op # "uploadAvatar" \/ c.pc # "insert"
      PROVE  NoAvatar(k)'
  BY <1>4, <1>5, <1>7 DEF NoAvatar, Found
<1>8. UploadsInv'
  <2> SUFFICES ASSUME NEW d \in calls'
               PROVE  /\ d.op = "uploadPostPhoto" /\ d.pc \in {"put", "insert"} => NoAvatar(d.no)'
                      /\ d.op = "uploadAvatar" /\ d.pc \in {"find", "unlink", "delete", "put", "insert"} =>
                           /\ NoAvatar(d.no)' /\ d.no \notin unlink' /\ \A x \in photos' : x.key # d.no
                           /\ d.pc = "insert" => d.no \in bucket'
    BY DEF UploadsInv
  <2>1. CASE d \in calls /\ d # c
    <3>1. d.no # c.no  BY <1>1, <2>1 DEF NumbersInv
    <3>2. NoAvatar(d.no) => NoAvatar(d.no)'  BY <1>7, <3>1
    <3>3. NoAvatar(d.no) /\ Found(c) => c.key # d.no  BY DEF NoAvatar
    <3> QED BY <1>1, <1>2, <1>4, <2>1, <3>2, <3>3 DEF UploadsInv
  <2>2. CASE d = new
    <3>1. d.no = c.no /\ d.op = c.op  BY <1>3, <2>2 DEF Becomes
    <3>2. c.pc = "insert" => d.pc \notin {"find", "unlink", "delete", "put", "insert"} \/ Found(d)
      <4>1. CASE addAvatar(c)
        <5>1. \A pc : Advance(c, pc) => \E e : Becomes(c, e) /\ e.pc = pc  BY <1>1, Advances
        <5>2. \E e : Becomes(c, e) /\ e.pc \in {"done", "thrown"}  BY <4>1, <5>1 DEF addAvatar
        <5>3. new \in calls' /\ new \notin calls \ {c}
          BY <1>1, <1>3 DEF Becomes, NumbersInv
        <5> QED BY <2>2, <5>2, <5>3 DEF Becomes
      <4> QED BY <4>1 DEF findAvatar, deleteAvatarImage, deleteAvatar, saveAvatar, CallAt
    <3>3. c.pc # "insert" /\ NoAvatar(c.no) => NoAvatar(c.no)'  BY <1>7
    <3>4. c.op = "uploadAvatar" => NoAvatar(c.no) /\ c.no \notin unlink /\ \A x \in photos : x.key # c.no
      BY <1>1, <1>3 DEF UploadsInv
    <3>5. c.pc = "insert" => ~Found(d)  BY <1>3, <2>2
    <3> QED BY <1>2, <1>3, <2>2, <3>1, <3>2, <3>3, <3>4, <3>5 DEF AvatarOps
  <2> QED BY <1>3, <2>1, <2>2 DEF Becomes
<1>9. KeysInv'
  <2> SUFFICES ASSUME NEW a \in avatars'
               PROVE  /\ a.key \notin unlink' /\ \A x \in photos' : x.key # a.key
                      /\ \A b \in avatars' : b.key = a.key => b.owner = a.owner
                      /\ \A d \in calls' : Found(d) /\ d.key = a.key => d.about = a.owner
    BY DEF KeysInv, Found
  <2>1. CASE a \in avatars
    <3>2. ASSUME NEW b \in avatars', b.key = a.key PROVE b.owner = a.owner
      <4>1. CASE b \in avatars  BY <1>1, <2>1, <3>2, <4>1 DEF KeysInv
      <4>2. CASE b.key = c.no /\ c.op = "uploadAvatar" /\ c.pc = "insert"
        BY <1>1, <1>3, <2>1, <3>2, <4>2 DEF UploadsInv, NoAvatar, Becomes
      <4> QED BY <1>4, <4>1, <4>2
    <3>1. ASSUME NEW d \in calls', Found(d), d.key = a.key PROVE d.about = a.owner
      <4>1. CASE d \in calls  BY <1>1, <2>1, <3>1, <4>1 DEF KeysInv
      <4>2. CASE d = new /\ \E b \in avatars : b.key = new.key /\ b.owner = c.about
        <5>1. PICK b \in avatars : b.key = new.key /\ b.owner = c.about  BY <4>2
        <5>2. b.owner = a.owner  BY <1>1, <2>1, <3>1, <4>2, <5>1 DEF KeysInv
        <5> QED BY <1>3, <4>2, <5>1, <5>2 DEF Becomes
      <4> QED BY <1>5, <3>1, <4>1, <4>2
    <3> QED BY <1>1, <1>2, <2>1, <3>1, <3>2 DEF KeysInv
  <2>2. CASE /\ a.key = c.no /\ a.owner = c.about
             /\ c.op = "uploadAvatar" /\ c.pc = "insert" /\ ~Found(new)
    <3>1. NoAvatar(c.no) /\ c.no \notin unlink /\ \A x \in photos : x.key # c.no
      BY <1>1, <2>2 DEF UploadsInv
    <3>2. ASSUME NEW b \in avatars', b.key = a.key PROVE b.owner = a.owner
      BY <1>4, <2>2, <3>1, <3>2 DEF NoAvatar
    <3> QED BY <1>2, <1>5, <2>2, <3>1, <3>2 DEF NoAvatar
  <2> QED BY <1>4, <2>1, <2>2
<1> QED BY <1>6, <1>8, <1>9 DEF StoreInv

\* Calls that begin, end, are dropped or fail disturb nothing.
LEMMA SendSteps == ASSUME StoreInv, Sends PROVE StoreInv'
<1>1. NumbersInv /\ UploadsInv /\ KeysInv  BY DEF StoreInv
<1>2. PICK n \in Nat : \E op, about, pc :
        /\ Send(n, op, about, pc)
        /\ \/ op = "uploadPostPhoto" /\ pc = "put"
           \/ op \in AvatarOps \cup {"deletePostPhotos"} /\ pc = "find"
  BY DEF Sends
<1>3. PICK op, about, pc :
        /\ Send(n, op, about, pc)
        /\ \/ op = "uploadPostPhoto" /\ pc = "put"
           \/ op \in AvatarOps \cup {"deletePostPhotos"} /\ pc = "find"
  BY <1>2
<1>4. /\ made \in Nat /\ made' = made + n
      /\ photos' = photos /\ avatars' = avatars /\ bucket' = bucket /\ unlink' = unlink
      /\ \A k \in 1..made : k \in 1..made'
  BY <1>1, <1>3 DEF Send, NumbersInv
<1>5. ASSUME NEW d \in calls'
      PROVE  \/ d \in calls
             \/ /\ d.no \in made + 1 .. made' /\ d.pc \in {"put", "find"} /\ DOMAIN d = CallFields
                /\ d = Call(d.no, op, about, pc)
  BY <1>3, <1>4, <1>5 DEF Send, Call, CallFields
<1>6. ASSUME NEW d \in calls', Found(d) PROVE d \in calls
  BY <1>5, <1>6 DEF Found
<1>7. ASSUME NEW k, NoAvatar(k) PROVE NoAvatar(k)'
  BY <1>4, <1>6, <1>7 DEF NoAvatar, Found
<1>8. \A k : k \notin 1..made => NoAvatar(k)  BY <1>1 DEF NumbersInv, NoAvatar
<1>9. \A k \in made + 1 .. made' : k \notin 1..made /\ k \in 1..made'  BY <1>4
<1>10. NumbersInv'
  <2>1. ASSUME NEW d \in calls'
        PROVE  /\ DOMAIN d = CallFields /\ d.no \in 1..made'
               /\ Found(d) => d.key \in 1..made'
    BY <1>1, <1>4, <1>5, <1>6, <1>9 DEF NumbersInv
  <2>2. ASSUME NEW d \in calls', NEW e \in calls', d.no = e.no PROVE d = e
    <3>1. CASE d \in calls /\ e \in calls  BY <1>1, <2>2, <3>1 DEF NumbersInv
    <3>2. CASE d \in calls /\ e \notin calls  BY <1>1, <1>5, <1>9, <2>2, <3>2 DEF NumbersInv
    <3>3. CASE d \notin calls /\ e \in calls  BY <1>1, <1>5, <1>9, <2>2, <3>3 DEF NumbersInv
    <3>4. CASE d \notin calls /\ e \notin calls  BY <1>5, <2>2, <3>4
    <3> QED BY <3>1, <3>2, <3>3, <3>4
  <2>3. /\ \A a \in avatars' : a.key \in 1..made'
        /\ \A x \in photos' : x.key \in 1..made'
        /\ unlink' \subseteq 1..made' /\ made' \in Nat
    BY <1>1, <1>3, <1>4 DEF NumbersInv
  <2> QED BY <2>1, <2>2, <2>3 DEF NumbersInv, Found
<1>11. UploadsInv'
  <2> SUFFICES ASSUME NEW d \in calls'
               PROVE  /\ d.op = "uploadPostPhoto" /\ d.pc \in {"put", "insert"} => NoAvatar(d.no)'
                      /\ d.op = "uploadAvatar" /\ d.pc \in {"find", "unlink", "delete", "put", "insert"} =>
                           /\ NoAvatar(d.no)' /\ d.no \notin unlink' /\ \A x \in photos' : x.key # d.no
                           /\ d.pc = "insert" => d.no \in bucket'
    BY DEF UploadsInv
  <2>1. CASE d \in calls  BY <1>1, <1>4, <1>7, <2>1 DEF UploadsInv
  <2>2. CASE d.no \in made + 1 .. made' /\ d.pc \in {"put", "find"}
    <3>1. d.no \notin 1..made  BY <1>9, <2>2
    <3>2. d.no \notin unlink /\ \A x \in photos : x.key # d.no  BY <1>1, <3>1 DEF NumbersInv
    <3> QED BY <1>4, <1>7, <1>8, <2>2, <3>1, <3>2
  <2> QED BY <1>5, <2>1, <2>2
<1>12. KeysInv'  BY <1>1, <1>4, <1>6 DEF KeysInv, Found
<1> QED BY <1>10, <1>11, <1>12 DEF StoreInv

\* Calls stay as they are, end, or are answered; files that are being deleted go.
LEMMA LessSteps ==
  ASSUME StoreInv,
         made' = made /\ photos' = photos /\ avatars' = avatars,
         unlink' \subseteq unlink /\ bucket \subseteq bucket' \cup unlink,
         \A d \in calls' :
           d \in calls \/ (/\ DOMAIN d = CallFields /\ d.pc = "lost"
                           /\ \E c \in calls : c.no = d.no /\ c \notin calls'),
         \A d, e \in calls' : d \notin calls /\ e \notin calls /\ d.no = e.no => d = e
  PROVE  StoreInv'
<1>1. NumbersInv /\ UploadsInv /\ KeysInv  BY DEF StoreInv
<1>2. ASSUME NEW d \in calls', d.pc # "lost" PROVE d \in calls  BY <1>2
<1>3. ASSUME NEW k, NoAvatar(k) PROVE NoAvatar(k)'  BY <1>2, <1>3 DEF NoAvatar, Found
<1>4. NumbersInv'
  <2>1. ASSUME NEW d \in calls'
        PROVE  /\ DOMAIN d = CallFields /\ d.no \in 1..made
               /\ Found(d) => d.key \in 1..made
    BY <1>1, <1>2 DEF NumbersInv, Found
  <2>2. ASSUME NEW d \in calls', NEW e \in calls', d.no = e.no PROVE d = e
    <3>1. CASE d \in calls /\ e \in calls  BY <1>1, <2>2, <3>1 DEF NumbersInv
    <3>2. CASE d \in calls /\ e \notin calls  BY <1>1, <2>2, <3>2 DEF NumbersInv
    <3>3. CASE d \notin calls /\ e \in calls  BY <1>1, <2>2, <3>3 DEF NumbersInv
    <3> QED BY <2>2, <3>1, <3>2, <3>3
  <2> QED BY <1>1, <2>1, <2>2 DEF NumbersInv, Found
<1>5. UploadsInv'  BY <1>1, <1>2, <1>3 DEF UploadsInv
<1>6. KeysInv'  BY <1>1, <1>2 DEF KeysInv, Found
<1> QED BY <1>4, <1>5, <1>6 DEF StoreInv

LEMMA StoreNext ==
  ASSUME StoreInv, FaultsInv, FilesAsked, [Next]_vars
  PROVE  StoreInv'
<1>1. NumbersInv  BY DEF StoreInv
<1>2. CASE UNCHANGED filesVars
  BY <1>2 DEF StoreInv, NumbersInv, UploadsInv, KeysInv, NoAvatar, filesVars
<1>3. CASE Takes  BY <1>3, LessSteps DEF Takes
<1>4. ASSUME NEW c \in calls, CallStep(c) PROVE StoreInv'
  BY <1>4, PhotoSteps, AvatarSteps DEF CallStep
<1>5. ASSUME NEW k \in unlink, deleteImage(k) PROVE StoreInv'
  BY <1>5, LessSteps DEF deleteImage
<1>6. ASSUME NEW c \in calls, CallFails(c) PROVE StoreInv'
  <2>1. c.pc # "lost"  BY <1>6 DEF CallFails, Answered
  <2>2. PICK new : Becomes(c, new) /\ new.pc = "lost"  BY <1>1, <1>6, Advances DEF CallFails
  <2>3. c \notin calls'  BY <2>1, <2>2 DEF Becomes
  <2> QED BY <1>6, <2>2, <2>3, LessSteps DEF CallFails, Becomes
<1>7. CASE FilesStop
  <2>1. /\ made' = made /\ photos' = photos /\ avatars' = avatars
        /\ unlink' = {} /\ bucket' = bucket
        /\ calls' = {IF Answered(c) THEN c ELSE [c EXCEPT !.pc = "lost"] : c \in calls}
    BY <1>7 DEF FilesStop
  <2>2. ASSUME NEW c \in calls, NEW e, e = [c EXCEPT !.pc = "lost"]
        PROVE  DOMAIN e = CallFields /\ e.pc = "lost" /\ e.no = c.no
    BY <1>1, <2>2 DEF NumbersInv, CallFields
  <2>3. ASSUME NEW c \in calls, ~Answered(c) PROVE c \notin calls'
    <3>1. SUFFICES ASSUME c \in calls' PROVE FALSE
      OBVIOUS
    <3>2. PICK e \in calls : c = IF Answered(e) THEN e ELSE [e EXCEPT !.pc = "lost"]
      BY <2>1, <3>1
    <3>3. ~Answered(e) /\ c.pc = "lost"  BY <2>2, <2>3, <3>2
    <3> QED BY <2>3, <3>3 DEF Answered
  <2>4. ASSUME NEW d \in calls', d \notin calls
        PROVE  \E c \in calls : ~Answered(c) /\ d = [c EXCEPT !.pc = "lost"]
    BY <2>1, <2>4
  <2>5. \A d \in calls' :
          d \in calls \/ (/\ DOMAIN d = CallFields /\ d.pc = "lost"
                          /\ \E c \in calls : c.no = d.no /\ c \notin calls')
    BY <2>2, <2>3, <2>4
  <2>6. \A d, e \in calls' : d \notin calls /\ e \notin calls /\ d.no = e.no => d = e
    BY <1>1, <2>2, <2>4 DEF NumbersInv
  <2> QED BY <2>1, <2>5, <2>6, LessSteps
<1> QED BY <1>2, <1>3, <1>4, <1>5, <1>6, <1>7, SendSteps, FilesSteps

LEMMA FilesAskedNext ==
  ASSUME TablesInv, JobsInv, ReadInv, FilesAsked, [Next]_vars
  PROVE  FilesAsked'
<1>1. ASSUME NEW h \in Slots, GoesOn(h) PROVE FilesAsked'
  BY <1>1 DEF GoesOn, JobsInv, FilesAsked, Busy, Arg
<1>2. ASSUME NEW h \in Slots, ReadsMore(h) PROVE FilesAsked'
  BY <1>2 DEF ReadsMore, Learn, JobsInv, FilesAsked, Busy, Arg
<1>3. ASSUME NEW h \in Slots, Begins(h) PROVE FilesAsked'
  BY <1>3 DEF Begins, JobsInv, FilesAsked, Busy, Arg, Fields
<1>4. ASSUME UNCHANGED job PROVE FilesAsked'  BY <1>4 DEF FilesAsked, Busy, Arg
<1>5. ASSUME job' = [h \in Slots |-> Idle] PROVE FilesAsked'  BY <1>5 DEF FilesAsked, Busy
<1> QED BY <1>1, <1>2, <1>3, <1>4, <1>5, Steps DEF StepOf

LEMMA FileNext ==
  ASSUME StoreInv, FaultsInv, FilesAsked, FileInv, [Next]_vars
  PROVE  FileInv'
<1>1. scene' = scene /\ faults' <= faults /\ faults \in Nat /\ faults' \in Nat /\ scene.faults \in Nat
  BY FilesSteps DEF FaultsInv
<1>2. CASE faults' < scene.faults  BY <1>1, <1>2 DEF FileInv
<1> DEFINE Going(a, c) == c.op \in AvatarOps /\ c.about = a.owner /\ c.pc = "delete"
<1>3. CASE ~(faults' < scene.faults)
  <2>1. faults' = faults /\ ~(faults < scene.faults)  BY <1>1, <1>3 DEF FaultsInv
  <2>2. \A a \in avatars : a.key \in bucket \/ \E c \in calls : Going(a, c)
    BY <2>1 DEF FileInv
  <2>3. KeysInv /\ UploadsInv /\ NumbersInv  BY DEF StoreInv
  <2>4. SUFFICES \A a \in avatars' : a.key \in bucket' \/ \E c \in calls' : Going(a, c)
    BY DEF FileInv
  <2>5. CASE UNCHANGED filesVars  BY <2>2, <2>5 DEF filesVars
  <2>6. CASE Sends  BY <2>2, <2>6 DEF Sends, Send
  <2>7. CASE Takes  BY <2>2, <2>7 DEF Takes, Answered
  <2>8. ASSUME NEW k \in unlink, deleteImage(k)
        PROVE  \A a \in avatars' : a.key \in bucket' \/ \E c \in calls' : Going(a, c)
    BY <2>2, <2>3, <2>8 DEF deleteImage, KeysInv
  <2>9. ASSUME NEW c \in calls, CallStep(c)
        PROVE  \A a \in avatars' : a.key \in bucket' \/ \E d \in calls' : Going(a, d)
    <3>1. calls \ {c} \subseteq calls'
      BY <2>9 DEF CallStep, savePostPhoto, addPostPhoto, findPostPhotos, deleteAllPostPhotos,
                  findAvatar, deleteAvatarImage, deleteAvatar, saveAvatar, addAvatar, Advance
    <3>2. ASSUME avatars' = avatars, bucket \subseteq bucket', ~(c.op \in AvatarOps /\ c.pc = "delete")
          PROVE  \A a \in avatars' : a.key \in bucket' \/ \E d \in calls' : Going(a, d)
      BY <2>2, <3>1, <3>2
    <3>3. CASE savePostPhoto(c) \/ addPostPhoto(c) \/ findPostPhotos(c) \/ deleteAllPostPhotos(c)
      BY <3>2, <3>3 DEF savePostPhoto, addPostPhoto, findPostPhotos, deleteAllPostPhotos, CallAt, AvatarOps
    <3>4. CASE findAvatar(c) \/ saveAvatar(c)
      BY <3>2, <3>4 DEF findAvatar, saveAvatar, CallAt
    <3>5. CASE deleteAvatarImage(c)
      <4>1. PICK new : Becomes(c, new) /\ new.pc = "delete"
        BY <2>3, <3>5, Advances DEF deleteAvatarImage
      <4>2. new \in calls' /\ Found(c) /\ new.op \in AvatarOps /\ new.about = c.about
        BY <3>5, <4>1 DEF Becomes, deleteAvatarImage, CallAt, Found
      <4>3. avatars' = avatars /\ bucket' = bucket \ {c.key} /\ c.pc = "unlink"
        BY <3>5 DEF deleteAvatarImage, CallAt
      <4> TAKE a \in avatars'
      <4>4. CASE a.key = c.key  BY <2>3, <4>1, <4>2, <4>3, <4>4 DEF KeysInv
      <4>5. CASE a.key # c.key  BY <2>2, <3>1, <4>3, <4>5
      <4> QED BY <4>4, <4>5
    <3>6. CASE deleteAvatar(c)
      <4>1. bucket' = bucket /\ \A a \in avatars' : a \in avatars /\ a.owner # c.about
        BY <3>6 DEF deleteAvatar, AvatarsOf
      <4> QED BY <2>2, <3>1, <4>1
    <3>7. CASE addAvatar(c)
      <4>1. c.op = "uploadAvatar" /\ c.pc = "insert" /\ bucket' = bucket
        BY <3>7 DEF addAvatar, CallAt
      <4>2. avatars' = avatars \/ avatars' = avatars \cup {[owner |-> c.about, key |-> c.no]}
        BY <3>7 DEF addAvatar
      <4>3. c.no \in bucket  BY <2>3, <4>1 DEF UploadsInv
      <4>4. \A a \in avatars' : a \in avatars \/ a.key = c.no  BY <4>2
      <4> QED BY <2>2, <3>1, <4>1, <4>3, <4>4
    <3> QED BY <2>9, <3>3, <3>4, <3>5, <3>6, <3>7 DEF CallStep
  <2> QED BY <1>1, <2>1, <2>5, <2>6, <2>7, <2>8, <2>9, FilesSteps
<1> QED BY <1>2, <1>3

LEMMA InitStored == Init => StoredInv
<1> SUFFICES ASSUME Init PROVE StoredInv
  OBVIOUS
<1>1. scene \in Scenes /\ scene.posts \in Nat /\ scene.faults \in Nat
  BY ScenesAssumption DEF Init
<1>2. /\ made = scene.posts /\ calls = {} /\ avatars = {} /\ unlink = {}
      /\ photos = {[post |-> i, key |-> i] : i \in 1..scene.posts}
      /\ job = [h \in Slots |-> Idle] /\ faults = scene.faults
  BY DEF Init, HandlersInit
<1>3. NumbersInv /\ UploadsInv /\ KeysInv  BY <1>1, <1>2 DEF NumbersInv, UploadsInv, KeysInv
<1>4. FaultsInv /\ FileInv /\ FilesAsked  BY <1>1, <1>2 DEF FaultsInv, FileInv, FilesAsked, Busy
<1> QED BY <1>3, <1>4 DEF StoredInv

\* What the files service holds, and what its calls are about to do, fit together.
THEOREM FilesKept == Spec => []StoredInv
<1>1. LikeInv /\ StoredInv /\ [Next]_vars => StoredInv'
  <2> SUFFICES ASSUME LikeInv, StoredInv, [Next]_vars PROVE StoredInv'
    OBVIOUS
  <2>1. StoreInv /\ FaultsInv /\ FilesAsked /\ FileInv  BY DEF StoredInv, StoreInv
  <2>2. StoreInv' /\ FileInv'  BY <2>1, StoreNext, FileNext
  <2>3. FaultsInv'  BY <2>1, FilesSteps DEF FaultsInv
  <2>4. FilesAsked'  BY <2>1, FilesAskedNext DEF LikeInv
  <2> QED BY <2>2, <2>3, <2>4 DEF StoredInv, StoreInv
<1> QED BY <1>1, InitStored, LikesKept, PTL DEF Spec

\* Whatever uploads and deletions of avatars overlap, no avatar is without its file
\* but while a call about its owner is under way, unless something failed.
THEOREM AvatarKept == Spec => []AvatarHasItsFile
<1>1. StoredInv => AvatarHasItsFile  BY DEF StoredInv, FileInv, AvatarHasItsFile
<1> QED BY <1>1, FilesKept, PTL

(***************************************************************************)
(* Types: the rows, and what requests are asked with and have learnt.      *)
(***************************************************************************)

TableNames == {"user", "post", "comment", "like", "commentLike", "follow", "banned"}

RowsTyped(d, time) ==
  /\ d.post \in Seq(PostRows(time) \cup {Gone}) /\ Len(d.post) <= MaxPosts
  /\ d.comment \in Seq(CommentRows(time) \cup {Gone})
  /\ d.like \in Seq(LikeRows \cup {Gone}) /\ d.commentLike \in Seq(LikeRows \cup {Gone})
  /\ d.user \subseteq Users
  /\ d.follow \subseteq d.user \X d.user /\ d.banned \subseteq d.user

\* Users stay, and the ids of posts and comments; the time goes on.
Grows(d, time, new, later) ==
  /\ new.user = d.user
  /\ DOMAIN d.post \subseteq DOMAIN new.post /\ DOMAIN d.comment \subseteq DOMAIN new.comment
  /\ time \in Nat /\ later \in Nat /\ time <= later

AskTyped(j, d) ==
  /\ j.op \in Ops
  /\ j.op = "addPost" => j.arg.user \in d.user \cup {Stranger} /\ j.arg.files \in 1..MaxFiles
  /\ j.op \in {"updatePost", "deletePost", "comment", "likePost"} =>
       j.arg.user \in d.user /\ j.arg.post \in DOMAIN d.post
  /\ j.op \in {"answer", "likeComment"} => j.arg.user \in d.user /\ j.arg.comment \in DOMAIN d.comment
  /\ j.op = "likeComment" => j.arg.status \in LikeStatuses
  /\ j.op \in FollowOps => j.arg.user \in d.user /\ j.arg.other \in d.user \cup {Stranger}
  /\ j.op \in AvatarOps => j.arg.user \in d.user

LearntTyped(j, d, time) ==
  /\ j.op = "addPost" /\ j.pc # "find" => j.arg.user \in d.user
  /\ j.op = "addPost" /\ j.pc \in {"calls", "commit"} =>
       j.got["post"].id \in DOMAIN d.post /\ j.got["post"].created \in 0..time
  /\ j.op = "updatePost" /\ j.pc = "write" => j.got["date"] \in 0..time
  /\ j.op \in {"comment", "answer"} /\ j.pc = "write" => j.got["post"] \in Nat \ {0}
  /\ j.op \in FollowOps /\ j.pc # "find" => j.arg.other \in d.user

JobTyped(j, d, time) == AskTyped(j, d) /\ LearntTyped(j, d, time)

StateTyped ==
  /\ RowsTyped(tables, now) /\ now \in Nat
  /\ TableNames \subseteq DOMAIN tables
  /\ broken \subseteq 1..MaxPosts /\ oops \subseteq Ops /\ scene.ops \subseteq Ops
  /\ moves \in Nat /\ faults \in Nat
  /\ \A h \in Slots : Busy(h) => JobTyped(job[h], tables, now)

LEMMA LaterTyped ==
  ASSUME NEW j, NEW d, NEW time, NEW new, NEW later, Grows(d, time, new, later), JobTyped(j, d, time)
  PROVE  JobTyped(j, new, later)
<1>1. AskTyped(j, new)
  BY DEF AskTyped, JobTyped, Grows
<1>2. LearntTyped(j, new, later)
  BY DEF LearntTyped, JobTyped, Grows
<1> QED BY <1>1, <1>2 DEF JobTyped

LEMMA SameTyped ==
  ASSUME NEW i, NEW j, NEW d, NEW time, JobTyped(i, d, time), j.op = i.op, j.arg = i.arg,
         j.pc = i.pc, j.got = i.got
  PROVE  JobTyped(j, d, time)
BY DEF JobTyped, AskTyped, LearntTyped

LEMMA RowsLater ==
  ASSUME NEW d, NEW time \in Nat, NEW later \in Nat, time <= later, RowsTyped(d, time)
  PROVE  RowsTyped(d, later)
<1>1. PostRows(time) \subseteq PostRows(later) /\ CommentRows(time) \subseteq CommentRows(later)
  <2>1. 0..time \subseteq 0..later
    OBVIOUS
  <2>2. \A T, U : T \subseteq U =>
          /\ [live : {TRUE}, owner : Users, created : T, updated : T, files : 0..MaxFiles]
                \subseteq [live : {TRUE}, owner : Users, created : U, updated : U, files : 0..MaxFiles]
          /\ [live : {TRUE}, owner : Users, post : Nat \ {0}, answers : Nat, created : T]
                \subseteq [live : {TRUE}, owner : Users, post : Nat \ {0}, answers : Nat, created : U]
    OBVIOUS
  <2> QED BY <2>1, <2>2 DEF PostRows, CommentRows
<1>2. d.post \in Seq(PostRows(later) \cup {Gone})
  BY <1>1, SeqMonotonic DEF RowsTyped
<1>3. d.comment \in Seq(CommentRows(later) \cup {Gone})
  BY <1>1, SeqMonotonic DEF RowsTyped
<1> QED BY <1>2, <1>3 DEF RowsTyped

LEMMA RowIsTyped ==
  ASSUME NEW R, NEW table \in Seq(R \cup {Gone}), NEW i \in LiveRows(table)
  PROVE  table[i] \in R /\ i \in 1..Len(table) /\ i \in DOMAIN table
<1>1. DOMAIN table = 1..Len(table) /\ i \in DOMAIN table /\ table[i].live
  BY LenProperties DEF LiveRows
<1>2. table[i] \in R \cup {Gone}
  BY <1>1, ElementOfSeq
<1> QED BY <1>1, <1>2 DEF Gone

LEMMA RowChanged ==
  ASSUME NEW R, NEW table \in Seq(R), NEW i \in DOMAIN table, NEW row \in R
  PROVE  /\ [table EXCEPT ![i] = row] \in Seq(R)
         /\ Len([table EXCEPT ![i] = row]) = Len(table)
         /\ DOMAIN [table EXCEPT ![i] = row] = DOMAIN table
BY LenProperties, ExceptSeq

LEMMA RowsDeleted ==
  ASSUME NEW R, NEW table \in Seq(R \cup {Gone}), NEW gone
  PROVE  /\ DeleteRows(table, gone) \in Seq(R \cup {Gone})
         /\ DOMAIN DeleteRows(table, gone) = DOMAIN table
         /\ Len(DeleteRows(table, gone)) = Len(table)
<1> DEFINE t == DeleteRows(table, gone)  S == R \cup {Gone}
<1>1. Len(table) \in Nat /\ DOMAIN table = 1..Len(table) /\ \A i \in DOMAIN table : table[i] \in S
  BY LenProperties, ElementOfSeq
<1>2. t \in [1..Len(table) -> S]
  BY <1>1 DEF DeleteRows
<1> HIDE DEF t, S
<1>3. t \in Seq(S)
  BY <1>1, <1>2, IsASeq
<1>4. DOMAIN t = 1..Len(table)
  BY <1>2
<1>5. Len(t) = Len(table)
  BY <1>1, <1>3, <1>4, LenProperties
<1> QED BY <1>1, <1>3, <1>4, <1>5 DEF t, S

LEMMA RowAdded ==
  ASSUME NEW R, NEW table \in Seq(R), NEW row \in R
  PROVE  /\ Append(table, row) \in Seq(R) /\ Len(Append(table, row)) = Len(table) + 1
         /\ DOMAIN table \subseteq DOMAIN Append(table, row)
         /\ Len(table) + 1 \in DOMAIN Append(table, row)
BY LenProperties, AppendProperties

\* One table changes.
LEMMA OneTable ==
  ASSUME RowsTyped(tables, now), now \in Nat, TableNames \subseteq DOMAIN tables
  PROVE  /\ \A t \in Seq(PostRows(now) \cup {Gone}) :
              Len(t) <= MaxPosts /\ DOMAIN tables.post \subseteq DOMAIN t =>
                LET d == [tables EXCEPT !.post = t] IN RowsTyped(d, now) /\ Grows(tables, now, d, now)
         /\ \A t \in Seq(CommentRows(now) \cup {Gone}) :
              DOMAIN tables.comment \subseteq DOMAIN t =>
                LET d == [tables EXCEPT !.comment = t] IN RowsTyped(d, now) /\ Grows(tables, now, d, now)
         /\ \A t \in Seq(LikeRows \cup {Gone}) :
              LET d == [tables EXCEPT !.like = t] IN RowsTyped(d, now) /\ Grows(tables, now, d, now)
         /\ \A t \in Seq(LikeRows \cup {Gone}) :
              LET d == [tables EXCEPT !.commentLike = t] IN RowsTyped(d, now) /\ Grows(tables, now, d, now)
         /\ \A t \in SUBSET (tables.user \X tables.user) :
              LET d == [tables EXCEPT !.follow = t] IN RowsTyped(d, now) /\ Grows(tables, now, d, now)
         /\ \A t \in SUBSET tables.user :
              LET d == [tables EXCEPT !.banned = t] IN RowsTyped(d, now) /\ Grows(tables, now, d, now)
BY DEF RowsTyped, Grows, TableNames

\* What becomes of the tables is typed, and grows.
Fits(d) == d = Thrown \/ (RowsTyped(d, now) /\ Grows(tables, now, d, now) /\ TableNames \subseteq DOMAIN d)

LEMMA StatementFits ==
  ASSUME StateTyped, NEW ok, NEW d, DOMAIN d = DOMAIN tables,
         ok => RowsTyped(d, now) /\ Grows(tables, now, d, now)
  PROVE  Fits(Statement(tables, ok, d))
BY DEF Statement, Fits, StateTyped

LEMMA PostsFit ==
  ASSUME StateTyped
  PROVE  /\ \A id \in DOMAIN tables.post, owner \in tables.user, created \in 0..now, files \in 0..MaxFiles :
              Fits(addPost(tables, id, owner, created, files))
         /\ \A p : \A date \in 0..now : Fits(updatePost(tables, p, date))
<1> DEFINE R == PostRows(now)
<1>1. /\ tables.post \in Seq(R \cup {Gone}) /\ Len(tables.post) <= MaxPosts
      /\ RowsTyped(tables, now) /\ now \in Nat /\ TableNames \subseteq DOMAIN tables
      /\ tables.user \subseteq Users
  BY DEF StateTyped, RowsTyped
<1> HIDE DEF R
<1>2. ASSUME NEW id \in DOMAIN tables.post, NEW row \in PostRows(now)
      PROVE  LET d == [tables EXCEPT !.post = [tables.post EXCEPT ![id] = row]] IN
             RowsTyped(d, now) /\ Grows(tables, now, d, now)
  <2> DEFINE t == [tables.post EXCEPT ![id] = row]
  <2>1. t \in Seq(PostRows(now) \cup {Gone}) /\ Len(t) = Len(tables.post) /\ DOMAIN t = DOMAIN tables.post
    BY <1>1, RowChanged DEF R
  <2> HIDE DEF t
  <2>2. LET d == [tables EXCEPT !.post = t] IN RowsTyped(d, now) /\ Grows(tables, now, d, now)
    BY <1>1, <2>1, OneTable
  <2> QED BY <2>2 DEF t
<1>3. ASSUME NEW id \in DOMAIN tables.post, NEW owner \in tables.user, NEW created \in 0..now,
             NEW files \in 0..MaxFiles
      PROVE  Fits(addPost(tables, id, owner, created, files))
  <2>1. PostRow(owner, created, files) \in PostRows(now)
    BY <1>1 DEF PostRow, PostRows
  <2> DEFINE row == PostRow(owner, created, files)
             d == [tables EXCEPT !.post = [tables.post EXCEPT ![id] = row]]
  <2> HIDE DEF row
  <2>2. RowsTyped(d, now) /\ Grows(tables, now, d, now)
    BY <1>2, <2>1 DEF row
  <2>3. addPost(tables, id, owner, created, files) = Statement(tables, owner \in tables.user, d)
    BY DEF addPost, row
  <2>4. DOMAIN d = DOMAIN tables
    OBVIOUS
  <2> HIDE DEF d
  <2> QED BY <2>2, <2>3, <2>4, StatementFits
<1>4. ASSUME NEW p, NEW date \in 0..now PROVE Fits(updatePost(tables, p, date))
  <2> DEFINE row == [tables.post[p] EXCEPT !.updated = date]
             d == [tables EXCEPT !.post = [tables.post EXCEPT ![p] = row]]
  <2>1. ASSUME IsRow(tables.post, p) PROVE RowsTyped(d, now) /\ Grows(tables, now, d, now)
    <3>1. tables.post[p] \in R /\ p \in DOMAIN tables.post
      BY <1>1, <2>1, RowIsTyped DEF IsRow
    <3>2. row \in PostRows(now)
      BY <3>1 DEF PostRows, R
    <3> HIDE DEF row
    <3> QED BY <1>2, <3>1, <3>2
  <2>2. updatePost(tables, p, date) = Statement(tables, IsRow(tables.post, p), d)
    BY DEF updatePost
  <2>3. DOMAIN d = DOMAIN tables
    OBVIOUS
  <2> HIDE DEF d
  <2> QED BY <2>1, <2>2, <2>3, StatementFits
<1> QED BY <1>3, <1>4

LEMMA LikesFit ==
  ASSUME StateTyped
  PROVE  /\ \A p \in Nat \ {0}, u \in Users, alone \in BOOLEAN : Fits(addLike(tables, p, u, alone))
         /\ \A c \in Nat \ {0}, u \in Users, s \in LikeStatuses, alone \in BOOLEAN :
              Fits(addCommentLike(tables, c, u, s, alone))
         /\ \A k : \A s \in LikeStatuses : /\ Fits(updateLike(tables, k, s))
                                      /\ Fits(updateCommentLike(tables, k, s))
<1>1. /\ tables.like \in Seq(LikeRows \cup {Gone}) /\ tables.commentLike \in Seq(LikeRows \cup {Gone})
      /\ RowsTyped(tables, now) /\ now \in Nat /\ TableNames \subseteq DOMAIN tables
  BY DEF StateTyped, RowsTyped
<1>2. ASSUME NEW on \in Nat \ {0}, NEW u \in Users, NEW s \in LikeStatuses, NEW alone \in BOOLEAN,
             NEW table \in Seq(LikeRows \cup {Gone})
      PROVE  Append(table, NewLike(on, u, s, alone)) \in Seq(LikeRows \cup {Gone})
  <2>1. NewLike(on, u, s, alone) \in LikeRows
    BY DEF NewLike, LikeRows
  <2> QED BY <2>1, RowAdded
<1>3. ASSUME NEW table \in Seq(LikeRows \cup {Gone}), NEW k, IsRow(table, k), NEW s \in LikeStatuses
      PROVE  [table EXCEPT ![k].status = s] \in Seq(LikeRows \cup {Gone})
  <2> DEFINE row == [table[k] EXCEPT !.status = s]
  <2>1. table[k] \in LikeRows /\ k \in DOMAIN table
    BY <1>3, RowIsTyped DEF IsRow
  <2>2. row \in LikeRows \cup {Gone}
    BY <2>1 DEF LikeRows
  <2> HIDE DEF row
  <2>3. [table EXCEPT ![k] = row] \in Seq(LikeRows \cup {Gone})
    BY <2>1, <2>2, RowChanged
  <2> QED BY <2>3 DEF row
<1>4. ASSUME NEW ok, NEW t, ok => t \in Seq(LikeRows \cup {Gone})
      PROVE  /\ Fits(Statement(tables, ok, [tables EXCEPT !.like = t]))
             /\ Fits(Statement(tables, ok, [tables EXCEPT !.commentLike = t]))
  <2> DEFINE d == [tables EXCEPT !.like = t]  e == [tables EXCEPT !.commentLike = t]
  <2>1. DOMAIN d = DOMAIN tables /\ DOMAIN e = DOMAIN tables
    OBVIOUS
  <2>2. ok => /\ RowsTyped(d, now) /\ Grows(tables, now, d, now)
              /\ RowsTyped(e, now) /\ Grows(tables, now, e, now)
    BY <1>1, <1>4, OneTable
  <2> HIDE DEF d, e
  <2>3. Fits(Statement(tables, ok, d)) /\ Fits(Statement(tables, ok, e))
    BY <2>1, <2>2, StatementFits
  <2> QED BY <2>3 DEF d, e
<1>5. ASSUME NEW p \in Nat \ {0}, NEW u \in Users, NEW alone \in BOOLEAN
      PROVE  Fits(addLike(tables, p, u, alone))
  <2>1. Append(tables.like, NewLike(p, u, "like", alone)) \in Seq(LikeRows \cup {Gone})
    BY <1>1, <1>2 DEF LikeStatuses
  <2> QED BY <1>4, <2>1 DEF addLike
<1>6. ASSUME NEW c \in Nat \ {0}, NEW u \in Users, NEW s \in LikeStatuses, NEW alone \in BOOLEAN
      PROVE  Fits(addCommentLike(tables, c, u, s, alone))
  <2>1. Append(tables.commentLike, NewLike(c, u, s, alone)) \in Seq(LikeRows \cup {Gone})
    BY <1>1, <1>2
  <2> QED BY <1>4, <2>1 DEF addCommentLike
<1>7. ASSUME NEW k, NEW s \in LikeStatuses PROVE Fits(updateLike(tables, k, s))
  <2> DEFINE t == [tables.like EXCEPT ![k].status = s]
  <2>1. IsRow(tables.like, k) => t \in Seq(LikeRows \cup {Gone})
    BY <1>1, <1>3
  <2>2. updateLike(tables, k, s) = Statement(tables, IsRow(tables.like, k), [tables EXCEPT !.like = t])
    BY DEF updateLike
  <2> HIDE DEF t
  <2> QED BY <1>4, <2>1, <2>2
<1>8. ASSUME NEW k, NEW s \in LikeStatuses PROVE Fits(updateCommentLike(tables, k, s))
  <2> DEFINE t == [tables.commentLike EXCEPT ![k].status = s]
  <2>1. IsRow(tables.commentLike, k) => t \in Seq(LikeRows \cup {Gone})
    BY <1>1, <1>3
  <2>2. updateCommentLike(tables, k, s)
          = Statement(tables, IsRow(tables.commentLike, k), [tables EXCEPT !.commentLike = t])
    BY DEF updateCommentLike
  <2> HIDE DEF t
  <2> QED BY <1>4, <2>1, <2>2
<1> QED BY <1>5, <1>6, <1>7, <1>8

LEMMA OthersFit ==
  ASSUME StateTyped
  PROVE  /\ \A p \in Nat \ {0}, u \in Users, answers \in Nat : Fits(addComment(tables, p, u, answers, now))
         /\ \A pair \in tables.user \X tables.user : Fits(createFollow(tables, pair))
         /\ \A pair : Fits(deleteFollow(tables, pair))
<1>1. /\ tables.comment \in Seq(CommentRows(now) \cup {Gone})
      /\ RowsTyped(tables, now) /\ now \in Nat /\ TableNames \subseteq DOMAIN tables
      /\ tables.follow \subseteq tables.user \X tables.user
  BY DEF StateTyped, RowsTyped
<1>2. ASSUME NEW p \in Nat \ {0}, NEW u \in Users, NEW answers \in Nat
      PROVE  Fits(addComment(tables, p, u, answers, now))
  <2> DEFINE row == CommentRow(u, p, answers, now)  t == Append(tables.comment, row)
             d == [tables EXCEPT !.comment = t]
             ok == IsRow(tables.post, p) /\ (answers = 0 \/ IsRow(tables.comment, answers))
  <2>1. row \in CommentRows(now) \cup {Gone}
    BY <1>1 DEF CommentRow, CommentRows
  <2> HIDE DEF row
  <2>2. t \in Seq(CommentRows(now) \cup {Gone}) /\ DOMAIN tables.comment \subseteq DOMAIN t
    BY <1>1, <2>1, RowAdded
  <2> HIDE DEF t
  <2>3. RowsTyped(d, now) /\ Grows(tables, now, d, now)
    BY <1>1, <2>2, OneTable
  <2>4. DOMAIN d = DOMAIN tables /\ addComment(tables, p, u, answers, now) = Statement(tables, ok, d)
    BY DEF addComment, t, row
  <2> HIDE DEF d, ok
  <2> QED BY <2>3, <2>4, StatementFits
<1>3. ASSUME NEW ok, NEW t, ok => t \subseteq tables.user \X tables.user
      PROVE  Fits(Statement(tables, ok, [tables EXCEPT !.follow = t]))
  <2> DEFINE d == [tables EXCEPT !.follow = t]
  <2>1. DOMAIN d = DOMAIN tables
    OBVIOUS
  <2>2. ok => RowsTyped(d, now) /\ Grows(tables, now, d, now)
    BY <1>1, <1>3, OneTable
  <2> HIDE DEF d
  <2>3. Fits(Statement(tables, ok, d))
    BY <2>1, <2>2, StatementFits
  <2> QED BY <2>3 DEF d
<1>4. \A pair \in tables.user \X tables.user : Fits(createFollow(tables, pair))
  BY <1>1, <1>3 DEF createFollow
<1>5. \A pair : Fits(deleteFollow(tables, pair))
  BY <1>1, <1>3 DEF deleteFollow
<1> QED BY <1>2, <1>4, <1>5

LEMMA DeletionFits == ASSUME StateTyped, NEW p PROVE Fits(deletePost(tables, p))
<1> DEFINE gone == {c \in LiveRows(tables.comment) : tables.comment[c].post = p}
           posts == [tables.post EXCEPT ![p] = Gone]
           comments == DeleteRows(tables.comment, gone)
           likes == DeleteRows(tables.like, LikesOn(tables.like, p))
           commentLikes == DeleteRows(tables.commentLike, UNION {LikesOn(tables.commentLike, c) : c \in gone})
           d == [tables EXCEPT !.post = posts, !.comment = comments, !.like = likes,
                               !.commentLike = commentLikes]
<1>1. /\ RowsTyped(tables, now) /\ now \in Nat /\ TableNames \subseteq DOMAIN tables
  BY DEF StateTyped
<1>2. /\ comments \in Seq(CommentRows(now) \cup {Gone}) /\ DOMAIN comments = DOMAIN tables.comment
      /\ likes \in Seq(LikeRows \cup {Gone}) /\ commentLikes \in Seq(LikeRows \cup {Gone})
  BY <1>1, RowsDeleted DEF RowsTyped
<1>3. ASSUME IsRow(tables.post, p)
      PROVE  /\ posts \in Seq(PostRows(now) \cup {Gone}) /\ Len(posts) = Len(tables.post)
             /\ DOMAIN posts = DOMAIN tables.post
  <2>1. p \in DOMAIN tables.post
    BY <1>3 DEF IsRow, LiveRows
  <2> QED BY <1>1, <2>1, RowChanged DEF RowsTyped
<1>4. deletePost(tables, p) = Statement(tables, IsRow(tables.post, p), d)
  BY DEF deletePost
<1> HIDE DEF gone, posts, comments, likes, commentLikes
<1>5. IsRow(tables.post, p) => RowsTyped(d, now) /\ Grows(tables, now, d, now)
  BY <1>1, <1>2, <1>3 DEF RowsTyped, Grows, TableNames
<1>6. DOMAIN d = DOMAIN tables
  OBVIOUS
<1> HIDE DEF d
<1> QED BY <1>4, <1>5, <1>6, StatementFits

(***************************************************************************)
(* The steps of a handler.                                                 *)
(***************************************************************************)

\* A handler calls about a post, or about a user.
CallsTyped ==
  \E n \in Nat : \E op, about, pc :
    /\ Send(n, op, about, pc) /\ pc \in {"put", "find"}
    /\ \/ op \in {"uploadPostPhoto", "deletePostPhotos"} /\ about \in 1..MaxPosts
       \/ op \in AvatarOps /\ about \in Users

StepTyped(h) ==
  /\ RowsTyped(tables', now') /\ Grows(tables, now, tables', now') /\ TableNames \subseteq DOMAIN tables'
  /\ broken' \subseteq 1..MaxPosts /\ oops' \subseteq Ops /\ scene' = scene
  /\ moves' \in Nat /\ faults' \in Nat
  /\ job' = [job EXCEPT ![h] = job'[h]]
  /\ job'[h] = Idle \/ JobTyped(job'[h], tables', now')
  /\ UNCHANGED filesVars \/ CallsTyped

LEMMA NothingGrows ==
  ASSUME StateTyped
  PROVE  /\ RowsTyped(tables, now) /\ Grows(tables, now, tables, now) /\ TableNames \subseteq DOMAIN tables
         /\ broken \subseteq 1..MaxPosts /\ oops \subseteq Ops /\ moves \in Nat /\ faults \in Nat
         /\ DOMAIN tables.post \subseteq 1..MaxPosts /\ DOMAIN tables.comment \subseteq Nat \ {0}
         /\ Len(tables.post) \in Nat
<1>1. RowsTyped(tables, now) /\ Len(tables.post) <= MaxPosts
  BY DEF StateTyped, RowsTyped
<1>2. /\ DOMAIN tables.post = 1..Len(tables.post) /\ DOMAIN tables.comment = 1..Len(tables.comment)
      /\ Len(tables.post) \in Nat /\ Len(tables.comment) \in Nat
  BY <1>1, LenProperties DEF RowsTyped
<1> QED BY <1>1, <1>2, SocialBounds DEF StateTyped, Grows

LEMMA WorkTyped ==
  ASSUME StateTyped, NEW h \in Slots
  PROVE  PostInWork(h) \subseteq 1..MaxPosts
<1>1. At(h, {"addPost"}, "calls") \/ At(h, {"addPost"}, "commit") => Got(h, "post").id \in DOMAIN tables.post
  BY DEF At, StateTyped, JobTyped, LearntTyped, Got
<1>2. At(h, {"deletePost"}, "calls") \/ At(h, {"deletePost"}, "commit") => Arg(h).post \in DOMAIN tables.post
  BY DEF At, StateTyped, JobTyped, AskTyped, Arg
<1> QED BY <1>1, <1>2, NothingGrows DEF PostInWork

LEMMA AnswerTyped ==
  ASSUME StateTyped, JobsInv, NEW h \in Slots, Busy(h), NEW endpoint, NEW result,
         Answer(h, endpoint, result)
  PROVE  StepTyped(h)
<1>1. job[h].op \in Ops
  BY DEF StateTyped, JobTyped, AskTyped
<1>2. job' = [job EXCEPT ![h] = Idle] /\ job'[h] = Idle
  BY DEF Answer, Reply, JobsInv
<1> QED BY <1>1, <1>2, NothingGrows DEF Answer, Reply, StepTyped

LEMMA CommitTyped ==
  ASSUME StateTyped, JobsInv, NEW h \in Slots, Busy(h), NEW endpoint, NEW new, Fits(new),
         Commit(h, new, endpoint)
  PROVE  StepTyped(h)
<1>1. job[h].op \in Ops
  BY DEF StateTyped, JobTyped, AskTyped
<1>2. job' = [job EXCEPT ![h] = Idle] /\ job'[h] = Idle
  BY DEF Commit, Reply, JobsInv
<1>3. broken' \subseteq 1..MaxPosts
  BY NothingGrows, WorkTyped DEF Commit
<1>4. /\ RowsTyped(tables', now') /\ Grows(tables, now, tables', now')
      /\ TableNames \subseteq DOMAIN tables'
  BY NothingGrows DEF Commit, Fits
<1> QED BY <1>1, <1>2, <1>3, <1>4, NothingGrows DEF Commit, Reply, StepTyped

\* The request of h has learnt value by name and stands at pc, or where it stood.
Learns(h, name, value, pc) ==
  /\ job' = [job EXCEPT ![h] = job'[h]] /\ DOMAIN job'[h] = Fields
  /\ job'[h].op = job[h].op /\ job'[h].arg = job[h].arg /\ job'[h].alone = job[h].alone
  /\ job'[h].todo = job[h].todo \ {name}
  /\ job'[h].pc = IF job'[h].todo = {} THEN pc ELSE job[h].pc
  /\ job'[h].got[name] = value /\ DOMAIN job'[h].got = DOMAIN job[h].got \cup {name}
  /\ \A other \in DOMAIN job[h].got : other # name => job'[h].got[other] = job[h].got[other]

LEMMA LearnLearns ==
  ASSUME JobsInv, NEW h \in Slots, Busy(h), NEW name, NEW value, NEW pc, Learn(h, name, value, pc)
  PROVE  Learns(h, name, value, pc)
<1>1. DOMAIN job = Slots /\ DOMAIN job[h] = Fields
  BY DEF JobsInv, Fields
<1>2. /\ job' = [job EXCEPT ![h] = job'[h]] /\ DOMAIN job'[h] = Fields
      /\ job'[h].op = job[h].op /\ job'[h].arg = job[h].arg /\ job'[h].alone = job[h].alone
      /\ job'[h].todo = job[h].todo \ {name}
      /\ job'[h].pc = IF job[h].todo \ {name} = {} THEN pc ELSE job[h].pc
      /\ job'[h].got = With(job[h].got, name, value)
  BY <1>1 DEF Learn, Fields
<1> QED BY <1>2 DEF Learns, With

LEMMA ReadTyped ==
  ASSUME StateTyped, JobsInv, NEW h \in Slots, Busy(h), NEW name, NEW values, NEW pc,
         Read(h, name, values, pc),
         \A j : \A v \in values :
                            /\ j.op = job[h].op /\ j.arg = job[h].arg
                             /\ j.pc \in {pc, job[h].pc} /\ j.got[name] = v
                            => LearntTyped(j, tables, now)
  PROVE  StepTyped(h)
<1>1. PICK v \in values : Learn(h, name, v, pc)
  BY DEF Read
<1>2. Learns(h, name, v, pc)
  BY <1>1, LearnLearns
<1>3. LearntTyped(job'[h], tables, now)
  BY <1>2 DEF Learns
<1>4. AskTyped(job'[h], tables)
  BY <1>2 DEF Learns, AskTyped, StateTyped, JobTyped
<1> QED BY <1>1, <1>2, <1>3, <1>4, NothingGrows DEF Read, Learn, Learns, StepTyped, JobTyped

LEMMA CallFilesTyped ==
  ASSUME StateTyped, JobsInv, NEW h \in Slots, Busy(h), NEW name, NEW value, NEW n \in Nat, NEW op,
         NEW about, NEW pc \in {"put", "find"}, CallFiles(h, name, value, n, op, about, pc),
         \/ op \in {"uploadPostPhoto", "deletePostPhotos"} /\ about \in 1..MaxPosts
         \/ op \in AvatarOps /\ about \in Users,
         RowsTyped(tables', now), Grows(tables, now, tables', now), DOMAIN tables' = DOMAIN tables,
         \A j : /\ j.op = job[h].op /\ j.arg = job[h].arg /\ j.pc = "calls" /\ j.got[name] = value
               => LearntTyped(j, tables', now)
  PROVE  StepTyped(h)
<1>1. DOMAIN job = Slots /\ DOMAIN job[h] = Fields
  BY DEF JobsInv, Fields
<1>2. /\ job' = [job EXCEPT ![h] = job'[h]]
      /\ job'[h].op = job[h].op /\ job'[h].arg = job[h].arg /\ job'[h].pc = "calls"
      /\ job'[h].got = With(job[h].got, name, value)
  BY <1>1 DEF CallFiles, Expect, Fields
<1>3. LearntTyped(job'[h], tables', now)
  BY <1>2 DEF With
<1>4. JobTyped(job'[h], tables', now)
  <2>1. JobTyped(job[h], tables', now)
    BY LaterTyped DEF StateTyped
  <2> QED BY <1>2, <1>3, <2>1 DEF JobTyped, AskTyped
<1>5. now' = now /\ broken' = broken /\ oops' = oops /\ scene' = scene /\ moves' = moves /\ faults' = faults
  BY DEF CallFiles, Expect
<1>6. CallsTyped
  BY DEF CallFiles, CallsTyped
<1> QED BY <1>2, <1>4, <1>5, <1>6, NothingGrows DEF StepTyped

LEMMA PostStepsTyped ==
  ASSUME StateTyped, JobsInv, NEW h \in Slots, PostSteps(h)
  PROVE  StepTyped(h)
<1> USE DEF At
<1>1. Busy(h)
  BY DEF PostSteps, AddPostFinds, AddPostUploads, AddPostEnds, UpdatePostFinds, UpdatePostEnds,
     DeletePostFinds, DeletePostEnds, LikeReads, LikePostEnds, LikeCommentEnds, CommentReads,
     CommentEnds, AnswerEnds
<1>2. JobTyped(job[h], tables, now)
  BY <1>1 DEF StateTyped
<1>3. ASSUME AddPostFinds(h) PROVE StepTyped(h)
  <2>1. CASE ~getUserById(tables, Arg(h).user)
    BY <1>1, <1>3, <2>1, AnswerTyped DEF AddPostFinds
  <2>2. CASE getUserById(tables, Arg(h).user)
    <3>1. Read(h, "user", {Arg(h).user}, "create") /\ job[h].op = "addPost" /\ job[h].pc = "find"
      BY <1>3, <2>2 DEF AddPostFinds
    <3>2. \A j : j.op = "addPost" /\ j.arg = job[h].arg /\ j.pc \in {"create", "find"}
                => LearntTyped(j, tables, now)
      BY <2>2 DEF LearntTyped, getUserById, Arg, FollowOps
    <3> QED BY <1>1, <3>1, <3>2, ReadTyped
  <2> QED BY <2>1, <2>2
<1>4. ASSUME AddPostUploads(h) PROVE StepTyped(h)
  <2> DEFINE t == Append(tables.post, Gone)  id == Len(tables.post) + 1
  <2>1. /\ CallFiles(h, "post", [id |-> id, created |-> now], Arg(h).files, "uploadPostPhoto", id, "put")
        /\ tables' = [tables EXCEPT !.post = t] /\ id <= MaxPosts
        /\ job[h].op = "addPost" /\ job[h].pc = "create"
    BY <1>4 DEF AddPostUploads
  <2>2. tables.post \in Seq(PostRows(now) \cup {Gone}) /\ Len(tables.post) \in Nat
    BY NothingGrows DEF RowsTyped
  <2>3. /\ t \in Seq(PostRows(now) \cup {Gone}) /\ Len(t) = id
        /\ DOMAIN tables.post \subseteq DOMAIN t /\ id \in DOMAIN t
    BY <2>2, RowAdded
  <2>4. Arg(h).files \in Nat /\ id \in 1..MaxPosts /\ job[h].arg.user \in tables.user
    BY <1>2, <2>1, <2>2, SocialBounds DEF JobTyped, AskTyped, LearntTyped, Arg
  <2> HIDE DEF t, id
  <2>5. RowsTyped(tables', now) /\ Grows(tables, now, tables', now) /\ DOMAIN tables' = DOMAIN tables
    BY <2>1, <2>3, OneTable DEF StateTyped
  <2>6. tables'.post = t /\ tables'.user = tables.user
    BY <2>1 DEF StateTyped, TableNames
  <2>7. \A j : j.op = "addPost" /\ j.arg = job[h].arg /\ j.pc = "calls"
              /\ j.got["post"] = [id |-> id, created |-> now] => LearntTyped(j, tables', now)
    BY <2>3, <2>4, <2>6 DEF LearntTyped, StateTyped, FollowOps
  <2> QED BY <1>1, <2>1, <2>4, <2>5, <2>7, CallFilesTyped
<1>5. ASSUME AddPostEnds(h) PROVE StepTyped(h)
  <2>1. job[h].op = "addPost" /\ job[h].pc = "commit"
    BY <1>5 DEF AddPostEnds
  <2>2. /\ Got(h, "post").id \in DOMAIN tables.post /\ Got(h, "post").created \in 0..now
        /\ Arg(h).user \in tables.user /\ Arg(h).files \in 0..MaxFiles
    BY <1>2, <2>1, SocialBounds DEF JobTyped, AskTyped, LearntTyped, Arg, Got
  <2>3. Fits(addPost(tables, Got(h, "post").id, Arg(h).user, Got(h, "post").created, Arg(h).files))
    BY <2>2, PostsFit
  <2> QED BY <1>1, <1>5, <2>3, CommitTyped DEF AddPostEnds
<1>6. ASSUME UpdatePostFinds(h) PROVE StepTyped(h)
  <2>1. CASE MineOrAnswer(h) # "Mine"
    BY <1>1, <1>6, <2>1, AnswerTyped DEF UpdatePostFinds
  <2>2. CASE MineOrAnswer(h) = "Mine"
    <3>1. Read(h, "date", {now}, "write") /\ job[h].op = "updatePost" /\ job[h].pc = "find"
      BY <1>6, <2>2 DEF UpdatePostFinds
    <3>2. \A j : \A v \in {now} :
            j.op = "updatePost" /\ j.arg = job[h].arg /\ j.pc \in {"write", "find"} /\ j.got["date"] = v
                => LearntTyped(j, tables, now)
      BY DEF LearntTyped, FollowOps, StateTyped
    <3> QED BY <1>1, <3>1, <3>2, ReadTyped
  <2> QED BY <2>1, <2>2
<1>7. ASSUME UpdatePostEnds(h) PROVE StepTyped(h)
  <2>1. Got(h, "date") \in 0..now
    BY <1>2, <1>7 DEF JobTyped, LearntTyped, Got, UpdatePostEnds
  <2> QED BY <1>1, <1>7, <2>1, PostsFit, CommitTyped DEF UpdatePostEnds
<1>8. ASSUME DeletePostFinds(h) PROVE StepTyped(h)
  <2>1. CASE MineOrAnswer(h) # "Mine"
    BY <1>1, <1>8, <2>1, AnswerTyped DEF DeletePostFinds
  <2>2. CASE MineOrAnswer(h) = "Mine"
    <3>1. /\ CallFiles(h, "post", Arg(h).post, 1, "deletePostPhotos", Arg(h).post, "find")
          /\ tables' = tables /\ job[h].op = "deletePost"
      BY <1>8, <2>2 DEF DeletePostFinds
    <3>2. Arg(h).post \in 1..MaxPosts
      BY <1>2, <3>1, NothingGrows DEF JobTyped, AskTyped, Arg
    <3>3. \A j : j.op = "deletePost" => LearntTyped(j, tables', now)
      BY DEF LearntTyped, FollowOps
    <3> QED BY <1>1, <3>1, <3>2, <3>3, CallFilesTyped, NothingGrows
  <2> QED BY <2>1, <2>2
<1>9. ASSUME DeletePostEnds(h) PROVE StepTyped(h)
  BY <1>1, <1>9, DeletionFits, CommitTyped DEF DeletePostEnds
<1>10. ASSUME LikeReads(h) PROVE StepTyped(h)
  <2>1. \A j : j.op \in LikeOps => LearntTyped(j, tables, now)
    BY DEF LearntTyped, FollowOps, LikeOps
  <2>2. ASSUME NEW name, NEW values, Read(h, name, values, "write"), job[h].op \in LikeOps
        PROVE  StepTyped(h)
    BY <1>1, <2>1, <2>2, ReadTyped
  <2> QED BY <1>10, <2>2 DEF LikeReads, LikeOps
<1>11. ASSUME LikePostEnds(h) PROVE StepTyped(h)
  <2>1. Arg(h).post \in Nat \ {0} /\ Arg(h).user \in Users /\ job[h].alone \in BOOLEAN
    BY <1>1, <1>2, <1>11, NothingGrows
    DEF LikePostEnds, JobTyped, AskTyped, JobsInv, Arg, RowsTyped
  <2>2. Fits(NewOrToggled(h))
    BY <2>1, LikesFit DEF NewOrToggled, LikeStatuses
  <2> QED BY <1>1, <1>11, <2>2, AnswerTyped, CommitTyped DEF LikePostEnds
<1>12. ASSUME LikeCommentEnds(h) PROVE StepTyped(h)
  <2>1. /\ Arg(h).comment \in Nat \ {0} /\ Arg(h).user \in Users /\ job[h].alone \in BOOLEAN
        /\ Arg(h).status \in LikeStatuses
    BY <1>1, <1>2, <1>12, NothingGrows
    DEF LikeCommentEnds, JobTyped, AskTyped, JobsInv, Arg, RowsTyped
  <2>2. /\ Fits(addCommentLike(tables, Arg(h).comment, Arg(h).user, Arg(h).status, job[h].alone))
        /\ \A k : Fits(updateCommentLike(tables, k, Arg(h).status))
    BY <2>1, LikesFit
  <2> QED BY <1>1, <1>12, <2>2, AnswerTyped, CommitTyped DEF LikeCommentEnds
<1>13. ASSUME CommentReads(h) PROVE StepTyped(h)
  <2>1. ASSUME NEW endpoint, NEW result, Answer(h, endpoint, result) PROVE StepTyped(h)
    BY <1>1, <2>1, AnswerTyped
  <2>2. ASSUME NEW p \in Nat \ {0}, Read(h, "post", {p}, "write"), job[h].op \in {"comment", "answer"}
        PROVE  StepTyped(h)
    <3>1. \A j : \A v \in {p} : j.op \in {"comment", "answer"} /\ j.got["post"] = v
                => LearntTyped(j, tables, now)
      BY DEF LearntTyped, FollowOps
    <3> QED BY <1>1, <2>2, <3>1, ReadTyped
  <2>3. CASE /\ job[h].op = "comment"
             /\ LET p == getPostById(tables, Arg(h).post) IN
                  IF p = 0 THEN Answer(h, createCommentResults, "NotFound") ELSE Read(h, "post", {p}, "write")
    <3>1. getPostById(tables, Arg(h).post) \in Nat
      BY NothingGrows DEF getPostById, Visible, LiveRows
    <3> QED BY <2>1, <2>2, <2>3, <3>1
  <2>4. CASE /\ job[h].op = "answer"
             /\ LET c == getCommentById(tables, Arg(h).comment) IN
                  IF c = 0 THEN Answer(h, answerForCommentResults, "NotFound")
                  ELSE Read(h, "post", {tables.comment[c].post}, "write")
    <3> DEFINE c == getCommentById(tables, Arg(h).comment)
    <3>1. ASSUME c # 0 PROVE tables.comment[c].post \in Nat \ {0}
      <4>1. c \in LiveRows(tables.comment) /\ tables.comment \in Seq(CommentRows(now) \cup {Gone})
        BY <3>1, NothingGrows DEF getCommentById, IsRow, RowsTyped
      <4>2. tables.comment[c] \in CommentRows(now)
        BY <4>1, RowIsTyped
      <4> QED BY <4>2 DEF CommentRows
    <3> HIDE DEF c
    <3>2. CASE c = 0
      BY <2>1, <2>4, <3>2 DEF c
    <3>3. CASE c # 0
      BY <2>2, <2>4, <3>1, <3>3 DEF c
    <3> QED BY <3>2, <3>3
  <2> QED BY <1>13, <2>3, <2>4 DEF CommentReads
<1>14. ASSUME CommentEnds(h) PROVE StepTyped(h)
  <2>1. Got(h, "post") \in Nat \ {0} /\ Arg(h).user \in Users
    BY <1>2, <1>14, NothingGrows DEF JobTyped, AskTyped, LearntTyped, Got, Arg, CommentEnds, RowsTyped
  <2>2. Fits(addComment(tables, Got(h, "post"), Arg(h).user, 0, now))
    BY <2>1, OthersFit
  <2> QED BY <1>1, <1>14, <2>2, CommitTyped DEF CommentEnds
<1>15. ASSUME AnswerEnds(h) PROVE StepTyped(h)
  <2>1. Got(h, "post") \in Nat \ {0} /\ Arg(h).user \in Users /\ Arg(h).comment \in Nat
    BY <1>2, <1>15, NothingGrows DEF JobTyped, AskTyped, LearntTyped, Got, Arg, AnswerEnds, RowsTyped
  <2>2. Fits(addComment(tables, Got(h, "post"), Arg(h).user, Arg(h).comment, now))
    BY <2>1, OthersFit
  <2> QED BY <1>1, <1>15, <2>2, CommitTyped DEF AnswerEnds
<1> QED BY <1>3, <1>4, <1>5, <1>6, <1>7, <1>8, <1>9, <1>10, <1>11, <1>12, <1>13, <1>14, <1>15 DEF PostSteps

LEMMA FollowingStepsTyped ==
  ASSUME StateTyped, JobsInv, NEW h \in Slots, FollowingSteps(h)
  PROVE  StepTyped(h)
<1> USE DEF At
<1>1. Busy(h)
  BY DEF FollowingSteps, FollowFinds, FollowChecks, FollowEnds, UnfollowEnds, AvatarFinds, AvatarEnds
<1>2. JobTyped(job[h], tables, now)
  BY <1>1 DEF StateTyped
<1>3. ASSUME NEW endpoint, NEW result, Answer(h, endpoint, result) PROVE StepTyped(h)
  BY <1>1, <1>3, AnswerTyped
<1>4. ASSUME NEW name, NEW value, NEW pc, Read(h, name, {value}, pc), job[h].op \in FollowOps,
             Arg(h).other \in tables.user
      PROVE  StepTyped(h)
  <2>1. \A j : j.op = job[h].op /\ j.arg = job[h].arg => LearntTyped(j, tables, now)
    BY <1>4 DEF LearntTyped, FollowOps, Arg
  <2> QED BY <1>1, <1>4, <2>1, ReadTyped
<1>5. CASE FollowFinds(h)
  <2>1. CASE Arg(h).user # Arg(h).other /\ getUserById(tables, Arg(h).other)
    BY <1>4, <1>5, <2>1 DEF FollowFinds, getUserById
  <2>2. CASE ~(Arg(h).user # Arg(h).other /\ getUserById(tables, Arg(h).other))
    BY <1>3, <1>5, <2>2 DEF FollowFinds
  <2> QED BY <2>1, <2>2
<1>6. CASE FollowChecks(h)
  <2>1. Arg(h).other \in tables.user
    BY <1>2, <1>6 DEF FollowChecks, JobTyped, LearntTyped, Arg
  <2> QED BY <1>3, <1>4, <1>6, <2>1 DEF FollowChecks
<1>7. CASE FollowEnds(h)
  <2>1. Pair(h) \in tables.user \X tables.user
    BY <1>2, <1>7 DEF FollowEnds, JobTyped, LearntTyped, AskTyped, Arg, Pair, FollowOps
  <2> QED BY <1>1, <1>7, <2>1, OthersFit, CommitTyped DEF FollowEnds
<1>8. CASE UnfollowEnds(h)
  BY <1>1, <1>8, OthersFit, CommitTyped DEF UnfollowEnds
<1>9. CASE AvatarFinds(h)
  <2>1. CASE ~getUserById(tables, Arg(h).user)
    BY <1>3, <1>9, <2>1 DEF AvatarFinds
  <2>2. CASE getUserById(tables, Arg(h).user)
    <3>1. /\ CallFiles(h, "user", Arg(h).user, 1, job[h].op, Arg(h).user, "find")
          /\ tables' = tables /\ job[h].op \in AvatarOps
      BY <1>9, <2>2 DEF AvatarFinds
    <3>2. Arg(h).user \in Users
      BY <2>2, NothingGrows DEF getUserById, RowsTyped
    <3>3. \A j : j.op \in AvatarOps => LearntTyped(j, tables', now)
      BY DEF LearntTyped, FollowOps, AvatarOps
    <3> QED BY <1>1, <3>1, <3>2, <3>3, CallFilesTyped, NothingGrows
  <2> QED BY <2>1, <2>2
<1>10. CASE AvatarEnds(h)
  BY <1>3, <1>10 DEF AvatarEnds
<1> QED BY <1>5, <1>6, <1>7, <1>8, <1>9, <1>10 DEF FollowingSteps

LEMMA ReadingStepsTyped ==
  ASSUME StateTyped, JobsInv, NEW h \in Slots, FeedSteps(h) \/ ListSteps(h)
  PROVE  StepTyped(h)
<1> USE DEF At
<1>1. \A j : j.op \in {"page", "list"} => LearntTyped(j, tables, now)
  BY DEF LearntTyped, FollowOps
<1>2. ASSUME Busy(h), job[h].op \in {"page", "list"}, NEW name, NEW values, NEW pc, Read(h, name, values, pc)
      PROVE  StepTyped(h)
  BY <1>1, <1>2, ReadTyped
<1>3. ASSUME Busy(h), NEW endpoint, NEW result, Answer(h, endpoint, result) PROVE StepTyped(h)
  BY <1>3, AnswerTyped
<1>4. ASSUME Busy(h), NEW answer, Reply(h, answer), UNCHANGED <<tables, now, broken, scene, filesVars>>
      PROVE  StepTyped(h)
  <2>1. job[h].op \in Ops
    BY <1>4 DEF StateTyped, JobTyped, AskTyped
  <2>2. job' = [job EXCEPT ![h] = Idle] /\ job'[h] = Idle
    BY <1>4 DEF Reply, JobsInv
  <2> QED BY <1>4, <2>1, <2>2, NothingGrows DEF Reply, StepTyped
<1>5. CASE PageFollowees(h) \/ PageCursor(h)
  BY <1>2, <1>5 DEF PageFollowees, PageCursor
<1>6. CASE PageReads(h)
  <2>1. PICK page : Learn(h, "page", page, "photos")
    BY <1>6 DEF PageReads
  <2>2. Busy(h) /\ job[h].op = "page" /\ UNCHANGED <<tables, now, broken, scene, filesVars>>
    BY <1>6 DEF PageReads
  <2>3. Learns(h, "page", page, "photos")
    BY <2>1, <2>2, LearnLearns
  <2>4. JobTyped(job'[h], tables, now)
    BY <1>1, <2>2, <2>3 DEF Learns, JobTyped, AskTyped, StateTyped, FollowOps, AvatarOps
  <2> QED BY <2>1, <2>2, <2>3, <2>4, NothingGrows DEF Learn, Learns, StepTyped
<1>7. CASE PageEnds(h)
  <2>1. Busy(h) /\ Reply(h, Switch(FeedResults(feed.kind), "Success"))
        /\ UNCHANGED <<tables, now, broken, scene, filesVars>>
    BY <1>7 DEF PageEnds
  <2> QED BY <1>4, <2>1
<1>8. CASE CommentsFind(h) \/ AnswersFind(h)
  BY <1>2, <1>3, <1>8 DEF CommentsFind, AnswersFind, FindOrAnswer
<1>9. CASE ShowPage(h)
  <2>1. Busy(h) /\ Reply(h, Switch(ListResults(feed.kind), "Success"))
        /\ UNCHANGED <<tables, now, broken, scene, filesVars>>
    BY <1>9 DEF ShowPage
  <2> QED BY <1>4, <2>1
<1> QED BY <1>5, <1>6, <1>7, <1>8, <1>9 DEF FeedSteps, ListSteps, CommentsRead, AnswersRead,
    FollowersRead, FollowingRead, SearchRead, AdminListsRead

(***************************************************************************)
(* Requests begin.                                                         *)
(***************************************************************************)

\* A request about things that are there.
BeginTyped(h) ==
  /\ UNCHANGED <<tables, now, broken, scene, filesVars, faults, oops>> /\ moves' \in Nat
  /\ JobTyped(job'[h], tables, now)
  /\ \A g \in Slots \ {h} :
       job'[g] = IF Busy(g) THEN [job[g] EXCEPT !.alone = FALSE] ELSE Idle

LEMMA AskIsTyped ==
  ASSUME StateTyped, NEW h \in Slots, NEW op, NEW arg, NEW pc, NEW todo, Ask(h, op, arg, pc, todo),
         pc = "find" \/ op \in {"page", "list"},
         \A j : j.op = op /\ j.arg = arg /\ op \in Ops => AskTyped(j, tables)
  PROVE  BeginTyped(h)
<1>1. op \in Ops
  BY DEF Ask, StateTyped
<1>2. job'[h].op = op /\ job'[h].arg = arg /\ job'[h].pc = pc
  BY DEF Ask, Start, Request
<1>3. AskTyped(job'[h], tables)
  BY <1>1, <1>2
<1>4. LearntTyped(job'[h], tables, now)
  BY <1>2 DEF LearntTyped, FollowOps
<1>5. moves' \in Nat
  <2>1. moves \in Nat /\ moves > 0 /\ moves' = moves - 1
    BY DEF Ask, Start, StateTyped
  <2> QED BY <2>1
<1> QED BY <1>3, <1>4, <1>5 DEF Ask, Start, BeginTyped, JobTyped

LEMMA RequestsTyped ==
  ASSUME StateTyped, NEW h \in Slots,
         PostRequests(h) \/ FollowingRequests(h) \/ FeedRequests(h) \/ ListRequests(h)
  PROVE  BeginTyped(h) \/ UNCHANGED <<tables, now, broken, scene, filesVars, handlerVars>>
<1>1. ASSUME NEW dto \in AddPostDtos, Ask(h, "addPost", dto, "find", {}) PROVE BeginTyped(h)
  <2>1. dto.user \in tables.user \cup {Stranger} /\ dto.files \in 1..MaxFiles
    BY DEF AddPostDtos
  <2>2. \A j : j.op = "addPost" /\ j.arg = dto /\ "addPost" \in Ops => AskTyped(j, tables)
    BY <2>1 DEF AskTyped, FollowOps, AvatarOps
  <2> QED BY <1>1, <2>2, AskIsTyped
<1>2. ASSUME NEW u \in tables.user, NEW p \in DOMAIN tables.post, NEW todo,
             NEW op \in {"updatePost", "deletePost", "comment", "likePost"},
             Ask(h, op, [user |-> u, post |-> p], "find", todo)
      PROVE  BeginTyped(h)
  <2>1. \A j : j.op = op /\ j.arg = [user |-> u, post |-> p] /\ op \in Ops => AskTyped(j, tables)
    BY DEF AskTyped, FollowOps, AvatarOps
  <2> QED BY <1>2, <2>1, AskIsTyped
<1>3. ASSUME NEW u \in tables.user, NEW c \in DOMAIN tables.comment,
             Ask(h, "answer", [user |-> u, comment |-> c], "find", {})
      PROVE  BeginTyped(h)
  <2>1. \A j : j.op = "answer" /\ j.arg = [user |-> u, comment |-> c] /\ "answer" \in Ops => AskTyped(j, tables)
    BY DEF AskTyped, FollowOps, AvatarOps
  <2> QED BY <1>3, <2>1, AskIsTyped
<1>4. ASSUME NEW u \in tables.user, NEW c \in DOMAIN tables.comment, NEW s \in LikeStatuses, NEW todo,
             Ask(h, "likeComment", [user |-> u, comment |-> c, status |-> s], "find", todo)
      PROVE  BeginTyped(h)
  <2>1. \A j : j.op = "likeComment" /\ j.arg = [user |-> u, comment |-> c, status |-> s]
              /\ "likeComment" \in Ops => AskTyped(j, tables)
    BY DEF AskTyped, FollowOps, AvatarOps
  <2> QED BY <1>4, <2>1, AskIsTyped
<1>5. CASE PostRequests(h)
  BY <1>1, <1>2, <1>3, <1>4, <1>5 DEF PostRequests
<1>6. ASSUME NEW u \in tables.user, NEW op \in FollowOps, NEW v \in tables.user \cup {Stranger},
             Ask(h, op, [user |-> u, other |-> v], "find", {})
      PROVE  BeginTyped(h)
  <2>1. \A j : j.op = op /\ j.arg = [user |-> u, other |-> v] /\ op \in Ops => AskTyped(j, tables)
    BY DEF AskTyped, FollowOps, AvatarOps
  <2> QED BY <1>6, <2>1, AskIsTyped
<1>7. ASSUME NEW u \in tables.user, NEW op \in AvatarOps, Ask(h, op, [user |-> u], "find", {})
      PROVE  BeginTyped(h)
  <2>1. \A j : j.op = op /\ j.arg = [user |-> u] /\ op \in Ops => AskTyped(j, tables)
    BY DEF AskTyped, FollowOps, AvatarOps
  <2> QED BY <1>7, <2>1, AskIsTyped
<1>8. CASE FollowingRequests(h)
  BY <1>6, <1>7, <1>8 DEF FollowingRequests
<1>9. ASSUME NEW op \in {"page", "list"}, NEW arg, NEW pc, NEW todo, Ask(h, op, arg, pc, todo)
      PROVE  BeginTyped(h)
  <2>1. \A j : j.op = op /\ j.arg = arg /\ op \in Ops => AskTyped(j, tables)
    BY DEF AskTyped, FollowOps, AvatarOps
  <2> QED BY <1>9, <2>1, AskIsTyped
<1>10. CASE FeedRequests(h)
  BY <1>9, <1>10 DEF FeedRequests, PageRequest, OpenFeed
<1>11. CASE ListRequests(h)
  BY <1>9, <1>11 DEF ListRequests, ListRequest, OpenList
<1> QED BY <1>5, <1>8, <1>10, <1>11

(***************************************************************************)
(* Every step.                                                             *)
(***************************************************************************)

\* What may be done to the files.
FilesWork ==
  \/ UNCHANGED filesVars \/ CallsTyped \/ Takes
  \/ \E c \in calls : CallStep(c)
  \/ \E k \in unlink : deleteImage(k)
  \/ FilesStop \/ \E c \in calls : CallFails(c)

LEMMA StepKeepsTypes ==
  ASSUME StateTyped, JobsInv, NEW h \in Slots, StepTyped(h)
  PROVE  StateTyped' /\ FilesWork
<1>1. ASSUME NEW g \in Slots, Busy(g)' PROVE JobTyped(job'[g], tables', now')
  <2>1. CASE g = h
    BY <1>1, <2>1 DEF StepTyped, Busy
  <2>2. CASE g # h
    <3>1. job'[g] = job[g] /\ Busy(g)
      BY <1>1, <2>2 DEF StepTyped, Busy, JobsInv
    <3> QED BY <3>1, LaterTyped DEF StepTyped, StateTyped
  <2> QED BY <2>1, <2>2
<1> QED BY <1>1 DEF StepTyped, StateTyped, Grows, FilesWork

LEMMA BeginKeepsTypes ==
  ASSUME StateTyped, JobsInv, NEW h \in Slots, BeginTyped(h)
  PROVE  StateTyped' /\ FilesWork
<1>1. ASSUME NEW g \in Slots, Busy(g)' PROVE JobTyped(job'[g], tables, now)
  <2>1. CASE g = h
    BY <2>1 DEF BeginTyped
  <2>2. CASE g # h
    <3> DEFINE j == [job[g] EXCEPT !.alone = FALSE]
    <3>1. job'[g] = j /\ Busy(g)
      BY <1>1, <2>2 DEF BeginTyped, Busy
    <3>2. j.op = job[g].op /\ j.arg = job[g].arg /\ j.pc = job[g].pc /\ j.got = job[g].got
      OBVIOUS
    <3>3. JobTyped(job[g], tables, now)
      BY <3>1 DEF StateTyped
    <3> HIDE DEF j
    <3> QED BY <3>1, <3>2, <3>3, SameTyped
  <2> QED BY <2>1, <2>2
<1> QED BY <1>1 DEF BeginTyped, StateTyped, FilesWork

LEMMA JobsStayTyped ==
  ASSUME StateTyped, Grows(tables, now, tables', now'), \A g \in Slots : job'[g] \in {job[g], Idle}
  PROVE  \A g \in Slots : Busy(g)' => JobTyped(job'[g], tables', now')
<1> TAKE g \in Slots
<1> HAVE Busy(g)'
<1>1. job'[g] = job[g] /\ Busy(g)
  BY DEF Busy
<1> QED BY <1>1, LaterTyped DEF StateTyped

LEMMA StateTypedNext ==
  ASSUME StateTyped, JobsInv, [Next]_vars
  PROVE  StateTyped' /\ FilesWork
<1>1. ASSUME NEW h \in Slots,
             PostSteps(h) \/ FollowingSteps(h) \/ FeedSteps(h) \/ ListSteps(h)
      PROVE  StateTyped' /\ FilesWork
  BY <1>1, PostStepsTyped, FollowingStepsTyped, ReadingStepsTyped, StepKeepsTypes
<1>2. ASSUME UNCHANGED <<tables, now, broken, scene, filesVars, handlerVars>>
      PROVE  StateTyped' /\ FilesWork
  BY <1>2 DEF StateTyped, FilesWork, handlerVars, Busy
<1>3. ASSUME NEW h \in Slots,
             PostRequests(h) \/ FollowingRequests(h) \/ FeedRequests(h) \/ ListRequests(h)
      PROVE  StateTyped' /\ FilesWork
  BY <1>2, <1>3, RequestsTyped, BeginKeepsTypes
<1>4. ASSUME UNCHANGED <<tables, now, scene>>, broken' \subseteq 1..MaxPosts, oops' \subseteq Ops,
             moves' \in Nat, faults' \in Nat, \A g \in Slots : job'[g] \in {job[g], Idle}
      PROVE  StateTyped'
  <2>1. \A g \in Slots : Busy(g)' => JobTyped(job'[g], tables', now')
    BY <1>4, NothingGrows, JobsStayTyped
  <2> QED BY <1>4, <2>1 DEF StateTyped
<1>5. ASSUME NEW h \in Slots, NEW c \in calls, CallReturns(h, c) PROVE StateTyped' /\ FilesWork
  <2>1. /\ Busy(h) /\ job[h].pc = "calls" /\ Takes
        /\ UNCHANGED <<tables, now, scene>>
    BY <1>5 DEF CallReturns, Takes
  <2>2. broken' \subseteq 1..MaxPosts
    BY <1>5, NothingGrows, WorkTyped DEF CallReturns
  <2>3. job[h].op \in Ops /\ DOMAIN job = Slots /\ DOMAIN job[h] = Fields
    BY <2>1 DEF StateTyped, JobTyped, AskTyped, JobsInv, Fields
  <2>4. CASE Reply(h, "Internal") \/ Abandon(h)
    <3>1. oops' \subseteq Ops /\ moves' \in Nat /\ faults' \in Nat
      BY <2>3, <2>4 DEF Reply, Abandon, StateTyped
    <3>2. \A g \in Slots : job'[g] \in {job[g], Idle}
      BY <2>3, <2>4 DEF Reply, Abandon
    <3> QED BY <1>4, <2>1, <2>2, <3>1, <3>2 DEF FilesWork
  <2>5. CASE Returned(h, c.no, "commit")
    <3>1. /\ job' = [job EXCEPT ![h] = job'[h]] /\ job'[h].op = job[h].op /\ job'[h].arg = job[h].arg
          /\ job'[h].got = job[h].got /\ job'[h].pc \in {"calls", "commit"}
          /\ moves' = moves /\ faults' = faults /\ oops' = oops
      BY <2>1, <2>3, <2>5 DEF Returned, Fields
    <3>2. JobTyped(job'[h], tables, now)
      BY <2>1, <3>1 DEF StateTyped, JobTyped, AskTyped, LearntTyped
    <3>3. ASSUME NEW g \in Slots, Busy(g)' PROVE JobTyped(job'[g], tables', now')
      BY <2>1, <2>3, <3>1, <3>2, <3>3 DEF StateTyped, Busy
    <3> QED BY <2>1, <2>2, <3>1, <3>3 DEF StateTyped, FilesWork
  <2> QED BY <1>5, <2>4, <2>5 DEF CallReturns
<1>6. ASSUME NEW h \in Slots, GatewayFails(h) PROVE StateTyped' /\ FilesWork
  <2>1. broken' \subseteq 1..MaxPosts /\ UNCHANGED <<tables, now, scene, filesVars>>
    BY <1>6, NothingGrows, WorkTyped DEF GatewayFails
  <2>2. /\ oops' \subseteq Ops /\ moves' \in Nat /\ faults' \in Nat
        /\ \A g \in Slots : job'[g] \in {job[g], Idle}
    BY <1>6 DEF GatewayFails, Fail, StateTyped, JobsInv
  <2> QED BY <1>4, <2>1, <2>2 DEF FilesWork
<1>7. ASSUME NEW c \in calls, Unheard(c) PROVE StateTyped' /\ FilesWork
  <2>1. Takes /\ UNCHANGED <<tables, now, broken, scene, handlerVars>>
    BY <1>7 DEF Unheard, Takes
  <2> QED BY <2>1 DEF StateTyped, FilesWork, handlerVars, Busy
<1>8. ASSUME FilesRun PROVE StateTyped' /\ FilesWork
  BY <1>8 DEF FilesRun, StateTyped, FilesWork, handlerVars, Busy
<1>9. ASSUME FilesFail PROVE StateTyped' /\ FilesWork
  <2>1. faults' \in Nat /\ UNCHANGED <<tables, now, broken, scene, job, moves, oops>>
    BY <1>9 DEF FilesFail, StateTyped
  <2> QED BY <1>9, <2>1 DEF FilesFail, StateTyped, FilesWork, Busy
<1>10. ASSUME GatewayRestarts PROVE StateTyped' /\ FilesWork
  <2>1. broken' \subseteq 1..MaxPosts /\ UNCHANGED <<tables, now, scene, filesVars>>
    BY <1>10, NothingGrows, WorkTyped DEF GatewayRestarts
  <2>2. /\ oops' \subseteq Ops /\ moves' \in Nat /\ faults' \in Nat
        /\ \A g \in Slots : job'[g] \in {job[g], Idle}
    BY <1>10 DEF GatewayRestarts, Restart, StateTyped
  <2> QED BY <1>4, <2>1, <2>2 DEF FilesWork
<1>11. ASSUME NEW u \in tables.user, Moderate(u) PROVE StateTyped' /\ FilesWork
  <2> DEFINE t == IF u \in tables.banned THEN tables.banned \ {u} ELSE tables.banned \cup {u}
  <2>1. /\ tables' = [tables EXCEPT !.banned = t] /\ moves' \in Nat
        /\ UNCHANGED <<now, broken, scene, filesVars, job, faults, oops>>
    BY <1>11 DEF Moderate, StateTyped
  <2>2. t \in SUBSET tables.user
    BY NothingGrows DEF RowsTyped
  <2> HIDE DEF t
  <2>3. RowsTyped(tables', now) /\ Grows(tables, now, tables', now) /\ DOMAIN tables' = DOMAIN tables
    BY <2>1, <2>2, OneTable DEF StateTyped
  <2>4. \A g \in Slots : Busy(g)' => JobTyped(job'[g], tables', now')
    BY <2>1, <2>3, JobsStayTyped
  <2> QED BY <2>1, <2>3, <2>4 DEF StateTyped, FilesWork
<1>12. ASSUME Tick PROVE StateTyped' /\ FilesWork
  <2>1. now' = now + 1 /\ now \in Nat /\ UNCHANGED <<tables, broken, scene, filesVars, handlerVars>>
    BY <1>12 DEF Tick, StateTyped
  <2>2. RowsTyped(tables', now') /\ Grows(tables, now, tables', now')
    BY <2>1, RowsLater DEF StateTyped, Grows
  <2>3. \A g \in Slots : Busy(g)' => JobTyped(job'[g], tables', now')
    BY <2>1, <2>2, JobsStayTyped DEF handlerVars
  <2> QED BY <2>1, <2>2, <2>3 DEF StateTyped, FilesWork, handlerVars
<1>13. CASE UNCHANGED vars
  BY <1>2, <1>13 DEF vars
<1> QED BY <1>1, <1>3, <1>5, <1>6, <1>7, <1>8, <1>9, <1>10, <1>11, <1>12, <1>13 DEF Next

(***************************************************************************)
(* The files service.                                                      *)
(***************************************************************************)

FilesTyped == FilesTypeOK(1..MaxPosts, Users)

CallTyped(c, n) ==
  /\ c.no \in 1..n /\ c.key \in 0..n
  /\ \/ c.op \in {"uploadPostPhoto", "deletePostPhotos"} /\ c.about \in 1..MaxPosts
     \/ c.op \in {"uploadAvatar", "deleteAvatar"} /\ c.about \in Users
  /\ c.pc \in {"find", "unlink", "delete", "put", "insert", "done", "thrown", "lost"}

LEMMA FilesAre ==
  /\ FilesTyped <=>
       /\ made \in Nat /\ \A c \in calls : CallTyped(c, made)
       /\ photos \subseteq [post : 1..MaxPosts, key : 1..made]
       /\ avatars \subseteq [owner : Users, key : 1..made]
       /\ bucket \subseteq 1..made /\ unlink \subseteq 1..made
  /\ FilesTyped' <=>
       /\ made' \in Nat /\ \A c \in calls' : CallTyped(c, made')
       /\ photos' \subseteq [post : 1..MaxPosts, key : 1..made']
       /\ avatars' \subseteq [owner : Users, key : 1..made']
       /\ bucket' \subseteq 1..made' /\ unlink' \subseteq 1..made'
BY DEF FilesTyped, FilesTypeOK, CallTyped

\* A call comes to another point, at most with a key.
LEMMA CallsMove ==
  ASSUME NumbersInv, FilesTyped, NEW c \in calls,
         NEW pc \in {"find", "unlink", "delete", "put", "insert", "done", "thrown", "lost"},
         NEW key \in 0..made,
         \/ calls' = (calls \ {c}) \cup {[c EXCEPT !.pc = pc]}
         \/ calls' = (calls \ {c}) \cup {[c EXCEPT !.pc = pc, !.key = key]}
  PROVE  \A d \in calls' : CallTyped(d, made)
<1>1. CallTyped(c, made) /\ DOMAIN c = CallFields /\ \A d \in calls : CallTyped(d, made)
  BY FilesAre DEF NumbersInv
<1>2. CallTyped([c EXCEPT !.pc = pc], made) /\ CallTyped([c EXCEPT !.pc = pc, !.key = key], made)
  BY <1>1 DEF CallTyped, CallFields
<1> QED BY <1>1, <1>2

LEMMA FilesTypedNext ==
  ASSUME NumbersInv, FilesTyped, FilesWork
  PROVE  FilesTyped'
<1>1. /\ made \in Nat /\ \A c \in calls : CallTyped(c, made)
      /\ photos \subseteq [post : 1..MaxPosts, key : 1..made]
      /\ avatars \subseteq [owner : Users, key : 1..made]
      /\ bucket \subseteq 1..made /\ unlink \subseteq 1..made /\ 0 \in 0..made
  BY FilesAre
<1>2. ASSUME made' = made, \A c \in calls' : CallTyped(c, made),
             photos' \subseteq photos, avatars' \subseteq avatars,
             bucket' \subseteq 1..made, unlink' \subseteq 1..made
      PROVE  FilesTyped'
  BY <1>1, <1>2, FilesAre
<1>3. CASE UNCHANGED filesVars
  BY <1>1, <1>2, <1>3 DEF filesVars
<1>4. CASE CallsTyped
  <2>1. PICK n \in Nat : \E op, about, pc :
          /\ Send(n, op, about, pc) /\ pc \in {"put", "find"}
          /\ \/ op \in {"uploadPostPhoto", "deletePostPhotos"} /\ about \in 1..MaxPosts
             \/ op \in AvatarOps /\ about \in Users
    BY <1>4 DEF CallsTyped
  <2>2. PICK op, about, pc :
          /\ Send(n, op, about, pc) /\ pc \in {"put", "find"}
          /\ \/ op \in {"uploadPostPhoto", "deletePostPhotos"} /\ about \in 1..MaxPosts
             \/ op \in AvatarOps /\ about \in Users
    BY <2>1
  <2>3. /\ made' = made + n /\ UNCHANGED <<photos, avatars, bucket, unlink>>
        /\ calls' = calls \cup {Call(made + i, op, about, pc) : i \in 1..n}
    BY <2>2 DEF Send
  <2>4. made' \in Nat /\ made <= made' /\ 1..made \subseteq 1..made' /\ 0..made \subseteq 0..made'
    BY <1>1, <2>3
  <2>5. \A c \in calls : CallTyped(c, made')
    BY <1>1, <2>4 DEF CallTyped
  <2>6. \A i \in 1..n : CallTyped(Call(made + i, op, about, pc), made')
    BY <1>1, <2>2, <2>3 DEF CallTyped, Call, AvatarOps
  <2>7. /\ photos' \subseteq [post : 1..MaxPosts, key : 1..made']
        /\ avatars' \subseteq [owner : Users, key : 1..made']
    BY <1>1, <2>3, <2>4
  <2>8. bucket' \subseteq 1..made' /\ unlink' \subseteq 1..made'
    BY <1>1, <2>3, <2>4
  <2> QED BY <2>3, <2>4, <2>5, <2>6, <2>7, <2>8, FilesAre
<1>5. CASE Takes
  BY <1>1, <1>2, <1>5 DEF Takes
<1>6. ASSUME NEW k \in unlink, deleteImage(k) PROVE FilesTyped'
  BY <1>1, <1>2, <1>6 DEF deleteImage
<1>7. ASSUME NEW c \in calls, CallFails(c) PROVE FilesTyped'
  <2>1. \A d \in calls' : CallTyped(d, made)
    BY <1>1, <1>7, CallsMove DEF CallFails, Advance
  <2> QED BY <1>1, <1>2, <1>7, <2>1 DEF CallFails
<1>8. CASE FilesStop
  <2>1. ASSUME NEW c \in calls PROVE CallTyped([c EXCEPT !.pc = "lost"], made)
    BY <1>1 DEF CallTyped, NumbersInv, CallFields
  <2> QED BY <1>1, <1>2, <1>8, <2>1 DEF FilesStop
<1>9. ASSUME NEW c \in calls, CallStep(c) PROVE FilesTyped'
  <2>1. ASSUME NEW pc \in {"find", "unlink", "delete", "put", "insert", "done", "thrown", "lost"},
               Advance(c, pc)
        PROVE  \A d \in calls' : CallTyped(d, made)
    BY <1>1, <2>1, CallsMove DEF Advance
  <2>2. CallTyped(c, made)
    BY <1>1
  <2>3. CASE savePostPhoto(c) \/ saveAvatar(c)
    BY <1>1, <1>2, <2>1, <2>2, <2>3 DEF savePostPhoto, saveAvatar, CallTyped
  <2>4. CASE addPostPhoto(c)
    <3>1. c.about \in 1..MaxPosts
      BY <2>2, <2>4 DEF addPostPhoto, CallAt, CallTyped
    <3>2. photos' \subseteq [post : 1..MaxPosts, key : 1..made]
      BY <1>1, <2>2, <2>4, <3>1 DEF addPostPhoto, CallTyped
    <3> QED BY <1>1, <2>1, <2>4, <3>2, FilesAre DEF addPostPhoto
  <2>5. CASE findPostPhotos(c)
    <3>1. unlink' \subseteq 1..made
      BY <1>1, <2>5 DEF findPostPhotos, KeysOf, PhotosOf
    <3> QED BY <1>1, <1>2, <2>1, <2>5, <3>1 DEF findPostPhotos
  <2>6. CASE deleteAllPostPhotos(c)
    BY <1>1, <1>2, <2>1, <2>6 DEF deleteAllPostPhotos
  <2>7. CASE findAvatar(c)
    <3>1. CASE Advance(c, AfterDelete(c))
      BY <1>1, <1>2, <2>1, <2>7, <3>1 DEF findAvatar, AfterDelete
    <3>2. ASSUME NEW a \in AvatarsOf(c.about),
                 calls' = (calls \ {c}) \cup {[c EXCEPT !.pc = "unlink", !.key = a.key]}
          PROVE  FilesTyped'
      <4>1. a.key \in 0..made
        BY <1>1 DEF AvatarsOf
      <4>2. \A d \in calls' : CallTyped(d, made)
        BY <3>2, <4>1, CallsMove
      <4> QED BY <1>1, <1>2, <2>7, <4>2 DEF findAvatar
    <3> QED BY <2>7, <3>1, <3>2 DEF findAvatar
  <2>8. CASE deleteAvatarImage(c)
    BY <1>1, <1>2, <2>1, <2>8 DEF deleteAvatarImage
  <2>9. CASE deleteAvatar(c)
    BY <1>1, <1>2, <2>1, <2>9 DEF deleteAvatar, AfterDelete
  <2>10. CASE addAvatar(c)
    <3>1. c.about \in Users
      BY <2>2, <2>10 DEF addAvatar, CallAt, CallTyped
    <3>2. avatars' \subseteq [owner : Users, key : 1..made]
      BY <1>1, <2>2, <2>10, <3>1 DEF addAvatar, CallTyped
    <3>3. \A d \in calls' : CallTyped(d, made)
      BY <2>1, <2>10 DEF addAvatar
    <3> QED BY <1>1, <2>10, <3>2, <3>3, FilesAre DEF addAvatar
  <2> QED BY <1>9, <2>3, <2>4, <2>5, <2>6, <2>7, <2>8, <2>9, <2>10 DEF CallStep
<1> QED BY <1>3, <1>4, <1>5, <1>6, <1>7, <1>8, <1>9 DEF FilesWork

LEMMA InitTyped == Init => StateTyped /\ FilesTyped
<1> SUFFICES ASSUME Init PROVE StateTyped /\ FilesTyped
  OBVIOUS
<1>1. /\ scene \in Scenes /\ scene.posts \in Nat /\ scene.comments \in Nat /\ scene.moves \in Nat
      /\ scene.faults \in Nat /\ scene.ops \subseteq Ops /\ scene.posts <= MaxPosts
      /\ scene.posts > 0 => 1 \in 0..MaxFiles
  BY ScenesAssumption, ScenesFit, SocialBounds DEF Init
<1>2. PICK people \in SUBSET Users :
      \E owner \in [1..scene.posts -> people], commentator \in [1..scene.comments -> people] :
      \E id, place :
        tables = [user |-> people, id |-> id, place |-> place,
                 post |-> [i \in 1..scene.posts |-> PostRow(owner[i], i, 1)],
                 comment |-> [i \in 1..scene.comments |->
                                CommentRow(commentator[i], 1, 0, scene.posts + i)],
                 like |-> <<>>, commentLike |-> <<>>,
                 follow |-> {pair \in people \X people : scene.friends /\ pair[1] # pair[2]},
                 banned |-> {}]
  BY DEF Init
<1>3. PICK owner \in [1..scene.posts -> people], commentator \in [1..scene.comments -> people] :
      \E id, place :
        tables = [user |-> people, id |-> id, place |-> place,
                 post |-> [i \in 1..scene.posts |-> PostRow(owner[i], i, 1)],
                 comment |-> [i \in 1..scene.comments |->
                                CommentRow(commentator[i], 1, 0, scene.posts + i)],
                 like |-> <<>>, commentLike |-> <<>>,
                 follow |-> {pair \in people \X people : scene.friends /\ pair[1] # pair[2]},
                 banned |-> {}]
  BY <1>2
<1>4. /\ TableNames \subseteq DOMAIN tables
      /\ tables.post = [i \in 1..scene.posts |-> PostRow(owner[i], i, 1)]
      /\ tables.comment = [i \in 1..scene.comments |-> CommentRow(commentator[i], 1, 0, scene.posts + i)]
      /\ tables.like = <<>> /\ tables.commentLike = <<>> /\ tables.user = people /\ tables.banned = {}
      /\ tables.follow \subseteq people \X people
  BY <1>3 DEF TableNames
<1>5. /\ now = scene.posts + scene.comments /\ broken = {} /\ oops = {}
      /\ moves = scene.moves /\ faults = scene.faults /\ job = [h \in Slots |-> Idle]
      /\ made = scene.posts /\ calls = {} /\ avatars = {} /\ unlink = {}
      /\ photos = {[post |-> i, key |-> i] : i \in 1..scene.posts} /\ bucket = 1..scene.posts
  BY DEF Init, HandlersInit
<1>6. \A i \in 1..scene.posts : PostRow(owner[i], i, 1) \in PostRows(now)
  BY <1>1, <1>5 DEF PostRow, PostRows
<1>7. \A i \in 1..scene.comments :
        CommentRow(commentator[i], 1, 0, scene.posts + i) \in CommentRows(now)
  BY <1>1, <1>5 DEF CommentRow, CommentRows
<1>8. tables.post \in Seq(PostRows(now) \cup {Gone}) /\ Len(tables.post) <= MaxPosts
  <2>1. tables.post \in [1..scene.posts -> PostRows(now) \cup {Gone}]
    BY <1>4, <1>6
  <2> QED BY <1>1, <2>1, IsASeq
<1>9. tables.comment \in Seq(CommentRows(now) \cup {Gone})
  <2>1. tables.comment \in [1..scene.comments -> CommentRows(now) \cup {Gone}]
    BY <1>4, <1>7
  <2> QED BY <1>1, <2>1, IsASeq
<1>10. RowsTyped(tables, now)
  BY <1>4, <1>8, <1>9, EmptySeq DEF RowsTyped
<1>11. StateTyped
  BY <1>1, <1>4, <1>5, <1>10 DEF StateTyped, Busy
<1>12. FilesTyped
  <2>1. photos \subseteq [post : 1..MaxPosts, key : 1..made]
    BY <1>1, <1>5, SocialBounds
  <2> QED BY <1>1, <1>5, <2>1, FilesAre
<1> QED BY <1>11, <1>12

\* What requests are asked with and what they have learnt is of the right kind,
\* and so are the rows they write and the calls they make.
THEOREM TypesKept == Spec => [](StateTyped /\ FilesTyped)
<1>1. /\ LikeInv /\ StoredInv /\ StateTyped /\ FilesTyped /\ [Next]_vars
      => StateTyped' /\ FilesTyped'
  BY StateTypedNext, FilesTypedNext DEF LikeInv, StoredInv
<1> QED BY <1>1, InitTyped, LikesKept, FilesKept, PTL DEF Spec

\* The type invariant of Social.
THEOREM SocialTyped == Spec => []TypeOK
<1>1. LikeInv /\ StateTyped /\ FilesTyped => TypeOK
  <2> SUFFICES ASSUME LikeInv, StateTyped, FilesTyped PROVE TypeOK
    OBVIOUS
  <2>1. \A h \in Slots : Busy(h) => job[h].op \in Ops
    BY DEF StateTyped, JobTyped, AskTyped
  <2>2. HandlersTypeOK(Ops)
    BY <2>1 DEF HandlersTypeOK, LikeInv, JobsInv, StateTyped, Busy
  <2> QED BY <2>2 DEF StateTyped, RowsTyped, FilesTyped, TypeOK
<1> QED BY <1>1, TypesKept, LikesKept, PTL
===============================================================================
