----------------------------- MODULE ListQueries -----------------------------
(***************************************************************************)
(* What the queries of lists select and how they sort it: comments and     *)
(* answers, the administrator's lists, followers, followees, users.  A     *)
(* query yields lines                                                      *)
(*   entry   the comment, post or user                                     *)
(*   nth     for one that is joined with several likes of the viewer       *)
(*   first   0 for what comes before all else, otherwise 1                 *)
(*   key     the column it is sorted by                                    *)
(***************************************************************************)
EXTENDS SocialTables, FiniteSets

CommentKinds == {"comments", "answers", "adminComments", "adminAnswers"}
CursorKinds == {"followers", "following", "search"}
ListKinds == CommentKinds \cup CursorKinds
             \cup {"adminPosts", "adminFollowers", "adminFollowing", "adminUsers"}

\* Comments with an unbanned commentator.
OnPost(d, p) ==
  {c \in LiveRows(d.comment) : d.comment[c].post = p /\ d.comment[c].answers = 0
                               /\ d.comment[c].owner \notin d.banned}
AnswersTo(d, c) ==
  {a \in LiveRows(d.comment) : d.comment[a].answers = c /\ d.comment[a].owner \notin d.banned}

\* The viewer's like is joined and grouped by: a line for each status he has.
Viewed(d, u, C) ==
  UNION {LET n == Cardinality({d.commentLike[k].status : k \in LikesOf(d.commentLike, c, u)}) IN
         {[entry |-> c, nth |-> i, first |-> IF d.comment[c].owner = u THEN 0 ELSE 1,
           key |-> d.comment[c].created] : i \in 1..(IF n = 0 THEN 1 ELSE n)} : c \in C}

Line(entry, key) == [entry |-> entry, nth |-> 1, first |-> 1, key |-> key]
Plain(d, C) == {Line(c, d.comment[c].created) : c \in C}
Placed(d, U) == {Line(u, d.place[u]) : u \in U}

\* PostsCommentQueryRepository: the viewer's own come first.
getCommentsForPostByPostId(d, p, u) == Viewed(d, u, OnPost(d, p))
getCommentAnswersByCommentId(d, c, u) == Viewed(d, u, AnswersTo(d, c))

\* PostsCommentGraphqlQueryRepository, PostsGraphqlQueryRepository.
adminCommentsForPost(d, p) == Plain(d, OnPost(d, p))
adminAnswersForComment(d, c) == Plain(d, AnswersTo(d, c))
getAllPostsWithOwnerInfo(d) == {Line(p, d.post[p].created) : p \in Visible(d)}

\* UsersQueryRepository: those not banned.  A list of followers or followees
\* is sorted by the date of registration, newest first.
getFollowers(d, u) == Placed(d, {v \in d.user \ d.banned : isFollowing(d, v, u)})
getFollowing(d, u) == Placed(d, {v \in d.user \ d.banned : isFollowing(d, u, v)})
searchUsers(d, u) == {Line(v, d.id[v]) : v \in d.user \ (d.banned \cup {u})}

\* UsersFollowGraphqlRepository: the banned ones too.
adminFollowers(d, u) == Placed(d, {v \in d.user : isFollowing(d, v, u)})
adminFollowing(d, u) == Placed(d, {v \in d.user : isFollowing(d, u, v)})

\* UsersGraphqlRepository, asked for the unblocked.
getUsers(d) == Placed(d, d.user \ d.banned)

Lines(d, f) ==
  CASE f.kind = "comments" -> getCommentsForPostByPostId(d, f.about, f.reader)
    [] f.kind = "answers" -> getCommentAnswersByCommentId(d, f.about, f.reader)
    [] f.kind = "adminComments" -> adminCommentsForPost(d, f.about)
    [] f.kind = "adminAnswers" -> adminAnswersForComment(d, f.about)
    [] f.kind = "adminPosts" -> getAllPostsWithOwnerInfo(d)
    [] f.kind = "followers" -> getFollowers(d, f.about)
    [] f.kind = "following" -> getFollowing(d, f.about)
    [] f.kind = "adminFollowers" -> adminFollowers(d, f.about)
    [] f.kind = "adminFollowing" -> adminFollowing(d, f.about)
    [] f.kind = "search" -> searchUsers(d, f.about)
    [] f.kind = "adminUsers" -> getUsers(d)

Ahead(l, m, dir) ==
  \/ l.first < m.first
  \/ l.first = m.first /\ (IF dir = "asc" THEN l.key < m.key ELSE l.key > m.key)

\* The users' lists are sorted one way.
Direction(f) ==
  CASE f.kind = "search" -> "asc"
    [] f.kind \in {"followers", "following"} -> "desc"
    [] OTHER -> f.dir

\* order by: the orders of the lines R the sorting allows.
Orders(R, dir) ==
  LET n == Cardinality(R) IN
  {o \in [1..n -> R] : \A i, j \in 1..n : i < j => o[i] # o[j] /\ ~Ahead(o[j], o[i], dir)}

\* Mutant: every page begins with the last user of the page before.
FromLast(d, f) == {l \in Lines(d, f) : f.last # 0 => d.id[l.entry] >= d.id[f.last]}

\* The ids beyond that of the last user shown.
PastLast(d, f) == {l \in Lines(d, f) : f.last # 0 => d.id[l.entry] > d.id[f.last]}

\* skip and take, or only take.
ListPages(d, f) ==
  LET after == f.kind \in CursorKinds
      skip == IF after THEN 0 ELSE f.page * f.size
  IN {SubSeq(o, skip + 1, IF skip + f.size < Len(o) THEN skip + f.size ELSE Len(o)) :
      o \in Orders(IF after THEN PastLast(d, f) ELSE Lines(d, f), Direction(f))}
==============================================================================
