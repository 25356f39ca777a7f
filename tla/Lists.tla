-------------------------------- MODULE Lists --------------------------------
(***************************************************************************)
(* Reading a list page by page, by the number of the page or after the id  *)
(* of the last user of the page before.  The list being read is a record   *)
(*   kind, reader, about, dir, size   the query                            *)
(*   page, last     how many pages were read, the last entry               *)
(*   seen, over     the entries shown, and that the last page was not full *)
(*   steady         history: entries the list had at any time so far       *)
(*   came, went     history: whether an entry was added, or left           *)
(* What is counted and joined for a page afterwards changes nothing.       *)
(***************************************************************************)
EXTENDS SocialState

\* What a list is about: a post, a comment, or a user.
Subjects(kind) ==
  CASE kind \in {"comments", "adminComments"} -> DOMAIN tables.post
    [] kind \in {"answers", "adminAnswers"} -> {c \in DOMAIN tables.comment : getCommentById(tables, c) # 0}
    [] kind \in {"adminUsers", "adminPosts"} -> {Stranger}
    [] OTHER -> tables.user

OpenList(kind, u, about, dir, size) ==
  LET f == [open |-> TRUE, kind |-> kind, about |-> about, dir |-> dir, size |-> size,
            reader |-> IF kind \in CommentKinds THEN u ELSE Stranger,
            page |-> 0, last |-> 0, seen |-> <<>>, over |-> FALSE, steady |-> {},
            came |-> FALSE, went |-> FALSE]
  IN /\ <<kind, dir, size>> \in scene.lists /\ ~feed.open
     /\ feed' = [f EXCEPT !.steady = {l.entry : l \in Lines(tables, f)}]
     /\ UNCHANGED <<tables, now, broken, scene, filesVars, handlerVars>>

\* One page after the other.
ListRequest(h) ==
  /\ feed.open /\ feed.kind \in ListKinds /\ ~feed.over
  /\ \A g \in Slots : Busy(g) => job[g].op # "list"
  /\ Ask(h, "list", [page |-> feed.page],
         IF feed.kind \in CommentKinds THEN "find" ELSE "rows", {})

ListResults(kind) ==
  CASE kind = "comments" -> getCommentsForPostResults
    [] kind = "answers" -> getCommentAnswersForCommentResults
    [] kind = "adminComments" -> adminCommentsForPostResults
    [] kind = "adminAnswers" -> adminAnswersForCommentResults
    [] kind = "adminPosts" -> adminPostsResults
    [] kind = "followers" -> getFollowersResults
    [] kind = "following" -> getFollowingResults
    [] kind = "adminFollowers" -> adminFollowersResults
    [] kind = "adminFollowing" -> adminFollowingResults
    [] kind = "search" -> searchUsersResults
    [] kind = "adminUsers" -> adminUsersResults

\* The post whose comments are asked for, or the comment that was answered,
\* is looked up.
FindOrAnswer(h, found) ==
  IF found = 0 THEN Answer(h, ListResults(feed.kind), "NotFound")
  ELSE Read(h, "found", {found}, "rows")

CommentsFind(h) ==
  /\ At(h, {"list"}, "find") /\ feed.kind \in {"comments", "adminComments"}
  /\ FindOrAnswer(h, getPostById(tables, feed.about))

AnswersFind(h) ==
  /\ At(h, {"list"}, "find") /\ feed.kind \in {"answers", "adminAnswers"}
  /\ FindOrAnswer(h, getCommentById(tables, feed.about))

ShowPage(h) ==
  /\ At(h, {"list"}, "rows")
  /\ \E page \in ListPages(tables, feed) :
       feed' = [feed EXCEPT !.page = @ + 1,
                            !.seen = @ \o [i \in DOMAIN page |-> page[i].entry],
                            !.last = IF page = <<>> THEN @ ELSE page[Len(page)].entry,
                            !.over = Len(page) < feed.size]
  /\ Reply(h, Switch(ListResults(feed.kind), "Success"))
  /\ UNCHANGED <<tables, now, broken, scene, filesVars>>

CommentsRead(h) == feed.open /\ feed.kind = "comments" /\ ShowPage(h)
AnswersRead(h) == feed.open /\ feed.kind = "answers" /\ ShowPage(h)
FollowersRead(h) == feed.open /\ feed.kind = "followers" /\ ShowPage(h)
FollowingRead(h) == feed.open /\ feed.kind = "following" /\ ShowPage(h)
SearchRead(h) == feed.open /\ feed.kind = "search" /\ ShowPage(h)
AdminListsRead(h) ==
  feed.open /\ feed.kind \notin CursorKinds \cup {"comments", "answers"} /\ ShowPage(h)

ListRequests(h) ==
  \/ ListRequest(h)
  \/ \E list \in scene.lists : \E u \in tables.user, about \in Subjects(list[1]) :
       OpenList(list[1], u, about, list[2], list[3])

ListSteps(h) ==
  \/ CommentsFind(h) \/ AnswersFind(h) \/ CommentsRead(h) \/ AnswersRead(h)
  \/ FollowersRead(h) \/ FollowingRead(h) \/ SearchRead(h) \/ AdminListsRead(h)
==============================================================================
