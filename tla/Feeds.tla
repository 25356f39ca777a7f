-------------------------------- MODULE Feeds --------------------------------
(***************************************************************************)
(* Reading posts page by page: everybody's, one's own, or those of the     *)
(* users one follows.  The reader asks for a page with the id of the last  *)
(* post of the page before; the query reads that post's dates first, then  *)
(* the page, then the photos.                                              *)
(*                                                                         *)
(* A feed is a record                                                      *)
(*   kind, reader, by, dir    the query, and how it is sorted              *)
(*   last     the post the next page begins after, 0 for the first page    *)
(*   seen     the rows shown, [post, full: with all its photos]            *)
(*   over     the last page was not full                                   *)
(*   steady   history: posts it would have shown at any time so far        *)
(*   after    history: the posts and dates that pages began after          *)
(*   restarted   history: a page began anew because the last post was gone *)
(***************************************************************************)
EXTENDS SocialState

CONSTANT PageSize

ASSUME PageSizeAssumption == PageSize \in Nat \ {0}

FeedResults(kind) ==
  CASE kind = "public" -> getPublicPostsResults
    [] kind = "own" -> getPostsByUserResults
    [] kind = "followings" -> getFollowingsPostsResults

OpenFeed(kind, u, sorting) ==
  LET f == [open |-> TRUE, kind |-> kind, reader |-> u, by |-> sorting.by, dir |-> sorting.dir,
            last |-> 0, seen |-> <<>>, over |-> FALSE, steady |-> {}, after |-> {},
            restarted |-> FALSE]
  IN /\ <<kind, sorting>> \in scene.feeds /\ ~feed.open
     /\ feed' = [f EXCEPT !.steady = Shown(tables, f)]
     /\ UNCHANGED <<tables, now, broken, scene, filesVars, handlerVars>>

NoDates == [created |-> 0, updated |-> 0]

\* getFollowingToInfo comes first; without followees the page is empty.
PageFollowees(h) ==
  /\ At(h, {"page"}, "followees")
  /\ Read(h, "owners", {IF feed.kind = "followings" THEN getFollowingToInfo(tables, feed.reader)
                        ELSE tables.user}, "cursor")

\* The dates of the last post; in the feed of followings also a banned owner's.
PageCursor(h) ==
  LET p == feed.last
      found == p # 0 /\ p \in (IF feed.kind = "followings" THEN LiveRows(tables.post)
                               ELSE Visible(tables))
  IN /\ At(h, {"page"}, "cursor")
     /\ Read(h, "cursor",
             {IF found THEN [created |-> tables.post[p].created, updated |-> tables.post[p].updated]
              ELSE NoDates}, "rows")

Date(post, by) == IF by = "createdAt" THEN post.created ELSE post.updated

\* Mutant: the page begins with the date of the last post.
FromDate(post, f, dates) ==
  dates = NoDates \/ (IF f.dir = "asc" THEN Date(post, f.by) >= Date(dates, f.by)
                      ELSE Date(post, f.by) <= Date(dates, f.by))

\* The where clause.  Two of the queries compare the updatedAt of a post with
\* the createdAt of the last one; a null date is neither less nor greater.
PastCursor(post, f, dates) ==
  LET bound == IF f.kind = "followings" THEN Date(dates, f.by) ELSE dates.created IN
  \/ Date(dates, f.by) = 0
  \/ /\ Date(post, f.by) # 0
     /\ IF f.dir = "asc" THEN Date(post, f.by) > bound ELSE Date(post, f.by) < bound

\* Null dates count as the latest.
Rank(post, by) == IF Date(post, by) = 0 THEN now + 1 ELSE Date(post, by)

Precedes(post, other, f) ==
  IF f.dir = "asc" THEN Rank(post, f.by) < Rank(other, f.by)
  ELSE Rank(post, f.by) > Rank(other, f.by)

\* The viewer's like is joined and grouped by: a row for each status he has.
StatusesOf(p) ==
  LET own == {tables.like[k].status : k \in LikesOf(tables.like, p, feed.reader)} IN
  IF own = {} THEN {"none"} ELSE own

PageRows(f, owners, dates) ==
  UNION {{[post |-> p, status |-> s] : s \in StatusesOf(p)} :
         p \in {q \in Visible(tables) :
                  /\ tables.post[q].owner \in owners
                  /\ f.kind = "own" => tables.post[q].owner = f.reader
                  /\ PastCursor(tables.post[q], f, dates)}}

\* order by, limit: the first rows of R in an order the sorting allows.
Pages(R, f) ==
  LET n == IF Cardinality(R) < PageSize THEN Cardinality(R) ELSE PageSize
      Before(r, s) == Precedes(tables.post[r.post], tables.post[s.post], f)
  IN {page \in [1..n -> R] :
        /\ \A i, j \in 1..n : i < j => page[i] # page[j] /\ ~Before(page[j], page[i])
        /\ \A r \in R : (\A i \in 1..n : page[i] # r) => \A i \in 1..n : ~Before(r, page[i])}

PageReads(h) ==
  /\ At(h, {"page"}, "rows")
  /\ \E page \in Pages(PageRows(feed, Got(h, "owners"), Got(h, "cursor")), feed) :
       /\ Learn(h, "page", page, "photos")
       /\ feed' = [feed EXCEPT
            !.after = IF Got(h, "cursor") = NoDates THEN @
                      ELSE @ \cup {[post |-> feed.last, created |-> Got(h, "cursor").created]},
            !.restarted = @ \/ (feed.last # 0 /\ Got(h, "cursor") = NoDates)]
  /\ UNCHANGED <<tables, now, broken, scene, filesVars>>

InDeletion(p) ==
  \/ \E c \in calls : c.op = "deletePostPhotos" /\ c.about = p
  \/ \E h \in Slots : p \in PostInWork(h)

\* getPostPhotos for each post of the page; the reader gets the page.
PageEnds(h) ==
  /\ At(h, {"page"}, "photos")
  /\ LET page == Got(h, "page")
         Full(p) == p \notin LiveRows(tables.post) \/ InDeletion(p)
                    \/ Cardinality(PhotosOf(p)) = tables.post[p].files
     IN feed' = [feed EXCEPT
          !.seen = @ \o [i \in DOMAIN page |-> [post |-> page[i].post, full |-> Full(page[i].post)]],
          !.last = IF page = <<>> THEN @ ELSE page[Len(page)].post,
          !.over = Len(page) < PageSize]
  /\ Reply(h, Switch(FeedResults(feed.kind), "Success"))
  /\ UNCHANGED <<tables, now, broken, scene, filesVars>>

\* One page after the other.
PageRequest(h) ==
  /\ feed.open /\ feed.kind \in Kinds /\ ~feed.over
  /\ \A g \in Slots : Busy(g) => job[g].op # "page"
  /\ Ask(h, "page", [last |-> feed.last], "followees", {})

FeedRequests(h) ==
  \/ PageRequest(h)
  \/ \E kind \in Kinds, u \in tables.user, sorting \in Sortings : OpenFeed(kind, u, sorting)

FeedSteps(h) == PageFollowees(h) \/ PageCursor(h) \/ PageReads(h) \/ PageEnds(h)
==============================================================================
