---------------------------- MODULE CampaignFeed ----------------------------
(***************************************************************************)
(* The feed of a campaign: the rows of user_content the indexer writes,    *)
(* the page of roots the service reads below a time, and the infinite      *)
(* query of the page, which reads further pages as the reader scrolls and  *)
(* reads all of them again, one after the other, when a post is hidden or  *)
(* unhidden. A row is its number; at is the time of its transaction, in    *)
(* the milliseconds of the cursor; rows of one time, which the query leaves *)
(* unordered, keep the order of the table. The edits come from other pages. *)
(***************************************************************************)
EXTENDS Naturals, Sequences, FiniteSets, SequencesExt, FiniteSetsExt

CONSTANTS PageSize,   \* posts of a page of the feed
          MaxRows,    \* rows of user_content
          MaxToggles  \* times a post is hidden or unhidden

ASSUME FeedAssumption == PageSize \in Nat \ {0} /\ {MaxRows, MaxToggles} \subseteq Nat

VARIABLES content, \* user_content: the root of a row, its time, visible
          feed,    \* the pages the query holds, and whether their reader is the creator
          job,     \* the read under way: of the next page, or of all pages again
          asked,   \* the request of the page to hide or unhide
          seen     \* history: see Noted

feedVars == <<content, feed, job, asked, seen>>

NoJob == [kind |-> "none", got |-> <<>>]
NoRequest == [root |-> 0, visible |-> FALSE]

Rows(c) == 1..Len(c)
RootsOf(c) == {c[r].root : r \in Rows(c)}
Versions(c, root) == {r \in Rows(c) : c[r].root = root}

\* A variant that shows hidden versions to everybody
ReadableByAll(c, creator, root) == Versions(c, root)

\* The rows a reader may see: all to their creator, the visible ones to everybody
Readable(c, creator, root) == {r \in Versions(c, root) : creator \/ c[r].visible}

\* The time a root is listed by: the oldest of its rows the reader may see; 0 when there is none
RootAt(c, creator, root) ==
    LET rows == Readable(c, creator, root)
    IN  IF rows = {} THEN 0 ELSE Min({c[r].at : r \in rows})

\* A variant that orders by the newest version of each root
BeforeByVersion(c, creator, r, s) ==
    LET newest(x) == Max({c[v].at : v \in Readable(c, creator, x)} \cup {0})
    IN  newest(r) > newest(s) \/ (newest(r) = newest(s) /\ r < s)

\* Roots in the order of a page: newest first, equal times in the order of the table
Before(c, creator, r, s) ==
    \/ RootAt(c, creator, r) > RootAt(c, creator, s)
    \/ RootAt(c, creator, r) = RootAt(c, creator, s) /\ r < s

\* The roots a page may hold: below is the cursor, 0 for none
Listed(c, creator, below) ==
    {r \in RootsOf(c) : RootAt(c, creator, r) # 0 /\ (below = 0 \/ RootAt(c, creator, r) < below)}

\* The row of r among the roots of the answer: one more than the roots before it
PlaceIn(c, creator, roots, r) == Cardinality({s \in roots : s = r \/ Before(c, creator, s, r)})

\* A root with its newest version the reader may see
PostOf(c, creator, r) ==
    LET latest == Max(Readable(c, creator, r))
    IN  [root |-> r, latest |-> latest, rootAt |-> RootAt(c, creator, r), visible |-> c[latest].visible]

\* One page as the service answers it
ListFeeds(c, creator, below) ==
    LET roots  == Listed(c, creator, below)
        nth(i) == CHOOSE r \in roots : PlaceIn(c, creator, roots, r) = i
        count  == IF Cardinality(roots) < PageSize THEN Cardinality(roots) ELSE PageSize
    IN  [i \in 1..count |-> PostOf(c, creator, nth(i))]

\* A variant that takes the time of the version shown for the cursor
CursorOfVersion(pages) ==
    IF pages = <<>> \/ Len(Last(pages)) # PageSize THEN 0 ELSE content[Last(Last(pages)).latest].at

\* getNextPageParam: the time of the last post of a full page; 0 when no page follows
NextCursor(pages) ==
    IF pages = <<>> \/ Len(Last(pages)) # PageSize THEN 0 ELSE Last(Last(pages)).rootAt

\* The posts on the screen, each at its page and its place on the page
Spots(f) == {s \in (DOMAIN f.pages) \X (1..PageSize) : s[2] \in DOMAIN f.pages[s[1]]}
PostAt(f, s) == f.pages[s[1]][s[2]]

FeedInit ==
    /\ content \in {<<>>} \cup
         {[i \in 1..2 |-> [root |-> i, at |-> IF i = 1 THEN 1 ELSE t, visible |-> TRUE]] : t \in 1..2}
    /\ \E creator \in BOOLEAN : feed = [creator |-> creator, pages |-> <<>>]
    /\ job = [kind |-> "again", got |-> <<>>]
    /\ asked = NoRequest
    /\ seen = [moved |-> {}, movedNext |-> {}, other |-> {}, otherNext |-> {}, toggles |-> 0, dropped |-> FALSE]

(***************************************************************************)
(* The table                                                               *)
(***************************************************************************)
\* History: the roots whose place in the list changed, and those that changed with no
\* answer to the page that says so, since the pages shown were read and since the read
\* under way began; the toggles so far, and whether a read of all pages was given up
Noted(after, others) ==
    LET moved == {r \in RootsOf(after) : r \notin RootsOf(content)
                    \/ RootAt(after, feed.creator, r) # RootAt(content, feed.creator, r)}
    IN  [seen EXCEPT !.moved = @ \cup moved, !.movedNext = @ \cup moved,
                     !.other = @ \cup others, !.otherNext = @ \cup others]

\* The indexer inserts a post, or an edit of one, with the visible flag's default
ContentIndexed ==
    /\ Len(content) < MaxRows
    /\ \E root \in RootsOf(content) \cup {Len(content) + 1}, step \in 0..1 :
         LET at    == (IF content = <<>> THEN 1 ELSE Last(content).at) + step
             after == Append(content, [root |-> root, at |-> at, visible |-> TRUE])
         IN  /\ content' = after
             /\ seen' = Noted(after, {root})
    /\ UNCHANGED <<feed, job, asked>>

\* UpdateVisibleFeed: every version of the root
WithVisible(c, root, visible) ==
    [r \in Rows(c) |-> IF c[r].root = root THEN [c[r] EXCEPT !.visible = visible] ELSE c[r]]

\* The creator hides or unhides a post in another tab
ToggledElsewhere ==
    /\ seen.toggles < MaxToggles
    /\ \E root \in RootsOf(content), visible \in BOOLEAN :
         LET after == WithVisible(content, root, visible)
         IN  /\ after # content
             /\ content' = after
             /\ seen' = [Noted(after, {root}) EXCEPT !.toggles = @ + 1]
    /\ UNCHANGED <<feed, job, asked>>

(***************************************************************************)
(* The query                                                               *)
(***************************************************************************)
\* The last post comes into view: the next page is read, and a read of all
\* pages that is under way is dropped
FetchNextPage ==
    /\ NextCursor(feed.pages) # 0 /\ job.kind # "next"
    /\ job' = [kind |-> "next", got |-> <<>>]
    /\ seen' = [seen EXCEPT !.dropped = @ \/ job.kind = "again"]
    /\ UNCHANGED <<content, feed, asked>>

NextPageRead ==
    /\ job.kind = "next"
    /\ feed' = [feed EXCEPT !.pages = Append(@, ListFeeds(content, feed.creator, NextCursor(feed.pages)))]
    /\ job' = NoJob
    /\ UNCHANGED <<content, asked, seen>>

\* One page of the read of all: as many as are shown, each below the one read before it
PageReadAgain ==
    LET got   == Append(job.got, ListFeeds(content, feed.creator, NextCursor(job.got)))
        moved == IF job.got = <<>> THEN {} ELSE seen.movedNext
        other == IF job.got = <<>> THEN {} ELSE seen.otherNext
        done  == Len(got) >= Len(feed.pages) \/ NextCursor(got) = 0
    IN  /\ job.kind = "again"
        /\ \/ /\ ~done
              /\ job' = [job EXCEPT !.got = got]
              /\ seen' = [seen EXCEPT !.movedNext = moved, !.otherNext = other]
              /\ UNCHANGED feed
           \/ /\ done
              /\ feed' = [feed EXCEPT !.pages = got]
              /\ job' = NoJob
              /\ seen' = [seen EXCEPT !.moved = moved, !.movedNext = {}, !.other = other, !.otherNext = {},
                                     !.dropped = FALSE]
        /\ UNCHANGED <<content, asked>>

\* A read and its one repetition fail: the query keeps the pages it has, and shows them
ReadFails ==
    /\ job.kind # "none"
    /\ job' = NoJob
    /\ seen' = [seen EXCEPT !.dropped = @ \/ job.kind = "again"]
    /\ UNCHANGED <<content, feed, asked>>

(***************************************************************************)
(* Hide and Unhide in the menu of a post                                   *)
(***************************************************************************)
\* The menu of a post has the item for the creator only
OffersToggle(f) == f.creator

ToggleHide ==
    /\ OffersToggle(feed) /\ asked = NoRequest /\ seen.toggles < MaxToggles
    /\ \E s \in Spots(feed) :
         asked' = [root |-> PostAt(feed, s).root, visible |-> ~PostAt(feed, s).visible]
    /\ seen' = [seen EXCEPT !.toggles = @ + 1]
    /\ UNCHANGED <<content, feed, job>>

\* A variant that only shows its toast
ToggleAnsweredQuietly ==
    /\ asked # NoRequest
    /\ content' = WithVisible(content, asked.root, asked.visible)
    /\ seen' = Noted(content', {})
    /\ asked' = NoRequest
    /\ UNCHANGED <<feed, job>>

\* The service writes, and its answer makes the query read every page again
ToggleAnswered ==
    /\ asked # NoRequest
    /\ content' = WithVisible(content, asked.root, asked.visible)
    /\ seen' = Noted(content', {})
    /\ asked' = NoRequest
    /\ job' = [kind |-> "again", got |-> <<>>]
    /\ UNCHANGED feed

\* The request fails, or its answer is lost after the service wrote: a toast, nothing is read
ToggleFails ==
    /\ asked # NoRequest
    /\ \/ UNCHANGED <<content, seen>>
       \/ /\ content' = WithVisible(content, asked.root, asked.visible)
          /\ seen' = Noted(content', {asked.root})
    /\ asked' = NoRequest
    /\ UNCHANGED <<feed, job>>

FeedNext == \/ ContentIndexed \/ ToggledElsewhere
            \/ FetchNextPage \/ NextPageRead \/ PageReadAgain \/ ReadFails
            \/ ToggleHide \/ ToggleAnswered \/ ToggleFails

FeedSpec == FeedInit /\ [][FeedNext]_feedVars

(***************************************************************************)
(* Properties                                                              *)
(***************************************************************************)
\* Types: what a page shows is a version the reader may see or saw
FeedTypeOK ==
    /\ \A r \in Rows(content) : /\ content[r].root \in 1..r /\ content[r].at \in Nat
                                /\ content[r].visible \in BOOLEAN
    /\ \A s \in Spots(feed) :
         LET p == PostAt(feed, s)
         IN  /\ p.root \in RootsOf(content) /\ p.latest \in Versions(content, p.root)
             /\ p.visible \/ feed.creator
    /\ job.kind \in {"none", "next", "again"} /\ (job.kind # "again" => job.got = <<>>)
    /\ asked # NoRequest => feed.creator

Shows(f, root) == {s \in Spots(f) : PostAt(f, s).root = root}

\* NothingTwice: the pages the reader scrolled through hold a post once, whatever
\* is published or edited between their reads; only a post whose place changed
\* (hidden, unhidden, or revealed by an edit) may come again
NothingTwice ==
    \A root \in RootsOf(content) \ seen.moved : Cardinality(Shows(feed, root)) <= 1

\* NothingLeftOut: a reader who reached the end has every post, but one that has
\* the very time of another post on the last place of a page
NothingLeftOut ==
    (feed.pages # <<>> /\ NextCursor(feed.pages) = 0) =>
        \A root \in RootsOf(content) \ seen.moved :
            RootAt(content, feed.creator, root) # 0 =>
                \/ Shows(feed, root) # {}
                \/ \E i \in DOMAIN feed.pages :
                     /\ Len(feed.pages[i]) = PageSize
                     /\ Last(feed.pages[i]).rootAt = RootAt(content, feed.creator, root)

\* ToggledIsShown: once the answer to Hide or Unhide came and the page is at rest,
\* every post shows what the table says of it. Three exceptions: another page changed
\* it; the answer was lost after the service wrote; the read that would have told was
\* given up, because the reader scrolled into it or because it failed
ToggledIsShown ==
    (job = NoJob /\ asked = NoRequest /\ ~seen.dropped) =>
        \A s \in Spots(feed) :
            LET p == PostAt(feed, s)
            IN  p.root \notin seen.other => p.visible = content[p.latest].visible
=============================================================================
