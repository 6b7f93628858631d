--------------------------- MODULE OfferListing ---------------------------
(***************************************************************************)
(* The offers page (P2P) keeps its tab, side, amount, order and page in    *)
(* the address.  A navigation takes time, and it is computed from the      *)
(* address of the last render: a second one replaces the first.  The       *)
(* amount filter writes what is typed half a second after the last change  *)
(* of the input or of the address; on a small screen the filter of the     *)
(* wide layout is hidden but mounted, next to the one in the popover.      *)
(***************************************************************************)
EXTENDS Naturals

CONSTANTS
    Amounts,    \* the smallest amounts that can be typed
    MaxPage     \* the pages a list can have

ASSUME ListingConstants == MaxPage \in Nat \ {0} /\ 0 \notin Amounts

VARIABLES
    url,        \* the parameters of the address; min 0 is none
    want,       \* the navigation under way
    typed,      \* the amount typed in each filter
    timers,     \* the filters whose timer runs
    wide,       \* the layout of the screen
    open,       \* the popover of the small layout
    total,      \* the pages of the list shown, 0 while it is loading
    pageFor,    \* the page was chosen under the filters shown (history)
    lost        \* what replaced a navigation under way (history)

listingVars == <<url, want, typed, timers, wide, open, total, pageFor, lost>>

Inputs == {"row", "popover"}
Tabs == {"offers", "my-offers", "my-trading"}
Sides == {"BUY", "SELL"}
Filters(u) == [tab |-> u.tab, side |-> u.side, min |-> u.min, sort |-> u.sort]

\* A link may hold any of the parameters.
ListingInit ==
    /\ url \in [tab : {"offers"}, side : {"BUY"}, sort : {"rate_asc"},
                min : {0} \cup Amounts, page : {1, MaxPage}]
    /\ want = url /\ typed = [i \in Inputs |-> 0] /\ timers = {"row"}
    /\ wide \in BOOLEAN /\ open = FALSE /\ total = 0
    /\ pageFor = TRUE /\ lost = {}

Settled == want = url /\ timers = {}

----------------------------------------------------------------------------
(* Navigations *)

\* useQueryParam and updateParams: router.push of the address with some
\* parameters replaced.
Push(u) ==
    /\ want' = u
    /\ lost' = IF want \in {url, u} THEN lost ELSE lost \cup {IF u = url THEN "dropped" ELSE "replaced"}

\* A variant that compares the side and the order only.
PageKeptByAmount(u) == u.side # url.side \/ u.sort # url.sort \/ u.tab # url.tab

\* The effect of prevFilterRef: another filter shows its first page.
FilterChanged(u) == Filters(u) # Filters(url)

\* The address changes: filters whose callback is new restart their timer, and
\* the page is reset.
Navigated ==
    /\ want # url
    /\ url' = want
    /\ timers' = IF open THEN Inputs ELSE {"row"}
    /\ total' = 0
    /\ want' = IF FilterChanged(want) /\ want.page # 1 THEN [want EXCEPT !.page = 1] ELSE want
    /\ pageFor' = IF want.page # url.page THEN TRUE ELSE pageFor /\ Filters(want) = Filters(url)
    /\ UNCHANGED <<typed, wide, open, lost>>

\* The list of the address arrives.
ListLoaded ==
    /\ total = 0
    /\ total' \in 1..MaxPage
    /\ UNCHANGED <<url, want, typed, timers, wide, open, pageFor, lost>>

----------------------------------------------------------------------------
(* The controls of the page *)

\* handleTabChange, unless the tab is the one shown.
HandleTabChange(tab) ==
    /\ tab # url.tab
    /\ Push([url EXCEPT !.tab = tab, !.min = 0, !.sort = "rate_asc"])
    /\ UNCHANGED <<url, typed, timers, wide, open, total, pageFor>>

\* handleSideChange leads back to the offers.
HandleSideChange(side) ==
    /\ IF url.tab # "offers"
       THEN Push([url EXCEPT !.side = side, !.tab = "offers", !.min = 0, !.sort = "rate_asc"])
       ELSE Push([url EXCEPT !.side = side])
    /\ UNCHANGED <<url, typed, timers, wide, open, total, pageFor>>

\* SortFilter
HandleSortChange(sort) ==
    /\ sort # url.sort
    /\ Push([url EXCEPT !.sort = sort])
    /\ UNCHANGED <<url, typed, timers, wide, open, total, pageFor>>

\* normalizePage, isValidPageChange and calculatePaginationState: the page the
\* pager stands on, and where its buttons lead.
NormalizePage(page, pages) == IF page >= pages THEN pages ELSE page
\* A variant for pages counted from zero.
ValidFromZero(target, pages) == target \in 0..pages
IsValidPageChange(target, pages) == target \in 1..pages
PagerTargets(page, pages) ==
    LET current == NormalizePage(page, pages)
    IN {p \in {current - 2, current - 1, current + 1, current + 2} : IsValidPageChange(p, pages)}
       \cup (IF current > 1 THEN {1} ELSE {}) \cup (IF current < pages THEN {pages} ELSE {})

\* handleChangePage of the pager, which is a skeleton while the list loads.
ChangePage ==
    /\ total # 0
    /\ \E p \in PagerTargets(url.page, total) : Push([url EXCEPT !.page = p])
    /\ UNCHANGED <<url, typed, timers, wide, open, total, pageFor>>

\* handleChangeLimit forgets the page (the limit itself is left out).
ChangeLimit ==
    /\ total # 0
    /\ Push([url EXCEPT !.page = 1])
    /\ UNCHANGED <<url, typed, timers, wide, open, total, pageFor>>

----------------------------------------------------------------------------
(* AvailableAmountFilter *)

TypeAmount(i, a) ==
    /\ a # typed[i] /\ IF i = "row" THEN wide ELSE open
    /\ typed' = [typed EXCEPT ![i] = a]
    /\ timers' = timers \cup {i}
    /\ UNCHANGED <<url, want, wide, open, total, pageFor, lost>>

\* P2PMobileFilters: a filter of its own, mounted as long as it is open.
OpenPopover ==
    /\ ~wide /\ ~open /\ open' = TRUE
    /\ timers' = timers \cup {"popover"}
    /\ UNCHANGED <<url, want, typed, wide, total, pageFor, lost>>

ClosePopover ==
    /\ open /\ open' = FALSE
    /\ typed' = [typed EXCEPT !["popover"] = 0]
    /\ timers' = timers \ {"popover"}
    /\ UNCHANGED <<url, want, wide, total, pageFor, lost>>

\* A variant that writes a new amount only.
FilterOnce(i) ==
    /\ i \in timers /\ (i = "popover" => "row" \notin timers)
    /\ timers' = timers \ {i}
    /\ IF typed[i] = 0 THEN UNCHANGED <<want, lost>> ELSE Push([url EXCEPT !.min = typed[i]])
    /\ UNCHANGED <<url, typed, wide, open, total, pageFor>>

\* The timer calls handleFilterChange.  Both restart together, and the one of
\* the row was mounted first.
FilterTimer(i) ==
    /\ i \in timers /\ (i = "popover" => "row" \notin timers)
    /\ timers' = timers \ {i}
    /\ Push([url EXCEPT !.min = typed[i]])
    /\ UNCHANGED <<url, typed, wide, open, total, pageFor>>

ListingNext ==
    \/ Navigated \/ ListLoaded
    \/ \E tab \in Tabs : HandleTabChange(tab)
    \/ \E side \in Sides : HandleSideChange(side)
    \/ \E sort \in {"rate_asc", "rate_desc"} : HandleSortChange(sort)
    \/ ChangePage \/ ChangeLimit
    \/ \E i \in Inputs, a \in {0} \cup Amounts : TypeAmount(i, a)
    \/ OpenPopover \/ ClosePopover
    \/ \E i \in Inputs : FilterTimer(i)

ListingSpec == ListingInit /\ [][ListingNext]_listingVars

----------------------------------------------------------------------------

\* Types of the state: the pager leads to pages there are.
ListingTypeOK ==
    /\ {url, want} \subseteq [tab : Tabs, side : Sides, min : {0} \cup Amounts,
                             sort : {"rate_asc", "rate_desc"}, page : 1..MaxPage]
    /\ typed \in [Inputs -> {0} \cup Amounts] /\ timers \subseteq Inputs
    /\ {wide, open, pageFor} \subseteq BOOLEAN /\ total \in 0..MaxPage
    /\ lost \subseteq {"replaced", "dropped"}

\* Another filter starts at its first page: a later page was chosen under the
\* filters shown, unless a navigation was replaced by a later one.
PageIsReset == want = url /\ lost = {} /\ url.page # 1 => pageFor

\* When everything has come to rest the list is filtered by what the filter in
\* sight says: changes of the tab, a link, or clicks that replace its navigation
\* leave no other amount behind, but for a click that leads nowhere.
TypedFilterIsShown == "dropped" \notin lost =>
    /\ Settled /\ wide => url.min = typed["row"]
    /\ Settled /\ open => url.min = typed["popover"]
=============================================================================
