--------------------------- MODULE SitePagesProofs ---------------------------
(***************************************************************************)
(* The pages outside the trading room: the offers and orders, the lucky    *)
(* money, the transfers, the search and the wallets, for any amounts,      *)
(* pages, sessions, terms and steps; and at the end what is checked of     *)
(* MCSitePages, the campaigns of CampaignPagesProofs included, holds for   *)
(* every value of the constants.                                           *)
(***************************************************************************)
EXTENDS MCSitePages, CampaignPagesProofs

-----------------------------------------------------------------------------
(* The offers page (OfferListing).                                         *)

Addresses == [tab : Tabs, side : Sides, min : {0} \cup Amounts,
              sort : {"rate_asc", "rate_desc"}, page : 1..MaxPage]

\* A page chosen under other filters is being left for the first one.
PageInv == lost = {} /\ url.page # 1 /\ ~ pageFor => want = [url EXCEPT !.page = 1]

\* The popover belongs to the small layout, and its timer to the popover; the row's
\* timer was mounted first.
PopoverInv ==
    /\ open => ~ wide
    /\ "popover" \in timers => open
    /\ open /\ "row" \in timers => "popover" \in timers

ListingInv == ListingTypeOK /\ PageInv /\ PopoverInv /\ TypedFilterIsShown

\* A navigation to another address.
LEMMA PushStep ==
    ASSUME ListingInv, NEW u \in Addresses, Push(u),
           UNCHANGED <<url, typed, timers, wide, open, total, pageFor>>
    PROVE  ListingInv'
<1>1. want' = u /\ lost' \in SUBSET {"replaced", "dropped"}
      /\ lost \subseteq lost'
  BY DEF Push, ListingInv, ListingTypeOK
<1>2. ListingTypeOK'
  BY <1>1 DEF ListingInv, ListingTypeOK, Addresses
<1>3. want \notin {url, u} => lost' # {} /\ (u = url => "dropped" \in lost')
  BY DEF Push
<1>4. PageInv'
  <2> SUFFICES ASSUME lost' = {}, url.page # 1, ~ pageFor PROVE want' = [url EXCEPT !.page = 1]
    BY DEF PageInv
  <2>1. want = [url EXCEPT !.page = 1] /\ want \in {url, u}
    BY <1>1, <1>3 DEF ListingInv, PageInv
  <2>2. want # url
    <3>1. url \in Addresses
      BY DEF ListingInv, ListingTypeOK, Addresses
    <3>2. [url EXCEPT !.page = 1].page = 1
      BY <3>1 DEF Addresses
    <3> QED BY <2>1, <3>2
  <2> QED BY <1>1, <2>1, <2>2
<1>5. PopoverInv'
  BY DEF ListingInv, PopoverInv
<1>6. TypedFilterIsShown'
  <2>1. ASSUME "dropped" \notin lost', Settled' PROVE Settled /\ "dropped" \notin lost
    BY <1>1, <1>3, <2>1 DEF Settled
  <2> QED BY <2>1 DEF ListingInv, TypedFilterIsShown
<1> QED BY <1>2, <1>4, <1>5, <1>6 DEF ListingInv

LEMMA NavigatedStep == ASSUME ListingConstants, ListingInv, Navigated PROVE ListingInv'
<1>1. url \in Addresses /\ want \in Addresses
  BY DEF ListingInv, ListingTypeOK, Addresses
<1> DEFINE toFirst == FilterChanged(want) /\ want.page # 1
<1>2. want' = IF toFirst THEN [want EXCEPT !.page = 1] ELSE want
  BY DEF Navigated
<1>3. want' \in Addresses
  BY <1>1, <1>2 DEF Addresses, ListingConstants
<1>4. ListingTypeOK'
  <2>1. url' = want /\ timers' \subseteq Inputs /\ pageFor' \in BOOLEAN /\ total' = 0
        /\ UNCHANGED <<typed, wide, open, lost>>
    BY DEF ListingInv, ListingTypeOK, Navigated, Inputs
  <2>2. {url', want'} \subseteq Addresses
    BY <1>1, <1>3, <2>1
  <2>3. 0 \in 0..MaxPage
    BY DEF ListingConstants
  <2> HIDE DEF toFirst
  <2> QED BY <2>1, <2>2, <2>3 DEF ListingInv, ListingTypeOK, Addresses
<1>5. PageInv'
  <2>1. CASE toFirst
    BY <1>2, <2>1 DEF Navigated, PageInv
  <2>2. CASE ~ toFirst /\ want.page # 1 /\ want.page = url.page
    <3>1. Filters(want) = Filters(url)
      BY <2>2 DEF FilterChanged
    <3>2. want = url
      BY <1>1, <2>2, <3>1 DEF Filters, Addresses
    <3> QED BY <3>2 DEF Navigated
  <2>3. CASE want.page # url.page \/ want.page = 1
    BY <2>3 DEF Navigated, PageInv
  <2> QED BY <2>1, <2>2, <2>3
<1>6. PopoverInv'
  BY DEF ListingInv, PopoverInv, Navigated, Inputs
<1>7. TypedFilterIsShown'
  BY DEF Navigated, TypedFilterIsShown, Settled, Inputs
<1> QED BY <1>4, <1>5, <1>6, <1>7 DEF ListingInv

LEMMA ChangePageStep == ASSUME ListingConstants, ListingInv, ChangePage PROVE ListingInv'
<1>1. PICK p \in PagerTargets(url.page, total) : Push([url EXCEPT !.page = p])
  BY DEF ChangePage
<1>2. url \in Addresses /\ total \in 1..MaxPage
  BY DEF ListingInv, ListingTypeOK, Addresses, ChangePage
<1>3. p \in 1..total
  BY <1>1, <1>2 DEF PagerTargets, NormalizePage, IsValidPageChange, Addresses
<1>4. [url EXCEPT !.page = p] \in Addresses
  BY <1>2, <1>3 DEF Addresses, ListingConstants
<1> QED BY <1>1, <1>4, PushStep DEF ChangePage

LEMMA ListingStep == ASSUME ListingConstants, ListingInv, [ListingNext]_listingVars PROVE ListingInv'
<1>1. url \in Addresses /\ want \in Addresses
  BY DEF ListingInv, ListingTypeOK, Addresses
<1>2. CASE ListLoaded
  BY <1>2 DEF ListLoaded, ListingInv, ListingTypeOK, PageInv, PopoverInv, TypedFilterIsShown, Settled
<1>3. ASSUME NEW tab \in Tabs, HandleTabChange(tab) PROVE ListingInv'
  <2>1. [url EXCEPT !.tab = tab, !.min = 0, !.sort = "rate_asc"] \in Addresses
    BY <1>1 DEF Addresses
  <2> QED BY <1>3, <2>1, PushStep DEF HandleTabChange
<1>4. ASSUME NEW side \in Sides, HandleSideChange(side) PROVE ListingInv'
  <2>1. /\ [url EXCEPT !.side = side, !.tab = "offers", !.min = 0, !.sort = "rate_asc"] \in Addresses
        /\ [url EXCEPT !.side = side] \in Addresses
    BY <1>1 DEF Addresses, Tabs
  <2> QED BY <1>4, <2>1, PushStep DEF HandleSideChange
<1>5. ASSUME NEW sort \in {"rate_asc", "rate_desc"}, HandleSortChange(sort) PROVE ListingInv'
  <2>1. [url EXCEPT !.sort = sort] \in Addresses
    BY <1>1 DEF Addresses
  <2> QED BY <1>5, <2>1, PushStep DEF HandleSortChange
<1>6. CASE ChangeLimit
  <2>1. [url EXCEPT !.page = 1] \in Addresses
    BY <1>1 DEF Addresses, ListingConstants
  <2> QED BY <1>6, <2>1, PushStep DEF ChangeLimit
<1>7. ASSUME NEW i \in Inputs, NEW a \in {0} \cup Amounts, TypeAmount(i, a) PROVE ListingInv'
  <2>1. /\ typed' = [typed EXCEPT ![i] = a] /\ timers' = timers \cup {i}
        /\ IF i = "row" THEN wide ELSE open
        /\ UNCHANGED <<url, want, wide, open, total, pageFor, lost>>
    BY <1>7 DEF TypeAmount
  <2>2. ListingTypeOK' /\ PageInv'
    BY <2>1 DEF ListingInv, ListingTypeOK, PageInv
  <2>3. PopoverInv' /\ TypedFilterIsShown'
    BY <2>1 DEF ListingInv, PopoverInv, TypedFilterIsShown, Settled, Inputs
  <2> QED BY <2>2, <2>3 DEF ListingInv
<1>8. CASE OpenPopover
  <2>1. ListingTypeOK' /\ PageInv'
    BY <1>8 DEF OpenPopover, ListingInv, ListingTypeOK, PageInv, Inputs
  <2>2. PopoverInv' /\ TypedFilterIsShown'
    BY <1>8 DEF OpenPopover, ListingInv, PopoverInv, TypedFilterIsShown, Settled
  <2> QED BY <2>1, <2>2 DEF ListingInv
<1>9. CASE ClosePopover
  <2>1. ListingTypeOK' /\ PageInv'
    BY <1>9 DEF ClosePopover, ListingInv, ListingTypeOK, PageInv, Inputs
  <2>2. PopoverInv' /\ TypedFilterIsShown'
    BY <1>9 DEF ClosePopover, ListingInv, PopoverInv, TypedFilterIsShown, Settled
  <2> QED BY <2>1, <2>2 DEF ListingInv
<1>10. ASSUME NEW i \in Inputs, FilterTimer(i) PROVE ListingInv'
  <2> DEFINE u == [url EXCEPT !.min = typed[i]]
  <2>1. /\ i \in timers /\ (i = "popover" => "row" \notin timers) /\ timers' = timers \ {i}
        /\ Push(u) /\ UNCHANGED <<url, typed, wide, open, total, pageFor>>
    BY <1>10 DEF FilterTimer
  <2>2. u \in Addresses /\ u.min = typed[i]
    BY <1>1 DEF ListingInv, ListingTypeOK, Addresses
  <2>3. want' = u /\ lost' \in SUBSET {"replaced", "dropped"} /\ lost \subseteq lost'
        /\ (want \notin {url, u} => lost' # {} /\ (u = url => "dropped" \in lost'))
    BY <2>1 DEF Push, ListingInv, ListingTypeOK
  <2> HIDE DEF u
  <2>4. ListingTypeOK' /\ PageInv'
    BY <2>1, <2>2, <2>3 DEF ListingInv, ListingTypeOK, PageInv, Addresses
  <2>5. PopoverInv'
    BY <2>1 DEF ListingInv, PopoverInv, Inputs
  <2>6. TypedFilterIsShown'
    <3>1. ASSUME "dropped" \notin lost', Settled' PROVE want \in {url, u} /\ u = url /\ timers \subseteq {i} /\ "dropped" \notin lost
      BY <2>1, <2>3, <3>1 DEF Settled
    <3>2. i \in {"row", "popover"}
      BY DEF Inputs
    <3> QED BY <2>1, <2>2, <3>1, <3>2 DEF ListingInv, PopoverInv, TypedFilterIsShown
  <2> QED BY <2>4, <2>5, <2>6 DEF ListingInv
<1>11. CASE UNCHANGED listingVars
  BY <1>11 DEF listingVars, ListingInv, ListingTypeOK, PageInv, PopoverInv, TypedFilterIsShown, Settled
<1> QED BY <1>2, <1>3, <1>4, <1>5, <1>6, <1>7, <1>8, <1>9, <1>10, <1>11, NavigatedStep, ChangePageStep
        DEF ListingNext

(* The inductive invariant of the offers page.                               *)
THEOREM ListingAlways == ListingSpec => []ListingInv
<1>1. ListingInit => ListingInv
  <2> SUFFICES ASSUME ListingInit PROVE ListingInv
    OBVIOUS
  <2>1. ListingTypeOK
    <3>1. url \in Addresses /\ want \in Addresses
      BY ListingConstants DEF ListingInit, Addresses, Tabs, Sides
    <3>2. typed \in [Inputs -> {0} \cup Amounts] /\ timers \subseteq Inputs
      BY DEF ListingInit, Inputs
    <3>3. wide \in BOOLEAN /\ open \in BOOLEAN /\ pageFor \in BOOLEAN
      BY DEF ListingInit
    <3>4. total \in 0..MaxPage /\ lost \subseteq {"replaced", "dropped"}
      BY ListingConstants DEF ListingInit
    <3> QED BY <3>1, <3>2, <3>3, <3>4 DEF ListingTypeOK, Addresses
  <2>2. PageInv
    BY DEF ListingInit, PageInv
  <2>3. PopoverInv
    BY DEF ListingInit, PopoverInv
  <2>4. TypedFilterIsShown
    BY DEF ListingInit, TypedFilterIsShown, Settled
  <2> QED BY <2>1, <2>2, <2>3, <2>4 DEF ListingInv
<1>2. ListingInv /\ [ListingNext]_listingVars => ListingInv'
  BY ListingConstants, ListingStep
<1> QED BY <1>1, <1>2, PTL DEF ListingSpec

(* Types of the offers page, whose pager leads to pages there are.           *)
THEOREM ListingTypeCorrect == ListingSpec => []ListingTypeOK
<1>1. ListingInv => ListingTypeOK
  BY DEF ListingInv
<1> QED BY <1>1, ListingAlways, PTL

(* Another filter starts at its first page, for any amounts and pages.       *)
THEOREM PageAlwaysReset == ListingSpec => []PageIsReset
<1>1. ListingInv => PageIsReset
  <2> SUFFICES ASSUME ListingInv, want = url, lost = {}, url.page # 1, ~ pageFor PROVE FALSE
    BY DEF PageIsReset
  <2>1. url = [url EXCEPT !.page = 1] /\ url \in Addresses
    BY DEF ListingInv, PageInv, ListingTypeOK, Addresses
  <2>2. url.page = 1
    BY <2>1 DEF Addresses
  <2> QED BY <2>2
<1> QED BY <1>1, ListingAlways, PTL

(* The list is filtered by what the filter in sight says.                    *)
THEOREM TypedAlwaysShown == ListingSpec => []TypedFilterIsShown
<1>1. ListingInv => TypedFilterIsShown
  BY DEF ListingInv
<1> QED BY <1>1, ListingAlways, PTL

-----------------------------------------------------------------------------
(* The lists of offers and their dialogs (OfferDesk).                      *)

DialogRecords == [mounted : BOOLEAN, open : BOOLEAN, call : {"none", "sent", "ok", "refused"}, timer : BOOLEAN]
OfferLists == [shown : Market \cup {NoAnswer}, stale : BOOLEAN, fetch : Market \cup {NoAnswer, Asked}]

\* What is on the screen, or on its way to it, is as new as what was heard.
AsHeard(list) ==
    \/ list.fetch = Asked
    \/ list.fetch \in Market /\ list.fetch.at >= heard
    \/ list.fetch = NoAnswer /\ list.shown.at >= heard

HeardInv ==
    /\ heard \in 0..market.at
    /\ view \notin forgotten /\ ~ pause /\ (\A i \in Dialogs : ~ dialogs[i].timer) => AsHeard(lists[view])

DeskInv == DeskTypeOK /\ dialogs \in [Dialogs -> DialogRecords] /\ HeardInv

LEMMA MarketNumbers == ASSUME DeskAssumption, NEW m \in Market PROVE m.at \in Nat /\ m # NoAnswer /\ m # Asked
BY DEF DeskAssumption, Market, NoAnswer, Asked

\* The button of the row depends on what is shown only.
LEMMA SameButton ==
    ASSUME NEW v \in Lists, NEW a, NEW b, a[v].shown = b[v].shown
    PROVE  OffersCancel(v, a) <=> OffersCancel(v, b)
BY Zenon DEF OffersCancel, RowOf

\* Steps of the server and the dialogs that leave the lists alone.
LEMMA ListsKept ==
    ASSUME DeskAssumption, DeskInv, UNCHANGED <<view, lists, pause, forgotten>>,
           market' \in Market, mail' \subseteq Events, market'.at >= market.at, heard' = heard,
           dialogs' \in [Dialogs -> DialogRecords],
           \A i \in Dialogs : dialogs'[i].open => dialogs'[i].mounted /\ OffersCancel(view, lists),
           \A i \in Dialogs : dialogs[i].timer => dialogs'[i].timer
    PROVE  DeskInv'
<1>1. \A i \in Dialogs : dialogs'[i].open => dialogs'[i].mounted /\ OffersCancel(view, lists)'
  BY Zenon DEF OffersCancel, RowOf, RowAction, Active
<1>2. DeskTypeOK'
  BY <1>1 DEF DeskInv, DeskTypeOK
<1>3. heard' \in 0..market'.at
  BY MarketNumbers DEF DeskInv, DeskTypeOK, HeardInv, Market
<1>4. HeardInv'
  BY <1>3 DEF DeskInv, HeardInv, AsHeard
<1> QED BY <1>2, <1>4 DEF DeskInv

\* A change of the market.
LEMMA MarketChanges ==
    ASSUME DeskAssumption, DeskInv, NEW f, NEW e \in SUBSET Events, Changed(f, e),
           f.offer \in {"CONFIRMED", "CANCELED"}, f.order \in {"none", "OPEN", "DISPUTED"}
    PROVE  market' \in Market /\ mail' \subseteq Events /\ market'.at = market.at + 1 /\ market'.at >= market.at
<1>1. market.at \in 0..MaxChanges /\ market.at < MaxChanges
  BY DEF DeskInv, DeskTypeOK, Market, Changed
<1> QED BY <1>1 DEF Changed, Market, DeskInv, DeskTypeOK, DeskAssumption

LEMMA TradeOfOthers == ASSUME DeskAssumption, DeskInv, OthersTrade PROVE DeskInv'
<1>1. PICK o \in {"none", "OPEN", "DISPUTED"}, e \in SUBSET Events : Changed([market EXCEPT !.order = o], e)
  BY DEF OthersTrade, Events
<1>2. market' \in Market /\ mail' \subseteq Events /\ market'.at >= market.at
  <2> DEFINE f == [market EXCEPT !.order = o]
  <2>1. f.offer \in {"CONFIRMED", "CANCELED"} /\ f.order \in {"none", "OPEN", "DISPUTED"}
    BY DEF DeskInv, DeskTypeOK, Market
  <2>2. Changed(f, e)
    BY <1>1
  <2> HIDE DEF f
  <2> QED BY <2>1, <2>2, MarketChanges
<1> QED BY <1>2, ListsKept DEF OthersTrade, DeskInv, DeskTypeOK

LEMMA HeardStep == ASSUME DeskAssumption, DeskInv, Heard PROVE DeskInv'
<1>1. /\ mail' \subseteq mail /\ UNCHANGED <<market, view, lists, dialogs, forgotten>>
      /\ \/ pause' = TRUE /\ heard' = market.at
         \/ UNCHANGED <<pause, heard>>
  BY DEF Heard
<1>2. DeskTypeOK'
  BY <1>1 DEF DeskInv, DeskTypeOK, OffersCancel, RowOf
<1>3. market.at \in Nat
  BY MarketNumbers DEF DeskInv, DeskTypeOK
<1>4. HeardInv'
  BY <1>1, <1>3 DEF DeskInv, HeardInv, AsHeard
<1> QED BY <1>1, <1>2, <1>4 DEF DeskInv

\* A step that changes what is asked for, and not what is shown.
LEMMA AskedStep ==
    ASSUME DeskAssumption, DeskInv, UNCHANGED <<market, mail, view>>,
           lists' \in [Lists -> OfferLists], \A v \in Lists : lists'[v].shown = lists[v].shown,
           forgotten' \subseteq forgotten, dialogs' \in [Dialogs -> DialogRecords],
           \A i \in Dialogs : dialogs'[i].open = dialogs[i].open /\ dialogs'[i].mounted = dialogs[i].mounted,
           HeardInv'
    PROVE  DeskInv'
<1>1. OffersCancel(view, lists)' <=> OffersCancel(view, lists)
  <2>1. view \in Lists /\ lists'[view].shown = lists[view].shown
    BY DEF DeskInv, DeskTypeOK
  <2>2. OffersCancel(view, lists') <=> OffersCancel(view, lists)
    BY <2>1, SameButton
  <2> QED BY <2>2 DEF OffersCancel, RowOf, RowAction, Active
<1>2. DeskTypeOK'
  <2>1. \A i \in Dialogs : dialogs'[i].open => dialogs'[i].mounted /\ OffersCancel(view, lists)'
    BY <1>1 DEF DeskInv, DeskTypeOK
  <2> QED BY <2>1 DEF DeskInv, DeskTypeOK, OfferLists
<1> QED BY <1>2 DEF DeskInv

\* invalidateQueries
LEMMA InvalidatedLists ==
    ASSUME DeskInv, NEW which \in SUBSET Lists
    PROVE  /\ Invalidated(which) \in [Lists -> OfferLists]
           /\ \A v \in Lists : Invalidated(which)[v].shown = lists[v].shown
           /\ view \in which => Invalidated(which)[view].fetch = Asked
<1>1. lists \in [Lists -> OfferLists] /\ view \in Lists
  BY DEF DeskInv, DeskTypeOK, OfferLists
<1>2. ASSUME NEW l \in OfferLists, NEW on
      PROVE  /\ Refetched(l, on) \in OfferLists /\ Refetched(l, on).shown = l.shown
             /\ on => Refetched(l, on).fetch = Asked
  <2>1. CASE on
    BY <2>1 DEF Refetched, OfferLists
  <2>2. CASE ~ on
    BY <2>2 DEF Refetched, OfferLists
  <2> QED BY <2>1, <2>2
<1>3. \A v \in Lists : Invalidated(which)[v] = IF v \in which THEN Refetched(lists[v], v = view) ELSE lists[v]
  BY DEF Invalidated
<1>4. \A v \in Lists : /\ Invalidated(which)[v] \in OfferLists /\ Invalidated(which)[v].shown = lists[v].shown
  <2> SUFFICES ASSUME NEW v \in Lists
               PROVE  Invalidated(which)[v] \in OfferLists /\ Invalidated(which)[v].shown = lists[v].shown
    OBVIOUS
  <2>1. lists[v] \in OfferLists
    BY <1>1
  <2>2. Refetched(lists[v], v = view) \in OfferLists /\ Refetched(lists[v], v = view).shown = lists[v].shown
    BY <1>2, <2>1
  <2> QED BY <1>3, <2>1, <2>2
<1>5. view \in which => Invalidated(which)[view].fetch = Asked
  <2>1. lists[view] \in OfferLists
    BY <1>1
  <2>2. Refetched(lists[view], view = view).fetch = Asked
    BY <1>2, <2>1
  <2> QED BY <1>1, <1>3, <2>2
<1>6. Invalidated(which) = [v \in Lists |-> Invalidated(which)[v]]
  BY DEF Invalidated
<1> QED BY <1>4, <1>5, <1>6

LEMMA ListTimerStep == ASSUME DeskAssumption, DeskInv, ListTimer PROVE DeskInv'
<1>1. /\ lists' = Invalidated({view}) /\ UNCHANGED <<market, mail, view, heard, dialogs, forgotten>>
  BY DEF ListTimer
<1>2. view \in Lists
  BY DEF DeskInv, DeskTypeOK
<1>3. /\ lists' \in [Lists -> OfferLists] /\ lists'[view].fetch = Asked
      /\ \A v \in Lists : lists'[v].shown = lists[v].shown
  BY <1>1, <1>2, InvalidatedLists
<1>4. HeardInv'
  BY <1>1, <1>3 DEF DeskInv, HeardInv, AsHeard
<1> QED BY <1>1, <1>3, <1>4, AskedStep DEF DeskInv

LEMMA CancelTimerStep == ASSUME DeskAssumption, DeskInv, NEW i \in Dialogs, CancelTimer(i) PROVE DeskInv'
<1>1. /\ lists' = Invalidated({"offers", "my-offers"}) /\ UNCHANGED <<market, mail, view, pause, heard>>
      /\ dialogs' = [dialogs EXCEPT ![i].timer = FALSE] /\ forgotten' = {}
  BY DEF CancelTimer
<1>2. view \in Lists
  BY DEF DeskInv, DeskTypeOK
<1>3. /\ lists' \in [Lists -> OfferLists] /\ lists'[view].fetch = Asked
      /\ \A v \in Lists : lists'[v].shown = lists[v].shown
  BY <1>1, <1>2, InvalidatedLists DEF Lists
<1>4. HeardInv'
  BY <1>1, <1>3 DEF DeskInv, HeardInv, AsHeard
<1>5. /\ dialogs' \in [Dialogs -> DialogRecords]
      /\ \A j \in Dialogs : dialogs'[j].open = dialogs[j].open /\ dialogs'[j].mounted = dialogs[j].mounted
  BY <1>1 DEF DeskInv, DialogRecords
<1> QED BY <1>1, <1>3, <1>4, <1>5, AskedStep DEF DeskInv

LEMMA ServerReadsStep == ASSUME DeskAssumption, DeskInv, NEW v \in Lists, ServerReads(v) PROVE DeskInv'
<1>1. /\ lists[v].fetch = Asked /\ lists' = [lists EXCEPT ![v].fetch = market]
      /\ UNCHANGED <<market, mail, view, pause, heard, dialogs, forgotten>>
  BY DEF ServerReads
<1>2. /\ lists' \in [Lists -> OfferLists] /\ \A w \in Lists : lists'[w].shown = lists[w].shown
      /\ view \in Lists /\ market \in Market
  BY <1>1 DEF DeskInv, DeskTypeOK, OfferLists
<1>3. market.at \in Nat
  BY <1>2, MarketNumbers
<1>4. AsHeard(lists[view]) => AsHeard(lists[view])'
  <2>1. CASE v = view
    <3>1. lists'[view].fetch = market /\ heard' = heard /\ market' = market /\ view' = view /\ market.at >= heard
      BY <1>1, <1>2, <1>3, <2>1 DEF DeskInv, DeskTypeOK, HeardInv
    <3> QED BY <1>2, <3>1 DEF AsHeard
  <2>2. CASE v # view
    BY <1>1, <1>2, <2>2 DEF AsHeard, DeskInv, DeskTypeOK
  <2> QED BY <2>1, <2>2
<1>5. HeardInv'
  BY <1>1, <1>4 DEF DeskInv, HeardInv
<1> QED BY <1>1, <1>2, <1>5, AskedStep DEF DeskInv

LEMMA ListFailsStep == ASSUME DeskAssumption, DeskInv, NEW v \in Lists, ListFails(v) PROVE DeskInv'
<1>1. /\ lists[v].fetch = Asked /\ lists' = [lists EXCEPT ![v].fetch = NoAnswer]
      /\ heard' = IF v = view THEN 0 ELSE heard
      /\ UNCHANGED <<market, mail, view, pause, dialogs, forgotten>>
  BY DEF ListFails
<1>2. /\ lists' \in [Lists -> OfferLists] /\ \A w \in Lists : lists'[w].shown = lists[w].shown
      /\ view \in Lists /\ market \in Market /\ lists[view].shown \in Market \cup {NoAnswer}
  BY <1>1 DEF DeskInv, DeskTypeOK, OfferLists
<1>3. market.at \in Nat /\ lists[view].shown.at \in Nat
  BY <1>2, MarketNumbers DEF NoAnswer
<1>4. AsHeard(lists[view]) => AsHeard(lists[view])'
  <2>1. CASE v = view
    BY <1>1, <1>2, <1>3, <2>1 DEF AsHeard, DeskInv, DeskTypeOK
  <2>2. CASE v # view
    BY <1>1, <1>2, <2>2 DEF AsHeard, DeskInv, DeskTypeOK
  <2> QED BY <2>1, <2>2
<1>5. HeardInv'
  <2>1. heard' \in 0..market.at
    BY <1>1, <1>3 DEF DeskInv, HeardInv
  <2>2. AsHeard(lists[view])' \/ ~ (view \notin forgotten /\ ~ pause /\ (\A i \in Dialogs : ~ dialogs[i].timer))
    BY <1>4 DEF DeskInv, HeardInv
  <2> QED BY <1>1, <2>1, <2>2, Zenon DEF HeardInv
<1> QED BY <1>1, <1>2, <1>5, AskedStep DEF DeskInv

\* The rows of a list are drawn: dialogs go with them, and their timers.
LEMMA Rendered ==
    ASSUME DeskInv, NEW v \in Lists, NEW all, RowsRendered(v, all)
    PROVE  /\ dialogs' \in [Dialogs -> DialogRecords] /\ forgotten' \subseteq Lists
           /\ \A i \in Dialogs : dialogs'[i].open => dialogs'[i].mounted /\ v = view /\ OffersCancel(v, all)
           /\ \/ forgotten' = Lists
              \/ forgotten' = forgotten /\ \A i \in Dialogs : dialogs'[i].timer = dialogs[i].timer
<1> DEFINE gone == {i \in Dialogs : dialogs[i].mounted /\ (v # view \/ ~ OffersCancel(v, all))}
<1>0. forgotten' = IF \E i \in gone : dialogs[i].timer THEN {"offers", "my-offers"} ELSE forgotten
  BY DEF RowsRendered
<1>1. dialogs' = [i \in Dialogs |-> IF i \in gone THEN Unmounted(dialogs[i]) ELSE dialogs[i]]
  BY DEF RowsRendered
<1>2. \A i \in Dialogs : dialogs[i] \in DialogRecords /\ (dialogs[i].open => dialogs[i].mounted)
  BY DEF DeskInv, DeskTypeOK
<1>3. \A i \in gone : /\ Unmounted(dialogs[i]) \in DialogRecords /\ ~ Unmounted(dialogs[i]).open
                      /\ ~ Unmounted(dialogs[i]).timer /\ dialogs[i].mounted
  BY <1>2 DEF Unmounted, DialogRecords
<1>4. \A i \in Dialogs : dialogs[i].mounted /\ i \notin gone => v = view /\ OffersCancel(v, all)
  BY Zenon
<1> HIDE DEF gone
<1>5. dialogs' \in [Dialogs -> DialogRecords]
  BY <1>1, <1>2, <1>3
<1>6. \A i \in Dialogs : dialogs'[i].open => dialogs'[i].mounted /\ v = view /\ OffersCancel(v, all)
  BY <1>1, <1>2, <1>3, <1>4
<1>7. \/ forgotten' = Lists
      \/ forgotten' = forgotten /\ \A i \in Dialogs : dialogs'[i].timer = dialogs[i].timer
  <2>1. CASE \E i \in gone : dialogs[i].timer
    <3>1. forgotten' = {"offers", "my-offers"}
      BY <1>0, <2>1
    <3>2. forgotten' = Lists
      BY <3>1, Zenon DEF Lists
    <3> QED BY <3>2
  <2>2. CASE ~ \E i \in gone : dialogs[i].timer
    <3>1. \A i \in Dialogs : dialogs'[i] = IF i \in gone THEN Unmounted(dialogs[i]) ELSE dialogs[i]
      BY <1>1
    <3>2. \A i \in gone : dialogs[i].timer = FALSE /\ Unmounted(dialogs[i]).timer = FALSE
      BY <1>2, <1>3, <2>2 DEF DialogRecords, gone
    <3>3. forgotten' = forgotten
      BY <1>0, <2>2
    <3> QED BY <3>1, <3>2, <3>3
  <2> QED BY <2>1, <2>2
<1> QED BY <1>5, <1>6, <1>7 DEF DeskInv, DeskTypeOK

LEMMA ListLandsStep == ASSUME DeskAssumption, DeskInv, NEW v \in Lists, ListLands(v) PROVE DeskInv'
<1>1. /\ lists[v].fetch \notin {NoAnswer, Asked}
      /\ lists' = [lists EXCEPT ![v] = [shown |-> lists[v].fetch, fetch |-> NoAnswer, stale |-> FALSE]]
      /\ RowsRendered(view, lists') /\ UNCHANGED <<market, mail, view, pause, heard>>
  BY DEF ListLands
<1>2. view \in Lists /\ lists \in [Lists -> OfferLists] /\ market \in Market /\ mail \subseteq Events
  BY DEF DeskInv, DeskTypeOK, OfferLists
<1>3. lists[v].fetch \in Market /\ lists[v].stale \in BOOLEAN
  BY <1>1, <1>2 DEF OfferLists
<1>4. lists' \in [Lists -> OfferLists]
  <2>1. [shown |-> lists[v].fetch, fetch |-> NoAnswer, stale |-> FALSE] \in OfferLists
    BY <1>3 DEF OfferLists
  <2> QED BY <1>1, <1>2, <2>1
<1>5. /\ dialogs' \in [Dialogs -> DialogRecords] /\ forgotten' \subseteq Lists
      /\ \A i \in Dialogs : dialogs'[i].open => dialogs'[i].mounted /\ OffersCancel(view, lists')
      /\ \/ forgotten' = Lists
         \/ forgotten' = forgotten /\ \A i \in Dialogs : dialogs'[i].timer = dialogs[i].timer
  BY <1>1, <1>2, Rendered
<1>6. DeskTypeOK'
  <2>1. OffersCancel(view, lists') => OffersCancel(view, lists)'
    BY <1>1 DEF OffersCancel, RowOf, RowAction, Active
  <2>2. \A i \in Dialogs : dialogs'[i].open => dialogs'[i].mounted /\ OffersCancel(view, lists)'
    BY <1>5, <2>1
  <2> QED BY <1>1, <1>2, <1>4, <1>5, <2>2 DEF DeskTypeOK, OfferLists
<1>7. AsHeard(lists[view]) => AsHeard(lists[view])'
  <2>1. CASE v = view
    <3>1. lists'[view].fetch = NoAnswer /\ lists'[view].shown = lists[view].fetch
      BY <1>1, <1>2, <2>1
    <3>2. AsHeard(lists[view]) => lists[view].fetch.at >= heard
      BY <1>1, <2>1 DEF AsHeard
    <3> QED BY <1>1, <3>1, <3>2 DEF AsHeard
  <2>2. CASE v # view
    BY <1>1, <1>2, <2>2 DEF AsHeard
  <2> QED BY <2>1, <2>2
<1>8. HeardInv'
  <2>1. heard' \in 0..market'.at
    BY <1>1 DEF DeskInv, HeardInv
  <2>2. view' \notin forgotten' /\ ~ pause' /\ (\A i \in Dialogs : ~ dialogs'[i].timer) => AsHeard(lists[view])'
    BY <1>1, <1>2, <1>5, <1>7 DEF DeskInv, HeardInv
  <2> QED BY <2>1, <2>2, Zenon DEF HeardInv
<1> QED BY <1>5, <1>6, <1>8 DEF DeskInv

LEMMA SwitchTabStep == ASSUME DeskAssumption, DeskInv, NEW v \in Lists, SwitchTab(v) PROVE DeskInv'
<1>1. /\ v # view /\ view' = v /\ heard' = 0 /\ RowsRendered(v, lists') /\ UNCHANGED <<market, mail>>
      /\ pause' = FALSE /\ lists' \in {lists, [lists EXCEPT ![v] = Refetched(lists[v], TRUE)]}
  BY DEF SwitchTab
<1>2. lists \in [Lists -> OfferLists] /\ market \in Market /\ mail \subseteq Events
  BY DEF DeskInv, DeskTypeOK, OfferLists
<1>3. lists' \in [Lists -> OfferLists]
  <2>1. Refetched(lists[v], TRUE) \in OfferLists
    BY <1>2 DEF Refetched, OfferLists
  <2> QED BY <1>1, <1>2, <2>1
<1>4. /\ dialogs' \in [Dialogs -> DialogRecords] /\ forgotten' \subseteq Lists
      /\ \A i \in Dialogs : ~ dialogs'[i].open
  BY <1>1, Rendered
<1>5. DeskTypeOK'
  BY <1>1, <1>2, <1>3, <1>4 DEF DeskTypeOK, OfferLists
<1>6. market.at \in Nat
  BY <1>2, MarketNumbers
<1>7. AsHeard(lists[view])'
  <2>1. lists'[v] \in OfferLists
    BY <1>3
  <2>2. lists'[v].fetch \in Market => lists'[v].fetch.at \in Nat
    BY MarketNumbers
  <2>3. lists'[v].shown.at \in Nat
    BY <2>1, MarketNumbers DEF OfferLists, NoAnswer
  <2> QED BY <1>1, <2>1, <2>2, <2>3 DEF AsHeard, OfferLists
<1>8. HeardInv'
  BY <1>1, <1>6, <1>7 DEF HeardInv
<1> QED BY <1>4, <1>5, <1>8 DEF DeskInv

LEMMA DialogSteps ==
    ASSUME DeskAssumption, DeskInv, NEW i \in Dialogs,
           CloseCancelDialog(i) \/ HandleCancel(i) \/ ServerCancels(i)
    PROVE  DeskInv'
<1>1. /\ UNCHANGED <<view, lists, pause, heard, forgotten>>
      /\ \/ /\ UNCHANGED <<market, mail>>
            /\ \/ dialogs' = [dialogs EXCEPT ![i].open = FALSE]
               \/ \E c \in {"sent", "refused"} : dialogs' = [dialogs EXCEPT ![i].call = c]
         \/ /\ Changed([market EXCEPT !.offer = "CANCELED"], {"OFFER_LIST_REFRESH"})
            /\ dialogs' = [dialogs EXCEPT ![i].call = "ok"]
  BY DEF CloseCancelDialog, HandleCancel, ServerCancels
<1>2. market' \in Market /\ mail' \subseteq Events /\ market'.at >= market.at
  <2>1. CASE UNCHANGED <<market, mail>>
    BY <2>1, MarketNumbers DEF DeskInv, DeskTypeOK
  <2>2. CASE Changed([market EXCEPT !.offer = "CANCELED"], {"OFFER_LIST_REFRESH"})
    <3> DEFINE f == [market EXCEPT !.offer = "CANCELED"]
    <3>1. f.offer \in {"CONFIRMED", "CANCELED"} /\ f.order \in {"none", "OPEN", "DISPUTED"}
      BY DEF DeskInv, DeskTypeOK, Market
    <3>2. {"OFFER_LIST_REFRESH"} \in SUBSET Events
      BY DEF Events
    <3> HIDE DEF f
    <3> QED BY <2>2, <3>1, <3>2, MarketChanges DEF f
  <2> QED BY <1>1, <2>1, <2>2
<1>3. /\ dialogs' \in [Dialogs -> DialogRecords]
      /\ \A j \in Dialogs : /\ dialogs'[j].open => dialogs[j].open /\ dialogs'[j].mounted = dialogs[j].mounted
                            /\ dialogs'[j].timer = dialogs[j].timer
  <2>1. CASE dialogs' = [dialogs EXCEPT ![i].open = FALSE]
    BY <2>1 DEF DeskInv, DialogRecords
  <2>2. ASSUME NEW c \in {"sent", "refused", "ok"}, dialogs' = [dialogs EXCEPT ![i].call = c]
        PROVE  /\ dialogs' \in [Dialogs -> DialogRecords]
               /\ \A j \in Dialogs : /\ dialogs'[j].open => dialogs[j].open /\ dialogs'[j].mounted = dialogs[j].mounted
                                     /\ dialogs'[j].timer = dialogs[j].timer
    BY <2>2 DEF DeskInv, DialogRecords
  <2> QED BY <1>1, <2>1, <2>2
<1>4. \A j \in Dialogs : dialogs'[j].open => dialogs'[j].mounted /\ OffersCancel(view, lists)
  BY <1>3 DEF DeskInv, DeskTypeOK
<1> QED BY <1>1, <1>2, <1>3, <1>4, ListsKept

LEMMA OpenDialogStep == ASSUME DeskAssumption, DeskInv, OpenCancelDialog PROVE DeskInv'
<1>1. PICK i \in Dialogs : \/ dialogs[i].mounted /\ dialogs' = [dialogs EXCEPT ![i].open = TRUE]
                           \/ dialogs' = [dialogs EXCEPT ![i].mounted = TRUE, ![i].open = TRUE]
  BY DEF OpenCancelDialog
<1>2. /\ dialogs' \in [Dialogs -> DialogRecords]
      /\ \A j \in Dialogs : /\ dialogs'[j].open => j = i \/ dialogs[j].open
                            /\ dialogs[j].mounted => dialogs'[j].mounted
                            /\ dialogs'[j].timer = dialogs[j].timer
      /\ dialogs'[i].mounted
  <2>1. CASE dialogs[i].mounted /\ dialogs' = [dialogs EXCEPT ![i].open = TRUE]
    BY <2>1 DEF DeskInv, DialogRecords
  <2>2. CASE dialogs' = [dialogs EXCEPT ![i].mounted = TRUE, ![i].open = TRUE]
    BY <2>2 DEF DeskInv, DialogRecords
  <2> QED BY <1>1, <2>1, <2>2
<1>3. OffersCancel(view, lists) /\ UNCHANGED <<market, mail, view, lists, pause, heard, forgotten>>
  BY DEF OpenCancelDialog
<1>4. \A j \in Dialogs : dialogs'[j].open => dialogs'[j].mounted /\ OffersCancel(view, lists)
  BY <1>2, <1>3 DEF DeskInv, DeskTypeOK
<1>5. market \in Market /\ mail \subseteq Events /\ market.at \in Nat
  BY MarketNumbers DEF DeskInv, DeskTypeOK
<1>6. /\ UNCHANGED <<view, lists, pause, forgotten>> /\ heard' = heard
      /\ market' \in Market /\ mail' \subseteq Events /\ market'.at >= market.at
  BY <1>3, <1>5
<1>7. \A j \in Dialogs : dialogs[j].timer => dialogs'[j].timer
  BY <1>2
<1>8. \A j \in Dialogs : dialogs'[j].open => dialogs'[j].mounted /\ OffersCancel(view, lists)
  BY <1>4
<1> QED BY <1>2, <1>6, <1>7, <1>8, ListsKept

LEMMA SettledStep == ASSUME DeskAssumption, DeskInv, NEW i \in Dialogs, CancelSettled(i) PROVE DeskInv'
<1>1. /\ dialogs' = [dialogs EXCEPT ![i].call = "none", ![i].timer = TRUE,
                                    ![i].open = dialogs[i].open /\ dialogs[i].call = "refused"]
      /\ heard' \in {heard, market.at} /\ UNCHANGED <<market, mail, view, lists, pause, forgotten>>
  BY DEF CancelSettled
<1>2. /\ dialogs' \in [Dialogs -> DialogRecords] /\ dialogs'[i].timer
      /\ \A j \in Dialogs : dialogs'[j].open => dialogs[j].open /\ dialogs'[j].mounted = dialogs[j].mounted
  <2> DEFINE was == dialogs[i]
             is == [was EXCEPT !.call = "none", !.timer = TRUE, !.open = was.open /\ was.call = "refused"]
  <2>1. dialogs' = [dialogs EXCEPT ![i] = is]
    BY <1>1
  <2>2. dialogs \in [Dialogs -> DialogRecords] /\ was \in DialogRecords
    BY DEF DeskInv
  <2>3. is \in DialogRecords /\ is.timer /\ (is.open => was.open) /\ is.mounted = was.mounted
    BY <2>2 DEF DialogRecords
  <2> HIDE DEF is
  <2> QED BY <2>1, <2>2, <2>3
<1>3. DeskTypeOK'
  <2>1. \A j \in Dialogs : dialogs'[j].open => dialogs'[j].mounted /\ OffersCancel(view, lists)
    BY <1>2 DEF DeskInv, DeskTypeOK
  <2>2. OffersCancel(view, lists)' <=> OffersCancel(view, lists)
    BY <1>1 DEF OffersCancel, RowOf, RowAction, Active
  <2>3. \A j \in Dialogs : dialogs'[j].open => dialogs'[j].mounted /\ OffersCancel(view, lists)'
    BY <2>1, <2>2
  <2> QED BY <1>1, <2>3 DEF DeskInv, DeskTypeOK
<1>4. market.at \in Nat
  BY MarketNumbers DEF DeskInv, DeskTypeOK
<1>5. HeardInv'
  BY <1>1, <1>2, <1>4 DEF DeskInv, HeardInv
<1> QED BY <1>2, <1>3, <1>5 DEF DeskInv

LEMMA DeskStep == ASSUME DeskAssumption, DeskInv, [DeskNext]_desk PROVE DeskInv'
<1>1. CASE UNCHANGED desk
  <2>1. UNCHANGED <<market, mail, view, lists, pause, heard, dialogs, forgotten>>
    BY <1>1 DEF desk
  <2>2. market \in Market /\ mail \subseteq Events /\ market.at \in Nat
    BY MarketNumbers DEF DeskInv, DeskTypeOK
  <2>3. \A j \in Dialogs : dialogs[j].open => dialogs[j].mounted /\ OffersCancel(view, lists)
    BY DEF DeskInv, DeskTypeOK
  <2> QED BY <2>1, <2>2, <2>3, ListsKept DEF DeskInv
<1> QED BY <1>1, TradeOfOthers, HeardStep, ListTimerStep, ServerReadsStep, ListLandsStep, ListFailsStep,
           SwitchTabStep, OpenDialogStep, DialogSteps, SettledStep, CancelTimerStep DEF DeskNext

(* The inductive invariant of the lists of offers.                           *)
THEOREM DeskAlways == DeskSpec => []DeskInv
<1>1. DeskInit => DeskInv
  <2> SUFFICES ASSUME DeskInit PROVE DeskInv
    OBVIOUS
  <2>1. market \in Market /\ market.at = 0 /\ NewList \in OfferLists /\ Refetched(NewList, TRUE) \in OfferLists
    <3>1. 0 \in 0..MaxChanges
      BY DeskAssumption
    <3>2. market \in Market /\ market.at = 0
      BY <3>1 DEF DeskInit, Market
    <3>3. NewList \in OfferLists
      BY DEF NewList, OfferLists
    <3>4. Refetched(NewList, TRUE) \in OfferLists
      BY DEF NewList, Refetched, OfferLists
    <3> QED BY <3>2, <3>3, <3>4
  <2>2. lists \in [Lists -> OfferLists] /\ dialogs \in [Dialogs -> DialogRecords]
        /\ \A i \in Dialogs : ~ dialogs[i].open
    BY <2>1 DEF DeskInit, DialogRecords
  <2>3. DeskTypeOK
    BY <2>1, <2>2 DEF DeskInit, DeskTypeOK, OfferLists, Lists, Events
  <2>4. lists[view].fetch = Asked
    BY DEF DeskInit, Lists, Refetched, NewList
  <2>5. HeardInv
    <3>1. AsHeard(lists[view])
      BY <2>4 DEF AsHeard
    <3>2. heard \in 0..market.at
      BY <2>1 DEF DeskInit
    <3> QED BY <3>1, <3>2, Zenon DEF HeardInv
  <2> QED BY <2>2, <2>3, <2>5 DEF DeskInv
<1>2. DeskInv /\ [DeskNext]_desk => DeskInv'
  BY DeskAssumption, DeskStep
<1> QED BY <1>1, <1>2, PTL DEF DeskSpec

(* Types of the lists of offers, and a dialog only over its row.             *)
THEOREM DeskTypeCorrect == DeskSpec => []DeskTypeOK
<1>1. DeskInv => DeskTypeOK
  BY DEF DeskInv
<1> QED BY <1>1, DeskAlways, PTL

(* The list on the screen is as new as what the page heard.                  *)
THEOREM ShownAsHeard == DeskSpec => []ShownIsHeard
<1>1. DeskInv => ShownIsHeard
  <2>1. ASSUME AsHeard(lists[view]) PROVE lists[view].fetch # NoAnswer \/ lists[view].shown.at >= heard
    BY <2>1, MarketNumbers, DeskAssumption DEF AsHeard, NoAnswer, Asked
  <2> QED BY <2>1, Zenon DEF DeskInv, HeardInv, ShownIsHeard
<1> QED BY <1>1, DeskAlways, PTL

(* What an up-to-date row offers to cancel, the service cancels.             *)
THEOREM OffersTheAccepted == DeskSpec => []OffersWhatIsAccepted
<1>1. DeskInv => OffersWhatIsAccepted
  <2> SUFFICES ASSUME DeskInv, OffersCancel(view, lists), lists[view].shown = market, market.order # "DISPUTED"
               PROVE  Cancellable(market)
    BY DEF OffersWhatIsAccepted
  <2>1. market \in Market
    BY DEF DeskInv, DeskTypeOK
  <2>2. RowAction(NoAnswer) # "cancel"
    BY DEF RowAction, NoAnswer
  <2>3. RowAction(market) = "cancel"
    BY <2>2 DEF OffersCancel, RowOf
  <2>4. market.offer # "none" /\ market.order # "OPEN" /\ market.offer # "CANCELED"
    BY <2>1, <2>3 DEF RowAction, Active, Market
  <2> QED BY <2>1, <2>4 DEF Market, Cancellable
<1> QED BY <1>1, DeskAlways, PTL

-----------------------------------------------------------------------------
(* The lists of orders (TradeOrders).                                      *)

OrderRecords == [at : 0..MaxSteps, status : TradeStatuses \cup {"none"}, prev : TradeStatuses \cup {"none"}]
Reopenings == [st : {"none", "sent", "done", "refused"}, at : 0..MaxSteps]
TradeLists == [shown : OrderRecords, fetch : OrderRecords \cup {NoFetch, ReadsNow}, stale : BOOLEAN]

\* The tab shows, or is about to show, what it was told of.
AsTold ==
    \/ trades.fetch = ReadsNow
    \/ trades.fetch \in OrderRecords /\ trades.fetch.at >= told
    \/ trades.fetch = NoFetch /\ trades.shown.at >= told

ToldInv ==
    /\ trade \in OrderRecords /\ letter \in BOOLEAN /\ trades \in TradeLists
    /\ onTrades \in BOOLEAN /\ delay \in BOOLEAN /\ told \in 0..trade.at
    /\ reopening \in Reopenings /\ earlier \in Reopenings
    /\ reopening.at <= trade.at /\ earlier.at <= trade.at
    /\ ~ onTrades => told = 0 /\ ~ delay
    /\ onTrades /\ ~ delay => AsTold

\* Unless answers crossed, the only request there may be is of the offer shown.
ModalInv ==
    /\ modal \in [open : BOOLEAN, offer : 0..2, orders : 0..2, isLoading : BOOLEAN]
    /\ asks \in [under : [TwoOffers -> 0..MaxReads], crossed : BOOLEAN]
    /\ ~ asks.crossed => /\ \A o \in TwoOffers : asks.under[o] > 0 => o = modal.offer
                         /\ modal.open /\ ~ modal.isLoading => modal.orders = modal.offer

LEMMA RecordsApart == TradeAssumption => \A o \in OrderRecords : o # NoFetch /\ o # ReadsNow /\ o.at \in Nat
BY DEF OrderRecords, NoFetch, ReadsNow, TradeStatuses

\* The server's order goes on, and nothing the tab was told changes.
LEMMA OrderMoves ==
    ASSUME TradeAssumption, ToldInv, trade' \in OrderRecords, trade'.at >= trade.at, letter' \in BOOLEAN,
           UNCHANGED <<trades, onTrades, delay, told>>, reopening' \in Reopenings, earlier' \in Reopenings,
           reopening'.at <= trade'.at, earlier'.at <= trade'.at
    PROVE  ToldInv'
<1>1. trade.at \in Nat /\ trade'.at \in Nat
  BY RecordsApart DEF ToldInv
<1>2. told' \in 0..trade'.at
  BY <1>1 DEF ToldInv
<1>3. AsTold' <=> AsTold
  BY DEF AsTold
<1> QED BY <1>2, <1>3 DEF ToldInv

LEMMA GoesToStep ==
    ASSUME TradeAssumption, ToldInv, NEW s \in TradeStatuses \cup {"none"}, NEW p \in TradeStatuses \cup {"none"}, GoesTo(s, p)
    PROVE  trade' \in OrderRecords /\ trade'.at = trade.at + 1 /\ trade'.at >= trade.at
<1>1. trade.at \in 0..MaxSteps /\ trade.at < MaxSteps /\ trade' = [at |-> trade.at + 1, status |-> s, prev |-> p]
  BY DEF ToldInv, OrderRecords, GoesTo
<1>2. trade.at + 1 \in 0..MaxSteps
  BY <1>1 DEF TradeAssumption
<1> QED BY <1>1, <1>2 DEF OrderRecords

LEMMA OrderGoesOnStep == ASSUME TradeAssumption, ToldInv, OrderGoesOn PROVE ToldInv'
<1>1. trade.status \in TradeStatuses \cup {"none"} /\ trade.prev \in TradeStatuses \cup {"none"}
  BY DEF ToldInv, OrderRecords
<1>2. PICK s \in TradeStatuses \cup {"none"}, p \in TradeStatuses \cup {"none"} : GoesTo(s, p)
  BY <1>1 DEF OrderGoesOn, TradeStatuses
<1>3. trade' \in OrderRecords /\ trade'.at = trade.at + 1 /\ trade'.at >= trade.at
  BY <1>2, GoesToStep
<1>4. letter' \in BOOLEAN /\ UNCHANGED <<trades, onTrades, delay, told, reopening, earlier>>
  BY DEF OrderGoesOn, ToldInv
<1>5. trade.at \in Nat /\ reopening.at \in Nat /\ earlier.at \in Nat /\ trade'.at \in Nat
  BY <1>3, RecordsApart DEF ToldInv, Reopenings
<1>6. reopening' \in Reopenings /\ earlier' \in Reopenings /\ reopening'.at <= trade'.at /\ earlier'.at <= trade'.at
  BY <1>3, <1>4, <1>5 DEF ToldInv
<1> QED BY <1>3, <1>4, <1>6, OrderMoves

LEMMA ServerReopensStep == ASSUME TradeAssumption, ToldInv, ServerReopens PROVE ToldInv'
<1>1. trade.prev \in TradeStatuses \cup {"none"} /\ trade \in OrderRecords
  BY DEF ToldInv, OrderRecords
<1>2. \A call : Served(call) => /\ trade' \in OrderRecords /\ trade'.at >= trade.at
                               /\ call \in Reopenings /\ call.at <= trade'.at
  <2> SUFFICES ASSUME NEW call, Served(call)
               PROVE  /\ trade' \in OrderRecords /\ trade'.at >= trade.at
                      /\ call \in Reopenings /\ call.at <= trade'.at
    OBVIOUS
  <2>1. CASE GoesTo(trade.prev, trade.prev) /\ call = [st |-> "done", at |-> trade'.at]
    <3>1. trade' \in OrderRecords /\ trade'.at >= trade.at
      BY <1>1, <2>1, GoesToStep
    <3>2. trade'.at \in 0..MaxSteps
      BY <3>1 DEF OrderRecords
    <3> QED BY <2>1, <3>1, <3>2 DEF Reopenings, TradeAssumption
  <2>2. CASE call = [st |-> "refused", at |-> 0] /\ UNCHANGED trade
    <3>1. trade.at \in 0..MaxSteps
      BY <1>1 DEF OrderRecords
    <3> QED BY <1>1, <2>2, <3>1 DEF Reopenings, TradeAssumption
  <2> QED BY <2>1, <2>2 DEF Served
<1>3. UNCHANGED <<letter, trades, onTrades, delay, told>>
  BY DEF ServerReopens
<1>4. trade.at \in Nat /\ reopening.at \in Nat /\ earlier.at \in Nat
  BY RecordsApart DEF ToldInv, Reopenings
<1>5. /\ trade' \in OrderRecords /\ trade'.at >= trade.at
      /\ reopening' \in Reopenings /\ earlier' \in Reopenings /\ reopening'.at <= trade'.at /\ earlier'.at <= trade'.at
  <2>1. CASE Served(reopening') /\ UNCHANGED earlier
    <3>1. trade' \in OrderRecords /\ trade'.at >= trade.at /\ reopening' \in Reopenings /\ reopening'.at <= trade'.at
      BY <1>2, <2>1
    <3> QED BY <1>4, <2>1, <3>1, RecordsApart DEF ToldInv
  <2>2. CASE Served(earlier') /\ UNCHANGED reopening
    <3>1. trade' \in OrderRecords /\ trade'.at >= trade.at /\ earlier' \in Reopenings /\ earlier'.at <= trade'.at
      BY <1>2, <2>2
    <3> QED BY <1>4, <2>2, <3>1, RecordsApart DEF ToldInv
  <2> QED BY <2>1, <2>2 DEF ServerReopens
<1> QED BY <1>3, <1>5, OrderMoves DEF ToldInv

\* invalidateQueries of the user's trades.
LEMMA AskedAgain == ASSUME ToldInv PROVE TradesAsked \in TradeLists /\ (onTrades => TradesAsked.fetch = ReadsNow)
BY DEF ToldInv, TradesAsked, TradeLists

\* The list, the tab and what it was told change; the order does not.
LEMMA ListMoves ==
    ASSUME TradeAssumption, ToldInv, UNCHANGED trade, letter' \in BOOLEAN, trades' \in TradeLists, onTrades' \in BOOLEAN,
           delay' \in BOOLEAN, told' \in 0..trade.at, ~ onTrades' => told' = 0 /\ ~ delay',
           onTrades' /\ ~ delay' => AsTold',
           {reopening', earlier'} \subseteq {reopening, earlier, NoReopening, [st |-> "sent", at |-> 0]}
    PROVE  ToldInv'
<1>1. trade.at \in 0..MaxSteps
  BY DEF ToldInv, OrderRecords
<1>2. NoReopening \in Reopenings /\ NoReopening.at <= trade.at
  BY <1>1 DEF TradeAssumption, NoReopening, Reopenings
<1>3. LET sent == [st |-> "sent", at |-> 0] IN sent \in Reopenings /\ sent.at <= trade.at
  BY <1>1 DEF TradeAssumption, Reopenings
<1>4. /\ reopening' \in Reopenings /\ reopening'.at <= trade.at
      /\ earlier' \in Reopenings /\ earlier'.at <= trade.at
  BY <1>2, <1>3 DEF ToldInv
<1> QED BY <1>4 DEF ToldInv

LEMMA SettledList ==
    ASSUME TradeAssumption, ToldInv, NEW call \in {reopening, earlier}, OnSettled(call),
           UNCHANGED <<trade, letter, onTrades, delay>>,
           {reopening', earlier'} \subseteq {reopening, earlier, NoReopening}
    PROVE  ToldInv'
<1>1. call \in Reopenings /\ call.at <= trade.at /\ call.at \in Nat /\ trade.at \in Nat
  BY RecordsApart DEF ToldInv, Reopenings
<1>2. CASE call.st = "done"
  <2>1. /\ trades' = TradesAsked
        /\ told' = IF onTrades /\ call.at > told THEN call.at ELSE told
    BY <1>2 DEF OnSettled
  <2>2. trades' \in TradeLists /\ (onTrades => trades'.fetch = ReadsNow)
    BY <2>1, AskedAgain
  <2>3. told' \in 0..trade.at /\ (~ onTrades => told' = 0)
    BY <1>1, <2>1 DEF ToldInv
  <2> QED BY <2>2, <2>3, ListMoves DEF ToldInv, AsTold
<1>3. CASE call.st # "done"
  <2>1. trades' = trades /\ told' = told
    BY <1>3 DEF OnSettled
  <2> QED BY <2>1, ListMoves DEF ToldInv, AsTold
<1> QED BY <1>2, <1>3

LEMMA TradesStep == ASSUME TradeAssumption, ToldInv, [TradesNext]_tradeVars PROVE ToldInv'
<1>1. trade.at \in Nat
  BY RecordsApart DEF ToldInv
<1>2. CASE HandleOrderRefresh
  <2>1. /\ letter' = FALSE /\ UNCHANGED <<trade, trades, onTrades, reopening, earlier>>
        /\ IF onTrades THEN delay' = TRUE /\ told' = trade.at ELSE UNCHANGED <<delay, told>>
    BY <1>2 DEF HandleOrderRefresh
  <2>2. CASE onTrades
    <3>1. told' \in 0..trade.at
      BY <1>1, <2>1, <2>2
    <3>2. delay' = TRUE /\ delay' \in BOOLEAN /\ letter' \in BOOLEAN
      BY <2>1, <2>2, Zenon
    <3> QED BY <2>1, <2>2, <3>1, <3>2, ListMoves DEF ToldInv
  <2>3. CASE ~ onTrades
    BY <2>1, <2>3, ListMoves DEF ToldInv
  <2> QED BY <2>2, <2>3
<1>3. CASE TradesTimer
  <2>1. /\ trades' = TradesAsked /\ delay' = FALSE
        /\ UNCHANGED <<trade, letter, onTrades, told, reopening, earlier>>
    BY <1>3 DEF TradesTimer
  <2>2. trades' \in TradeLists /\ (onTrades => trades'.fetch = ReadsNow)
    BY <2>1, AskedAgain
  <2> QED BY <2>1, <2>2, ListMoves DEF ToldInv, AsTold
<1>4. CASE GetMyOrders
  <2>1. /\ trades.fetch = ReadsNow /\ trades' = [trades EXCEPT !.fetch = trade]
        /\ UNCHANGED <<trade, letter, onTrades, delay, told, reopening, earlier>>
    BY <1>4 DEF GetMyOrders
  <2>2. trades' \in TradeLists /\ trades'.fetch = trade
    BY <2>1 DEF ToldInv, TradeLists
  <2>3. AsTold'
    BY <1>1, <2>1, <2>2 DEF ToldInv, AsTold
  <2> QED BY <2>1, <2>2, <2>3, ListMoves DEF ToldInv
<1>5. CASE TradesLand
  <2>1. /\ trades.fetch \notin {NoFetch, ReadsNow}
        /\ trades' = [shown |-> trades.fetch, fetch |-> NoFetch, stale |-> FALSE]
        /\ UNCHANGED <<trade, letter, onTrades, delay, told, reopening, earlier>>
    BY <1>5 DEF TradesLand
  <2>2. trades' \in TradeLists /\ trades'.fetch = NoFetch /\ trades'.shown = trades.fetch
    BY <2>1 DEF ToldInv, TradeLists
  <2>3. AsTold => AsTold'
    BY <2>1, <2>2 DEF AsTold
  <2> QED BY <2>1, <2>2, <2>3, ListMoves DEF ToldInv
<1>6. CASE TradesFail
  <2>1. /\ trades' = [trades EXCEPT !.fetch = NoFetch] /\ told' = 0
        /\ UNCHANGED <<trade, letter, onTrades, delay, reopening, earlier>>
    BY <1>6 DEF TradesFail
  <2>2. trades' \in TradeLists /\ trades'.fetch = NoFetch
    BY <2>1 DEF ToldInv, TradeLists
  <2>3. trades'.shown.at \in Nat
    BY <2>2, RecordsApart DEF TradeLists
  <2>4. AsTold'
    BY <2>1, <2>2, <2>3 DEF AsTold
  <2>5. told' \in 0..trade.at
    BY <1>1, <2>1
  <2> QED BY <2>1, <2>2, <2>4, <2>5, ListMoves DEF ToldInv
<1>7. CASE ReopenOrder
  BY <1>7, ListMoves DEF ReopenOrder, ToldInv, AsTold
<1>8. CASE ReopenSettled
  <2>1. UNCHANGED <<trade, letter, onTrades, delay>>
    BY <1>8 DEF ReopenSettled
  <2>2. CASE OnSettled(reopening) /\ reopening' = NoReopening /\ UNCHANGED earlier
    BY <2>1, <2>2, SettledList
  <2>3. CASE OnSettled(earlier) /\ earlier' = NoReopening /\ UNCHANGED reopening
    BY <2>1, <2>3, SettledList
  <2> QED BY <1>8, <2>2, <2>3 DEF ReopenSettled
<1>9. CASE LeaveTrades
  <2>1. /\ onTrades' = FALSE /\ delay' = FALSE /\ told' = 0 /\ UNCHANGED <<trade, letter, trades>>
        /\ {reopening', earlier'} \subseteq {reopening, earlier, NoReopening}
    BY <1>9 DEF LeaveTrades
  <2>2. told' \in 0..trade.at
    BY <1>1, <2>1
  <2> QED BY <2>1, <2>2, ListMoves DEF ToldInv
<1>10. CASE EnterTrades
  <2>1. /\ ~ onTrades /\ onTrades' = TRUE /\ UNCHANGED <<trade, letter, delay, told, reopening, earlier>>
        /\ trades' \in {trades, [trades EXCEPT !.fetch = ReadsNow, !.stale = FALSE]}
    BY <1>10 DEF EnterTrades
  <2>2. trades' \in TradeLists
    BY <2>1 DEF ToldInv, TradeLists
  <2>3. told' = 0
    BY <2>1 DEF ToldInv
  <2>4. trades'.shown.at \in Nat /\ (trades'.fetch \in OrderRecords => trades'.fetch.at \in Nat)
    BY <2>2, RecordsApart DEF TradeLists
  <2>5. AsTold'
    BY <2>2, <2>3, <2>4 DEF AsTold, TradeLists
  <2> QED BY <2>1, <2>2, <2>5, ListMoves DEF ToldInv
<1>11. ASSUME NEW o \in TwoOffers, OpenOrders(o) \/ OrdersAnswered(o) PROVE ToldInv'
  <2>1. UNCHANGED <<trade, letter, trades, onTrades, delay, told, reopening, earlier>>
    BY <1>11 DEF OpenOrders, OrdersAnswered
  <2> QED BY <2>1, ListMoves DEF ToldInv, AsTold
<1>12. CASE CloseOrders \/ UNCHANGED tradeVars
  BY <1>12, ListMoves DEF CloseOrders, tradeVars, ToldInv, AsTold
<1> QED BY <1>2, <1>3, <1>4, <1>5, <1>6, <1>7, <1>8, <1>9, <1>10, <1>11, <1>12, OrderGoesOnStep, ServerReopensStep
        DEF TradesNext

LEMMA ModalStep == ASSUME TradeAssumption, ModalInv, [TradesNext]_tradeVars PROVE ModalInv'
<1>1. CASE EnterTrades
  <2>1. modal' = NoModal /\ asks' = NothingRead
    BY <1>1 DEF EnterTrades
  <2> QED BY <2>1 DEF ModalInv, NoModal, NothingRead, TradeAssumption
<1>2. ASSUME NEW o \in TwoOffers, OpenOrders(o) PROVE ModalInv'
  <2>1. /\ asks.under[o] < MaxReads /\ modal' = [modal EXCEPT !.open = TRUE, !.offer = o, !.isLoading = TRUE]
        /\ asks' = [under |-> [asks.under EXCEPT ![o] = @ + 1], crossed |-> \E p \in TwoOffers : asks.under[p] > 0]
    BY <1>2 DEF OpenOrders, ShowsLoading
  <2>2. asks.under \in [TwoOffers -> 0..MaxReads] /\ asks.under[o] + 1 \in 0..MaxReads
    BY <2>1 DEF ModalInv, TradeAssumption
  <2>3. /\ modal' \in [open : BOOLEAN, offer : 0..2, orders : 0..2, isLoading : BOOLEAN]
        /\ modal'.isLoading /\ modal'.offer = o
    <3>1. o \in 0..2
      BY DEF TwoOffers
    <3> QED BY <2>1, <3>1 DEF ModalInv
  <2> DEFINE under == [asks.under EXCEPT ![o] = @ + 1]
             twice == \E p \in TwoOffers : asks.under[p] > 0
  <2>4. /\ under \in [TwoOffers -> 0..MaxReads]
        /\ ~ twice => \A p \in TwoOffers : under[p] > 0 => p = o
    BY <2>2
  <2>5. asks' = [under |-> under, crossed |-> twice] /\ twice \in BOOLEAN
    BY <2>1, Zenon
  <2> HIDE DEF under, twice
  <2>6. asks' \in [under : [TwoOffers -> 0..MaxReads], crossed : BOOLEAN] /\ asks'.under = under /\ asks'.crossed = twice
    BY <2>4, <2>5
  <2> QED BY <2>3, <2>4, <2>6 DEF ModalInv
<1>3. ASSUME NEW o \in TwoOffers, OrdersAnswered(o) PROVE ModalInv'
  <2>1. PICK ok \in BOOLEAN :
          /\ asks.under[o] > 0
          /\ modal' = [modal EXCEPT !.orders = IF ok THEN o ELSE @, !.isLoading = FALSE]
          /\ asks' = [under |-> [asks.under EXCEPT ![o] = @ - 1],
                      crossed |-> IF ok THEN asks.crossed ELSE TRUE]
    BY <1>3 DEF OrdersAnswered
  <2>2. asks.under \in [TwoOffers -> 0..MaxReads] /\ asks.under[o] - 1 \in 0..MaxReads
    BY <2>1 DEF ModalInv, TradeAssumption
  <2>3. /\ modal' \in [open : BOOLEAN, offer : 0..2, orders : 0..2, isLoading : BOOLEAN]
        /\ modal'.offer = modal.offer /\ modal'.orders = (IF ok THEN o ELSE modal.orders)
    <3>1. o \in 0..2
      BY DEF TwoOffers
    <3>2. modal \in [open : BOOLEAN, offer : 0..2, orders : 0..2, isLoading : BOOLEAN]
      BY DEF ModalInv
    <3>3. CASE ok
      BY <2>1, <3>1, <3>2, <3>3
    <3>4. CASE ~ ok
      BY <2>1, <3>2, <3>4
    <3> QED BY <3>3, <3>4
  <2> DEFINE under == [asks.under EXCEPT ![o] = @ - 1]
  <2>4. /\ under \in [TwoOffers -> 0..MaxReads] /\ \A p \in TwoOffers : under[p] > 0 => asks.under[p] > 0
    BY <2>2
  <2> HIDE DEF under
  <2>5. asks' = [under |-> under, crossed |-> IF ok THEN asks.crossed ELSE TRUE]
    BY <2>1 DEF under
  <2>6. /\ asks' \in [under : [TwoOffers -> 0..MaxReads], crossed : BOOLEAN] /\ asks'.under = under
        /\ ~ asks'.crossed => ok /\ ~ asks.crossed
    BY <2>4, <2>5 DEF ModalInv
  <2> QED BY <2>1, <2>3, <2>4, <2>6 DEF ModalInv
<1>4. CASE CloseOrders
  <2>1. modal' = [modal EXCEPT !.open = FALSE] /\ UNCHANGED asks
    BY <1>4 DEF CloseOrders
  <2>2. /\ modal' \in [open : BOOLEAN, offer : 0..2, orders : 0..2, isLoading : BOOLEAN]
        /\ ~ modal'.open /\ modal'.offer = modal.offer
    BY <2>1 DEF ModalInv
  <2> QED BY <2>1, <2>2 DEF ModalInv
<1>5. CASE UNCHANGED <<modal, asks>>
  BY <1>5 DEF ModalInv
<1>6. ASSUME [TradesNext]_tradeVars, ~ EnterTrades, ~ CloseOrders, ~ \E o \in TwoOffers : OpenOrders(o) \/ OrdersAnswered(o)
      PROVE  UNCHANGED <<modal, asks>>
  BY <1>6 DEF TradesNext, tradeVars, OrderGoesOn, HandleOrderRefresh, TradesTimer, GetMyOrders, TradesLand, TradesFail,
              ReopenOrder, ServerReopens, ReopenSettled, LeaveTrades
<1> QED BY <1>1, <1>2, <1>3, <1>4, <1>5, <1>6

(* The inductive invariants of the user's trades and of the dialog.          *)
THEOREM TradesAlways == TradesSpec => [](ToldInv /\ ModalInv)
<1>1. TradesInit => ToldInv
  <2> SUFFICES ASSUME TradesInit PROVE ToldInv
    OBVIOUS
  <2>1. NoTrade \in OrderRecords /\ NoReopening \in Reopenings
    BY TradeAssumption DEF TradeAssumption, NoTrade, NoReopening, OrderRecords, Reopenings
  <2>2. trades \in TradeLists /\ trades.fetch = ReadsNow
    BY <2>1 DEF TradesInit, TradeLists
  <2>3. told \in 0..trade.at /\ reopening.at <= trade.at /\ earlier.at <= trade.at
    BY DEF TradesInit, NoTrade, NoReopening
  <2> QED BY <2>1, <2>2, <2>3 DEF TradesInit, ToldInv, AsTold
<1>2. TradesInit => ModalInv
  BY TradeAssumption DEF TradeAssumption, TradesInit, ModalInv, NoModal, NothingRead
<1>3. ToldInv /\ ModalInv /\ [TradesNext]_tradeVars => (ToldInv /\ ModalInv)'
  BY TradeAssumption, TradesStep, ModalStep
<1> QED BY <1>1, <1>2, <1>3, PTL DEF TradesSpec

(* Types of the lists of orders.                                             *)
THEOREM TradesTypeCorrect == TradesSpec => []TradesTypeOK
<1>1. ToldInv /\ ModalInv => TradesTypeOK
  <2> SUFFICES ASSUME ToldInv, ModalInv PROVE TradesTypeOK
    OBVIOUS
  <2> DEFINE orders == [at : 0..MaxSteps, status : TradeStatuses \union {"none", "idle", "asked"},
                        prev : TradeStatuses \union {"none"}]
  <2>1. OrderRecords \subseteq orders /\ NoFetch \in orders /\ ReadsNow \in orders
    BY TradeAssumption DEF TradeAssumption, OrderRecords, NoFetch, ReadsNow
  <2>2. told \in 0..MaxSteps
    BY TradeAssumption DEF TradeAssumption, ToldInv, OrderRecords
  <2>3. trades \in [shown : orders, fetch : orders, stale : BOOLEAN]
    BY <2>1 DEF ToldInv, TradeLists
  <2> QED BY <2>1, <2>2, <2>3 DEF ToldInv, ModalInv, TradesTypeOK, Reopenings
<1> QED BY <1>1, TradesAlways, PTL

(* The tab shows the order as new as it has heard.                           *)
THEOREM TradesAlwaysHeard == TradesSpec => []TradesAreHeard
<1>1. ToldInv => TradesAreHeard
  <2> SUFFICES ASSUME ToldInv, onTrades, ~ delay, trades.fetch = NoFetch PROVE trades.shown.at >= told
    BY DEF TradesAreHeard
  <2>1. NoFetch # ReadsNow /\ NoFetch \notin OrderRecords
    BY TradeAssumption, RecordsApart DEF NoFetch, ReadsNow
  <2> QED BY <2>1 DEF ToldInv, AsTold
<1> QED BY <1>1, TradesAlways, PTL

(* The dialog shows the orders of its own offer.                             *)
THEOREM OrdersAlwaysOfTheOffer == TradesSpec => []OrdersOfTheOffer
<1>1. ModalInv => OrdersOfTheOffer
  BY DEF ModalInv, OrdersOfTheOffer
<1> QED BY <1>1, TradesAlways, PTL

-----------------------------------------------------------------------------
(* The form of a lucky money session (EnvelopeForm), for any balance, limits*)
(* and number of submissions.                                              *)

FormStatuses == {"none", "PENDING", "PUBLISHED", "FAILED"}

(* Envelopes are created in order, so that one is the newest.              *)
Ordered == \A d, e \in Ids : d < e /\ sessions[e] # "none" => sessions[d] # "none"
IsNewest(n) == /\ n \in Ids \cup {0} /\ (n > 0 => sessions[n] # "none")
               /\ \A d \in Ids : d > n => sessions[d] = "none"

SessionsInv ==
    /\ sessions \in [Ids -> FormStatuses] /\ Ordered
    /\ \A e \in deposits : sessions[e] # "none"
    /\ \A e \in notices : sessions[e] \in {"PUBLISHED", "FAILED"}

(* What the button's sequence relies on in each of its phases.             *)
PhaseInv ==
    /\ phase = "creating" => \E e \in Ids : sessions[e] = "none"
    /\ phase \in {"paying", "marking"} => Newest \in Ids /\ IsNewest(Newest)
    /\ phase = "waiting" => awaited \in deposits /\ shownQr = awaited
    /\ phase = "waiting" \/ timeoutId => timer \/ lapsed
    /\ awaited # 0 => phase = "waiting"

FormInv == FormTypeOK /\ SessionsInv /\ PhaseInv /\ ConfirmedIsAccepted /\ SharedIsDecided

-----------------------------------------------------------------------------
(* The newest envelope is determined, and there is one while an id is left. *)

LEMMA NewestIs ==
    ASSUME FormAssumption, NEW n, IsNewest(n) PROVE Newest = n
<1> DEFINE Q(e) == (e > 0 => sessions[e] # "none") /\ \A d \in Ids : d > e => sessions[d] = "none"
<1>1. Newest = CHOOSE e \in Ids \cup {0} : Q(e)
  BY DEF Newest
<1>2. n \in Ids \cup {0} /\ Q(n)
  BY DEF IsNewest
<1> DEFINE m == CHOOSE e \in Ids \cup {0} : Q(e)
<1>3. m \in Ids \cup {0} /\ Q(m)
  BY <1>2
<1> HIDE DEF m
<1>4. m \in Nat /\ n \in Nat
  BY <1>2, <1>3 DEF Ids, FormAssumption
<1>5. m = n
  BY <1>2, <1>3, <1>4 DEF Ids
<1> QED BY <1>1, <1>5 DEF m

LEMMA NewestExists ==
    ASSUME FormAssumption, sessions \in [Ids -> FormStatuses], Ordered,
           NEW e0 \in Ids, sessions[e0] = "none"
    PROVE  /\ IsNewest(Newest) /\ Newest + 1 \in Ids /\ Newest \in Nat
           /\ sessions[Newest + 1] = "none"
<1> DEFINE T == {e \in Ids : sessions[e] = "none"}
           R == OpToRel(<, Nat)
<1>1. Ids \subseteq Nat /\ MaxEnvelopes \in Nat
  BY DEF Ids, FormAssumption
<1>2. PICK x \in T : \A y \in T : <<y, x>> \notin R
  <2>1. T \subseteq Nat /\ T # {}
    BY <1>1
  <2> HIDE DEF T, R
  <2>2. IsWellFoundedOn(R, Nat)
    BY NatLessThanWellFounded DEF R
  <2> QED BY <2>1, <2>2, WFMin, Zenon
<1>3. x \in Ids /\ sessions[x] = "none" /\ \A y \in T : ~ (y < x)
  BY <1>1, <1>2 DEF OpToRel
<1>4. x - 1 \in Ids \cup {0} /\ x - 1 \in Nat
  BY <1>1, <1>3 DEF Ids
<1>5. x - 1 > 0 => sessions[x - 1] # "none"
  BY <1>1, <1>3, <1>4
<1>6. ASSUME NEW d \in Ids, d > x - 1 PROVE sessions[d] = "none"
  BY <1>1, <1>3, <1>6 DEF Ordered
<1>7. IsNewest(x - 1)
  BY <1>4, <1>5, <1>6 DEF IsNewest
<1>8. Newest = x - 1
  BY <1>7, NewestIs
<1> QED BY <1>1, <1>3, <1>4, <1>7, <1>8

(* What is stored stays stored: the newest envelope changes only when one is added. *)
LEMMA NewestKept ==
    ASSUME FormAssumption, IsNewest(Newest), 
           \A e \in Ids : sessions'[e] = "none" <=> sessions[e] = "none"
    PROVE  Newest' = Newest /\ IsNewest(Newest)'
<1> DEFINE Q(e) == (e > 0 => sessions[e] # "none") /\ \A d \in Ids : d > e => sessions[d] = "none"
           P(e) == (e > 0 => sessions'[e] # "none") /\ \A d \in Ids : d > e => sessions'[d] = "none"
<1>1. \A e \in Ids \cup {0} : Q(e) <=> P(e)
  BY DEF Ids
<1>2. Newest' = Newest
  BY <1>1 DEF Newest
<1> QED BY <1>1, <1>2 DEF IsNewest

(* After one is added, it is the newest.                                   *)
LEMMA NewestNext ==
    ASSUME FormAssumption, NEW n \in Ids, \A e \in Ids : sessions'[e] # "none" <=> e <= n
    PROVE  Newest' = n /\ Newest' \in Ids /\ IsNewest(Newest)'
<1> DEFINE P(e) == (e > 0 => sessions'[e] # "none") /\ \A d \in Ids : d > e => sessions'[d] = "none"
           m == CHOOSE e \in Ids \cup {0} : P(e)
<1>1. Newest' = m
  BY DEF Newest
<1>2. n \in Ids \cup {0} /\ n \in Nat /\ \A d \in Ids : d \in Nat
  BY DEF Ids, FormAssumption
<1>3. P(n)
  BY <1>2
<1>4. m \in Ids \cup {0} /\ P(m)
  BY <1>2, <1>3
<1> HIDE DEF m
<1>5. m = n
  BY <1>2, <1>3, <1>4
<1> QED BY <1>1, <1>2, <1>3, <1>5 DEF IsNewest

-----------------------------------------------------------------------------
(* The form: only fields, messages and the balance change.                 *)

LEMMA FaultsType ==
    ASSUME NEW f
    PROVE  /\ Mounted(f) \subseteq Amounts4 /\ Amounts4 \ Mounted(f) \subseteq {"min", "max"}
           /\ \A a, M : FaultsOf(f, a, M) \subseteq M
           /\ \A a : Faults(f, a) \subseteq Amounts4
<1>1. Mounted(f) \subseteq Amounts4 /\ Amounts4 \ Mounted(f) \subseteq {"min", "max"}
  BY DEF Mounted
<1>2. \A a, M : FaultsOf(f, a, M) \subseteq M
  BY DEF FaultsOf
<1> QED BY <1>1, <1>2, Zenon DEF Faults

(* A form without faults is one the service accepts, and within the balance. *)
LEMMA FaultlessIsAccepted ==
    ASSUME FormAssumption, FormTypeOK, Faults(fields, funds) = {}
    PROVE  Accepts(fields) /\ fields.total <= UserBalance
<1>1. /\ ~ TotalFault(fields, funds) /\ ~ CountFault(fields)
      /\ fields.random => ~ MinFault(fields) /\ ~ MaxFault(fields)
  BY DEF Faults, FaultsOf, Mounted, Amounts4
<1>2. /\ fields.total \in Nat /\ fields.count \in Nat /\ fields.min \in Nat /\ fields.max \in Nat
      /\ fields.random \in BOOLEAN /\ funds \in {0, UserBalance} /\ UserBalance \in Nat /\ MaxCount \in Nat
  BY DEF FormTypeOK, FormAssumption
<1>3. fields.min * fields.count \in Nat /\ fields.max * fields.count \in Nat
  BY <1>2
<1>4. fields.total >= 1 /\ fields.total <= funds /\ fields.count >= 1 /\ fields.count <= MaxCount
  BY <1>1, <1>2 DEF TotalFault, CountFault
<1>5. fields.total >= fields.count
  BY <1>1, <1>2, <1>4 DEF CountFault
<1>6. ASSUME fields.random
      PROVE  fields.min <= fields.max /\ fields.min * fields.count <= fields.total
             /\ fields.total <= fields.max * fields.count
  <2>1. fields.min >= 1 /\ fields.max >= 1
    BY <1>1, <1>2, <1>6 DEF MinFault, MaxFault
  <2>2. fields.min <= fields.max
    BY <1>1, <1>2, <1>6, <2>1 DEF MinFault
  <2>3. ~ (fields.total < fields.min * fields.count) /\ ~ (fields.total > fields.max * fields.count)
    BY <1>1, <1>2, <1>4, <1>6, <2>1 DEF MinFault, MaxFault
  <2> QED BY <1>2, <1>3, <2>2, <2>3
<1> QED BY <1>2, <1>4, <1>5, <1>6 DEF Accepts

LEMMA FieldUpdates ==
    ASSUME NEW T, NEW N, NEW W, NEW r \in [total : T, count : N, min : W, max : W, random : BOOLEAN]
    PROVE  /\ \A v \in T : [r EXCEPT !.total = v] \in [total : T, count : N, min : W, max : W, random : BOOLEAN]
           /\ \A v \in N : [r EXCEPT !.count = v] \in [total : T, count : N, min : W, max : W, random : BOOLEAN]
           /\ \A v \in W : [r EXCEPT !.min = v] \in [total : T, count : N, min : W, max : W, random : BOOLEAN]
           /\ \A v \in W : [r EXCEPT !.max = v] \in [total : T, count : N, min : W, max : W, random : BOOLEAN]
OBVIOUS

LEMMA TypedField ==
    ASSUME FormTypeOK, NEW x \in Amounts4, TypeField(x)
    PROVE  /\ fields' \in [total : 0..TopTotal, count : 0..TopCount, min : 0..TopShare,
                           max : 0..TopShare, random : BOOLEAN]
           /\ faults' \subseteq Amounts4 /\ unchecked' \subseteq {"min", "max"}
           /\ phase # "confirm" /\ UNCHANGED <<funds, flow, back>>
<1>1. PICK v \in Typeable(x) : fields' = [fields EXCEPT ![x] = v]
  BY DEF TypeField
<1>2. fields' \in [total : 0..TopTotal, count : 0..TopCount, min : 0..TopShare,
                   max : 0..TopShare, random : BOOLEAN]
  <2> DEFINE T == 0..TopTotal
             N == 0..TopCount
             W == 0..TopShare
             Filled == fields' \in [total : T, count : N, min : W, max : W, random : BOOLEAN]
  <2>1. /\ fields \in [total : T, count : N, min : W, max : W, random : BOOLEAN]
        /\ x = "total" => v \in T
        /\ x = "count" => v \in N
        /\ x \in {"min", "max"} => v \in W
    BY <1>1 DEF FormTypeOK, Typeable, Amounts4
  <2> HIDE DEF T, N, W
  <2>2. ASSUME x = "total" PROVE Filled
    <3>1. fields' = [fields EXCEPT !.total = v]
      BY <1>1, <2>2, Zenon
    <3>2. v \in T
      BY <2>1, <2>2
    <3> QED BY <2>1, <3>1, <3>2, FieldUpdates, Zenon
  <2>3. ASSUME x = "count" PROVE Filled
    <3>1. fields' = [fields EXCEPT !.count = v]
      BY <1>1, <2>3, Zenon
    <3>2. v \in N
      BY <2>1, <2>3
    <3> QED BY <2>1, <3>1, <3>2, FieldUpdates, Zenon
  <2>4. ASSUME x = "min" PROVE Filled
    <3>1. fields' = [fields EXCEPT !.min = v]
      BY <1>1, <2>4, Zenon
    <3>2. v \in W
      BY <2>1, <2>4
    <3> QED BY <2>1, <3>1, <3>2, FieldUpdates, Zenon
  <2>5. ASSUME x = "max" PROVE Filled
    <3>1. fields' = [fields EXCEPT !.max = v]
      BY <1>1, <2>5, Zenon
    <3>2. v \in W
      BY <2>1, <2>5
    <3> QED BY <2>1, <3>1, <3>2, FieldUpdates, Zenon
  <2>6. Filled
    <3>1. x = "total" \/ x = "count" \/ x = "min" \/ x = "max"
      BY DEF Amounts4
    <3> QED BY <3>1, <2>2, <2>3, <2>4, <2>5, Zenon
  <2> QED BY <2>6 DEF T, N, W
<1>3. PICK C : /\ faults' = (faults \ C) \cup (Faults(fields', funds) \cap C)
               /\ unchecked' = unchecked \ C
  BY DEF TypeField
<1>4. faults' \subseteq Amounts4 /\ unchecked' \subseteq {"min", "max"}
  BY <1>3, FaultsType DEF FormTypeOK
<1> QED BY <1>2, <1>4 DEF TypeField

(* The sequence has not moved: everything about it holds as before.         *)
LEMMA FormMoves ==
    ASSUME FormInv, UNCHANGED <<flow, back>>, phase # "confirm",
           fields' \in [total : 0..TopTotal, count : 0..TopCount, min : 0..TopShare,
                        max : 0..TopShare, random : BOOLEAN],
           faults' \subseteq Amounts4, unchecked' \subseteq {"min", "max"}, funds' \in {0, UserBalance}
    PROVE  FormInv'
<1>1. Newest' = Newest
  BY DEF Newest, back
<1>2. FormTypeOK' /\ ConfirmedIsAccepted' /\ SharedIsDecided'
  BY DEF FormInv, FormTypeOK, ConfirmedIsAccepted, SharedIsDecided, flow, clock, back
<1>3. SessionsInv' /\ PhaseInv'
  BY <1>1 DEF FormInv, SessionsInv, PhaseInv, Ordered, IsNewest, flow, clock, back
<1> QED BY <1>2, <1>3 DEF FormInv

-----------------------------------------------------------------------------
(* The button's sequence, one lemma for each of its steps.                  *)

LEMMA InitiateStep == ASSUME FormAssumption, FormInv, InitiateCreation PROVE FormInv'
<1>1. /\ faults' = Faults(fields, funds) /\ unchecked' = {} /\ ~ isSuccess /\ phase = "edit"
      /\ UNCHANGED <<fields, funds, awaited, isSuccess, clock, back>>
      /\ (phase' = "confirm" /\ shownQr' = 0 /\ faults' = {}) \/ UNCHANGED <<phase, shownQr>>
  BY DEF InitiateCreation
<1>2. phase' = "confirm" => Accepts(fields) /\ fields.total <= UserBalance
  BY <1>1, FaultlessIsAccepted DEF FormInv
<1>3. FormTypeOK' /\ ConfirmedIsAccepted' /\ SharedIsDecided'
  BY <1>1, <1>2, FaultsType
     DEF FormInv, FormTypeOK, ConfirmedIsAccepted, SharedIsDecided, clock, Phases, back, Accepts
<1>4. SessionsInv' /\ PhaseInv'
  BY <1>1 DEF FormInv, SessionsInv, PhaseInv, clock, Ordered, back
<1> QED BY <1>3, <1>4 DEF FormInv

LEMMA DialogStep == ASSUME FormAssumption, FormInv, AnswerDialog PROVE FormInv'
<1>1. /\ UNCHANGED <<form, shownQr, awaited, isSuccess, clock, back>> /\ phase = "confirm"
      /\ (phase' = "creating" /\ \E e \in Ids : sessions[e] = "none") \/ phase' = "edit"
  BY DEF AnswerDialog
<1>2. FormTypeOK' /\ ConfirmedIsAccepted' /\ SharedIsDecided'
  BY <1>1 DEF FormInv, FormTypeOK, ConfirmedIsAccepted, SharedIsDecided, clock, Phases, form, back
<1>3. SessionsInv' /\ PhaseInv'
  BY <1>1 DEF FormInv, SessionsInv, PhaseInv, clock, Ordered, back
<1> QED BY <1>2, <1>3 DEF FormInv

LEMMA CreatedStep == ASSUME FormAssumption, FormInv, EnvelopeCreated PROVE FormInv'
<1>1. /\ phase = "creating" /\ phase' \in {"paying", "edit"} /\ shownQr' \in {0, shownQr}
      /\ UNCHANGED <<form, awaited, isSuccess, clock, deposits, notices>>
      /\ \/ sessions' = [sessions EXCEPT ![Newest + 1] = "PENDING"]
         \/ phase' = "edit" /\ UNCHANGED sessions
  BY DEF EnvelopeCreated
<1>2. /\ IsNewest(Newest) /\ Newest + 1 \in Ids /\ Newest \in Nat /\ sessions[Newest + 1] = "none"
      /\ sessions \in [Ids -> FormStatuses] /\ Ordered
  BY <1>1, NewestExists DEF FormInv, SessionsInv, PhaseInv, clock
<1>3. ~ isSuccess
  BY <1>1 DEF FormInv, FormTypeOK
<1>4. FormTypeOK' /\ ConfirmedIsAccepted' /\ SharedIsDecided'
  BY <1>1, <1>3 DEF FormInv, FormTypeOK, ConfirmedIsAccepted, SharedIsDecided, clock, Phases, form
<1>5. CASE sessions' = [sessions EXCEPT ![Newest + 1] = "PENDING"]
  <2>0. PICK n : n = Newest + 1
    OBVIOUS
  <2>1. /\ n \in Ids /\ n \in Nat /\ sessions' = [sessions EXCEPT ![n] = "PENDING"] /\ sessions[n] = "none"
        /\ \A d \in Ids : d > n => sessions[d] = "none"
        /\ \A d \in Ids : d < n => sessions[d] # "none"
    <3>1. \A d \in Ids : d \in Nat
      BY DEF Ids, FormAssumption
    <3>2. \A d \in Ids : d > Newest => sessions[d] = "none"
      BY <1>2 DEF IsNewest
    <3>3. ASSUME NEW d \in Ids, d < n PROVE sessions[d] # "none"
      <4>1. d <= Newest /\ d > 0 /\ Newest > 0
        BY <1>2, <2>0, <3>1, <3>3 DEF Ids
      <4>2. sessions[Newest] # "none" /\ Newest \in Ids
        BY <1>2, <4>1 DEF IsNewest
      <4> QED BY <1>2, <3>1, <4>1, <4>2 DEF Ordered
    <3> QED BY <1>2, <1>5, <2>0, <3>1, <3>2, <3>3
  <2>2. sessions' \in [Ids -> FormStatuses]
    BY <1>2, <2>1 DEF FormStatuses
  <2>3. \A d \in Ids : d \in Nat
    BY DEF Ids, FormAssumption
  <2>4. \A e \in Ids : sessions'[e] # "none" <=> e <= n
    BY <1>2, <2>1, <2>3
  <2>5. Ordered'
    BY <2>1, <2>3, <2>4 DEF Ordered
  <2>6. SessionsInv'
    <3>1. \A e \in Ids : sessions[e] # "none" => sessions'[e] = sessions[e]
      BY <1>2, <2>1
    <3> QED BY <1>1, <2>2, <2>5, <3>1 DEF FormInv, FormTypeOK, SessionsInv
  <2>7. PhaseInv'
    <3>1. Newest' \in Ids /\ IsNewest(Newest)'
      BY <2>1, <2>4, NewestNext
    <3> QED BY <1>1, <3>1 DEF FormInv, PhaseInv, clock
  <2> QED BY <1>4, <2>6, <2>7 DEF FormInv
<1>6. CASE phase' = "edit" /\ UNCHANGED sessions
  BY <1>1, <1>4, <1>6 DEF FormInv, SessionsInv, PhaseInv, clock, Ordered
<1> QED BY <1>1, <1>5, <1>6

\* A wait without a timer is one that a fired timer precedes.
LEMMA ClockStarts ==
    ASSUME FormTypeOK, PhaseInv, phase = "paying", StartTimer
    PROVE  /\ timer' \in BOOLEAN /\ timeoutId' \in BOOLEAN /\ lapsed' \in BOOLEAN
           /\ timer' => timeoutId'
           /\ timer' \/ lapsed'
<1>1. /\ timer \in BOOLEAN /\ timeoutId \in BOOLEAN /\ lapsed \in BOOLEAN
      /\ timeoutId => timer \/ lapsed
      /\ timer => phase = "waiting"
  BY DEF FormTypeOK, PhaseInv
<1>2. timer' = ~ timeoutId /\ timeoutId' = ~ timeoutId /\ lapsed' = lapsed
  BY DEF StartTimer
<1>3. timeoutId => lapsed
  BY <1>1
<1> QED BY <1>1, <1>2, <1>3

LEMMA DepositStep == ASSUME FormAssumption, FormInv, DepositAnswered PROVE FormInv'
<1>1. /\ phase = "paying" /\ UNCHANGED <<form, isSuccess, sessions, notices>>
      /\ deposits' \in {deposits, deposits \cup {Newest}}
      /\ \/ /\ phase' = "waiting" /\ awaited' = Newest /\ shownQr' = Newest /\ StartTimer
            /\ deposits' = deposits \cup {Newest}
         \/ phase' \in {"edit", "marking"} /\ UNCHANGED <<awaited, clock>> /\ shownQr' \in {0, shownQr}
  BY DEF DepositAnswered, WaitForEvent
<1>2. Newest \in Ids /\ IsNewest(Newest) /\ sessions[Newest] # "none" /\ Newest > 0 /\ ~ isSuccess
      /\ awaited = 0 /\ ~ timer
  <2>1. Newest \in Ids /\ IsNewest(Newest)
    BY <1>1 DEF FormInv, PhaseInv
  <2>2. Newest > 0
    BY <2>1 DEF Ids, FormAssumption
  <2> QED BY <1>1, <2>1, <2>2 DEF FormInv, FormTypeOK, PhaseInv, IsNewest
<1>3. Newest' = Newest /\ IsNewest(Newest)'
  BY <1>1, <1>2, NewestKept
<1>4. StartTimer => /\ timer' \in BOOLEAN /\ timeoutId' \in BOOLEAN /\ lapsed' \in BOOLEAN
                    /\ (timer' => timeoutId') /\ (timer' \/ lapsed')
  BY <1>1, ClockStarts DEF FormInv
<1>5. FormTypeOK' /\ ConfirmedIsAccepted' /\ SharedIsDecided'
  <2>1. CASE phase' = "waiting" /\ awaited' = Newest /\ shownQr' = Newest /\ StartTimer
    BY <1>1, <1>2, <1>4, <2>1 DEF FormInv, FormTypeOK, ConfirmedIsAccepted, SharedIsDecided, Phases, form
  <2>2. CASE phase' \in {"edit", "marking"} /\ UNCHANGED <<awaited, clock>> /\ shownQr' \in {0, shownQr}
    BY <1>1, <1>2, <2>2 DEF FormInv, FormTypeOK, ConfirmedIsAccepted, SharedIsDecided, clock, Phases, form
  <2> QED BY <1>1, <2>1, <2>2
<1>6. SessionsInv' /\ PhaseInv'
  BY <1>1, <1>2, <1>3, <1>4 DEF FormInv, SessionsInv, PhaseInv, clock, Ordered
<1> QED BY <1>5, <1>6 DEF FormInv

LEMMA MarkedStep == ASSUME FormAssumption, FormInv, MarkedFailed PROVE FormInv'
<1>1. /\ phase = "marking" /\ phase' = "edit" /\ UNCHANGED <<form, awaited, isSuccess, clock, deposits, notices>>
      /\ shownQr' \in {0, shownQr}
      /\ \/ sessions[Newest] = "PENDING" /\ sessions' = [sessions EXCEPT ![Newest] = "FAILED"]
         \/ UNCHANGED sessions
  BY DEF MarkedFailed
<1>2. ~ isSuccess
  BY <1>1 DEF FormInv, FormTypeOK
<1>3. FormTypeOK' /\ ConfirmedIsAccepted' /\ SharedIsDecided'
  BY <1>1, <1>2 DEF FormInv, FormTypeOK, ConfirmedIsAccepted, SharedIsDecided, clock, Phases, form
<1>4. PhaseInv'
  BY <1>1 DEF FormInv, PhaseInv, clock
<1>5. /\ \A e \in Ids : /\ sessions'[e] = "none" <=> sessions[e] = "none"
                        /\ sessions[e] \in {"PUBLISHED", "FAILED"} => sessions'[e] = sessions[e]
      /\ sessions' \in [Ids -> FormStatuses]
  BY <1>1 DEF FormInv, SessionsInv, FormStatuses
<1>6. SessionsInv'
  <2>1. deposits \subseteq Ids /\ notices \subseteq deposits
    BY DEF FormInv, FormTypeOK
  <2> QED BY <1>1, <1>5, <2>1 DEF FormInv, SessionsInv, Ordered
<1> QED BY <1>3, <1>4, <1>6 DEF FormInv

(* Events and the timer.                                                    *)

LEMMA DecidedStep == ASSUME FormAssumption, FormInv, NEW e \in Ids, StatusDecided(e) PROVE FormInv'
<1>1. /\ sessions[e] = "PENDING" /\ e \in deposits /\ notices' = notices \cup {e}
      /\ UNCHANGED <<form, flow, deposits>>
      /\ \E s \in {"PUBLISHED", "FAILED"} : sessions' = [sessions EXCEPT ![e] = s]
  BY DEF StatusDecided
<1>2. /\ \A d \in Ids : /\ sessions'[d] = "none" <=> sessions[d] = "none"
                        /\ sessions[d] \in {"PUBLISHED", "FAILED"} => sessions'[d] = sessions[d]
                        /\ sessions[d] # "PENDING" => sessions'[d] # "PENDING"
      /\ sessions'[e] \in {"PUBLISHED", "FAILED"} /\ sessions' \in [Ids -> FormStatuses]
  BY <1>1 DEF FormInv, SessionsInv, FormStatuses
<1>3. deposits \subseteq Ids /\ notices \subseteq deposits /\ shownQr \in Ids \cup {0}
  BY DEF FormInv, FormTypeOK
<1>4. FormTypeOK' /\ ConfirmedIsAccepted' /\ SharedIsDecided'
  BY <1>1, <1>2, <1>3 DEF FormInv, FormTypeOK, ConfirmedIsAccepted, SharedIsDecided, clock, form, flow
<1>5. SessionsInv'
  BY <1>1, <1>2, <1>3 DEF FormInv, SessionsInv, Ordered
<1>6. IsNewest(Newest) => Newest' = Newest /\ IsNewest(Newest)'
  BY <1>2, NewestKept
<1>7. PhaseInv'
  <2>1. phase' = "creating" => \E d \in Ids : sessions'[d] = "none"
    BY <1>1, <1>2 DEF FormInv, PhaseInv, flow, clock
  <2> QED BY <1>1, <1>6, <2>1 DEF FormInv, PhaseInv, flow, clock
<1> QED BY <1>4, <1>5, <1>7 DEF FormInv

LEMMA NoticeStep == ASSUME FormAssumption, FormInv, NEW e \in Ids, NoticeArrives(e) PROVE FormInv'
<1>1. /\ e \in notices /\ notices' = notices \ {e}
      /\ UNCHANGED <<fields, faults, unchecked, early, shownQr, sessions, deposits>>
      /\ \/ /\ awaited = e /\ phase = "waiting" /\ phase' = "edit" /\ isSuccess' = TRUE
            /\ awaited' = 0 /\ timer' = FALSE /\ timeoutId' = FALSE /\ lapsed' = lapsed /\ funds' \in {0, UserBalance}
         \/ UNCHANGED <<phase, isSuccess, awaited, clock, funds>>
  BY DEF NoticeArrives, EventCounts, ClearPendingTimeout
<1>2. phase = "waiting" => shownQr = awaited /\ awaited \in deposits
  BY DEF FormInv, PhaseInv
<1>3. sessions[e] # "PENDING"
  BY <1>1 DEF FormInv, SessionsInv
<1>4. FormTypeOK' /\ ConfirmedIsAccepted' /\ SharedIsDecided'
  <2> DEFINE Decides == /\ awaited = e /\ phase = "waiting" /\ phase' = "edit" /\ isSuccess' = TRUE
                        /\ awaited' = 0 /\ timer' = FALSE /\ timeoutId' = FALSE /\ lapsed' = lapsed
                        /\ funds' \in {0, UserBalance}
  <2>1. CASE Decides
    <3>1. shownQr' \in deposits' /\ sessions'[shownQr'] # "PENDING"
      BY <1>1, <1>2, <1>3, <2>1
    <3> QED BY <1>1, <2>1, <3>1 DEF FormInv, FormTypeOK, ConfirmedIsAccepted, SharedIsDecided, Phases
  <2>2. CASE UNCHANGED <<phase, isSuccess, awaited, clock, funds>>
    BY <1>1, <2>2 DEF FormInv, FormTypeOK, ConfirmedIsAccepted, SharedIsDecided, clock, Accepts
  <2> QED BY <1>1, <2>1, <2>2
<1>5. Newest' = Newest
  BY <1>1 DEF Newest
<1>6. SessionsInv' /\ PhaseInv'
  BY <1>1, <1>5 DEF FormInv, SessionsInv, PhaseInv, clock, Ordered, IsNewest
<1> QED BY <1>4, <1>6 DEF FormInv

LEMMA TimerStep == ASSUME FormAssumption, FormInv, TimerFires PROVE FormInv'
<1>1. /\ timer /\ timer' = FALSE /\ lapsed' = TRUE /\ timeoutId' = timeoutId /\ phase' = "edit" /\ awaited' = 0 /\ phase = "waiting"
      /\ UNCHANGED <<form, shownQr, isSuccess, back>>
  BY DEF TimerFires, FormInv, FormTypeOK
<1>2. FormTypeOK' /\ ConfirmedIsAccepted' /\ SharedIsDecided'
  BY <1>1 DEF FormInv, FormTypeOK, ConfirmedIsAccepted, SharedIsDecided, clock, Phases, form, back
<1>3. SessionsInv' /\ PhaseInv'
  BY <1>1 DEF FormInv, SessionsInv, PhaseInv, clock, Ordered, back
<1> QED BY <1>2, <1>3 DEF FormInv

LEMMA FormStep == ASSUME FormAssumption, FormInv, [FormNext]_formVars PROVE FormInv'
<1>1. ASSUME NEW x \in Amounts4, TypeField(x) PROVE FormInv'
  <2>1. funds' \in {0, UserBalance}
    BY <1>1, TypedField DEF FormInv, FormTypeOK
  <2> QED BY <1>1, <2>1, TypedField, FormMoves DEF FormInv
<1>2. CASE ToggleRandom
  <2>1. /\ fields' = [fields EXCEPT !.random = ~ fields.random] 
        /\ faults' = FaultsOf(fields', funds, Mounted(fields))
        /\ unchecked' = Mounted(fields') \ Mounted(fields)
        /\ phase # "confirm" /\ UNCHANGED <<funds, flow, back>>
    BY <1>2 DEF ToggleRandom
  <2>2. fields' \in [total : 0..TopTotal, count : 0..TopCount, min : 0..TopShare,
                     max : 0..TopShare, random : BOOLEAN]
    BY <2>1 DEF FormInv, FormTypeOK
  <2>3. faults' \subseteq Amounts4 /\ unchecked' \subseteq {"min", "max"} /\ funds' \in {0, UserBalance}
    <3>1. faults' \subseteq Mounted(fields) /\ unchecked' \subseteq Amounts4 \ Mounted(fields)
      BY <2>1, FaultsType
    <3> QED BY <2>1, <3>1, FaultsType DEF FormInv, FormTypeOK
  <2> QED BY <2>1, <2>2, <2>3, FormMoves
<1>3. CASE BalanceLoads
  <2>1. funds = 0 /\ funds' = UserBalance /\ UNCHANGED <<fields, faults, unchecked, early, flow, back>>
    BY <1>3 DEF BalanceLoads
  <2>2. FormTypeOK' /\ ConfirmedIsAccepted' /\ SharedIsDecided'
    BY <2>1 DEF FormInv, FormTypeOK, ConfirmedIsAccepted, SharedIsDecided, clock, Accepts, flow, back
  <2>3. Newest' = Newest
    BY <2>1 DEF Newest, back
  <2>4. SessionsInv' /\ PhaseInv'
    BY <2>1, <2>3 DEF FormInv, SessionsInv, PhaseInv, clock, Ordered, IsNewest, flow, back
  <2> QED BY <2>2, <2>4 DEF FormInv
<1>4. CASE UNCHANGED formVars
  <2>1. FormTypeOK' /\ ConfirmedIsAccepted' /\ SharedIsDecided'
    BY <1>4 DEF formVars, FormInv, FormTypeOK, ConfirmedIsAccepted, SharedIsDecided, clock, Accepts, form, flow, back
  <2>2. Newest' = Newest
    BY <1>4 DEF Newest, formVars, back
  <2>3. SessionsInv' /\ PhaseInv'
    BY <1>4, <2>2 DEF formVars, FormInv, SessionsInv, PhaseInv, clock, Ordered, IsNewest, flow, back
  <2> QED BY <2>1, <2>3 DEF FormInv
<1> QED BY <1>1, <1>2, <1>3, <1>4, InitiateStep, DialogStep, CreatedStep, DepositStep, MarkedStep,
           DecidedStep, NoticeStep, TimerStep DEF FormNext

LEMMA FormStart == ASSUME FormAssumption, FormInit PROVE FormInv
<1>1. FormTypeOK
  <2>1. fields \in [total : 0..TopTotal, count : 0..TopCount, min : 0..TopShare,
                    max : 0..TopShare, random : BOOLEAN]
    BY DEF FormAssumption, FormInit
  <2>2. ~ timer /\ {timer, timeoutId, lapsed} \subseteq BOOLEAN
    BY Zenon DEF FormInit
  <2> QED BY <2>1, <2>2 DEF FormAssumption, FormInit, FormTypeOK, Phases
<1>2. ConfirmedIsAccepted /\ SharedIsDecided
  BY DEF FormInit, ConfirmedIsAccepted, SharedIsDecided
<1>3. SessionsInv /\ PhaseInv
  BY DEF FormInit, SessionsInv, PhaseInv, Ordered, FormStatuses
<1> QED BY <1>1, <1>2, <1>3 DEF FormInv

-----------------------------------------------------------------------------
(* The inductive invariant: the types, the order of the envelopes, and what *)
(* each phase of the sequence relies on.                                    *)
THEOREM FormAlways == FormSpec => []FormInv
<1>1. FormInit => FormInv
  BY FormAssumption, FormStart
<1>2. FormInv /\ [FormNext]_formVars => FormInv'
  BY FormAssumption, FormStep
<1> QED BY <1>1, <1>2, PTL DEF FormSpec

(* Types, with the timer only in a wait and a success only outside of one.  *)
THEOREM FormTypeCorrect == FormSpec => []FormTypeOK
<1>1. FormInv => FormTypeOK
  BY DEF FormInv
<1> QED BY <1>1, FormAlways, PTL

(* The rules of the form imply those of the service, for any limits and    *)
(* balance.                                                                *)
THEOREM ConfirmedAccepted == FormSpec => []ConfirmedIsAccepted
<1>1. FormInv => ConfirmedIsAccepted
  BY DEF FormInv
<1> QED BY <1>1, FormAlways, PTL

(* No wait of the page is without its timer, except after one that a timer *)
(* gave up.                                                                *)
THEOREM WaitsEnd == FormSpec => []WaitingEnds
<1>1. FormInv => WaitingEnds
  BY DEF FormInv, PhaseInv, WaitingEnds
<1> QED BY <1>1, FormAlways, PTL

(* The shared code is of a paid and decided session, however many were     *)
(* submitted before it.                                                    *)
THEOREM SharedDecided == FormSpec => []SharedIsDecided
<1>1. FormInv => SharedIsDecided
  BY DEF FormInv
<1> QED BY <1>1, FormAlways, PTL

-----------------------------------------------------------------------------
(* The messages under the fields.                                           *)

\* Only the rule of the total looks at the balance.
LEMMA OnlyTheTotal ==
    ASSUME NEW f, NEW a, NEW b, NEW y \in Amounts4, y # "total"
    PROVE  y \in Faults(f, a) <=> y \in Faults(f, b)
BY DEF Faults, FaultsOf, Amounts4

\* Every input of a page was checked at once.
LEMMA AllChecked ==
    ASSUME FormTypeOK, FormTypeOK', NEW M, faults' = FaultsOf(fields', funds, M),
           unchecked' = Mounted(fields') \ M, early' = (funds = 0)
    PROVE  ErrorsAreCurrent'
<1> SUFFICES ASSUME NEW y \in Dirty(fields') \cap Mounted(fields'), y = "total" => ~ early'
             PROVE  /\ y \in faults' => y \in Faults(fields', UserBalance)
                    /\ y \in Faults(fields', UserBalance) => y \in faults' \cup unchecked'
  BY Zenon DEF ErrorsAreCurrent
<1>1. y \in Amounts4 /\ y \in Mounted(fields')
  BY DEF Dirty
<1>2. y \in Faults(fields', funds) <=> y \in Faults(fields', UserBalance)
  <2>1. CASE y = "total"
    <3>1. funds = UserBalance
      BY <2>1 DEF FormTypeOK
    <3> QED BY <3>1, Zenon
  <2>2. CASE y # "total"
    BY <1>1, <2>2, OnlyTheTotal
  <2> QED BY <2>1, <2>2
<1>3. y \in M => (y \in faults' <=> y \in Faults(fields', funds))
  BY <1>1 DEF Faults, FaultsOf
<1>4. y \notin M => y \in unchecked' /\ y \notin faults'
  BY <1>1, FaultsType
<1> QED BY <1>2, <1>3, <1>4, Zenon

\* A field that is not checked again is the count, when a limit was typed.
LEMMA TypingChecks ==
    ASSUME FormAssumption, FormTypeOK, ErrorsAreCurrent, NEW x \in Amounts4, TypeField(x)
    PROVE  ErrorsAreCurrent'
<1> DEFINE C == {x} \cup (Revalidated(x) \cap Dirty(fields'))
<1>1. PICK v \in Typeable(x) : fields' = [fields EXCEPT ![x] = v]
  BY DEF TypeField
<1>2. /\ faults' = (faults \ C) \cup (Faults(fields', funds) \cap C)
      /\ early' = IF "total" \in C THEN funds = 0 ELSE early
  BY DEF TypeField
<1> SUFFICES ASSUME NEW y \in Dirty(fields') \cap Mounted(fields'), y = "total" => ~ early'
             PROVE  y \in faults' <=> y \in Faults(fields', UserBalance)
  BY Zenon DEF ErrorsAreCurrent
<1>3. y \in Amounts4 /\ y \in Dirty(fields') /\ y \in Mounted(fields')
  BY DEF Dirty
<1>4. CASE y \in C
  <2>1. y \in faults' <=> y \in Faults(fields', funds)
    BY <1>2, <1>4, Zenon
  <2>2. CASE y = "total"
    <3>1. funds # 0
      BY <1>2, <1>4, <2>2, Zenon
    <3>2. funds = UserBalance
      BY <3>1 DEF FormTypeOK
    <3> QED BY <2>1, <3>2, Zenon
  <2>3. CASE y # "total"
    BY <1>3, <2>1, <2>3, OnlyTheTotal, Zenon
  <2> QED BY <2>2, <2>3
<1>5. CASE y \notin C
  <2>1. y = "count" /\ x \in {"min", "max"}
    BY <1>3, <1>5 DEF Revalidated, Amounts4
  <2>2. y \in faults' <=> y \in faults
    BY <1>2, <1>5, Zenon
  <2>3. fields'.count = fields.count /\ fields'.total = fields.total
    BY <1>1, <2>1 DEF FormTypeOK
  <2>4. "count" \in Dirty(fields) \cap Mounted(fields) /\ "count" \notin unchecked /\ "count" # "total"
    BY <1>3, <2>1, <2>3 DEF Dirty, Amounts4, Mounted, FormTypeOK
  <2>5. "count" \in faults <=> "count" \in Faults(fields, UserBalance)
    BY <2>4, Zenon DEF ErrorsAreCurrent
  <2>6. CountFault(fields') <=> CountFault(fields)
    BY <2>3 DEF CountFault
  <2>7. \A f : "count" \in Faults(f, UserBalance) <=> CountFault(f)
    BY DEF Faults, FaultsOf, Amounts4, Mounted
  <2> QED BY <2>1, <2>2, <2>5, <2>6, <2>7, Zenon
<1> QED BY <1>4, <1>5

\* The values, the messages and the checks are as they were.
LEMMA NothingTyped ==
    ASSUME ErrorsAreCurrent, UNCHANGED <<fields, faults, unchecked, early>> PROVE ErrorsAreCurrent'
BY DEF ErrorsAreCurrent, Dirty, Faults, FaultsOf, Mounted, TotalFault, CountFault, MinFault, MaxFault

LEMMA ErrorsStep ==
    ASSUME FormAssumption, FormTypeOK, FormTypeOK', ErrorsAreCurrent, [FormNext]_formVars
    PROVE  ErrorsAreCurrent'
<1>1. ASSUME NEW x \in Amounts4, TypeField(x) PROVE ErrorsAreCurrent'
  BY <1>1, TypingChecks
<1>2. CASE ToggleRandom
  BY <1>2, AllChecked DEF ToggleRandom
<1>3. CASE InitiateCreation
  <2>1. /\ faults' = FaultsOf(fields', funds, Mounted(fields)) /\ early' = (funds = 0)
        /\ unchecked' = Mounted(fields') \ Mounted(fields)
    BY <1>3 DEF InitiateCreation, Faults
  <2> QED BY <2>1, AllChecked
<1>4. CASE BalanceLoads
  BY <1>4, NothingTyped DEF BalanceLoads
<1>5. CASE AnswerDialog \/ EnvelopeCreated \/ DepositAnswered \/ MarkedFailed \/ TimerFires
  <2>1. UNCHANGED <<fields, faults, unchecked, early>>
    BY <1>5 DEF AnswerDialog, EnvelopeCreated, DepositAnswered, MarkedFailed, TimerFires, form
  <2> QED BY <2>1, NothingTyped
<1>6. ASSUME NEW e \in Ids, StatusDecided(e) \/ NoticeArrives(e) PROVE ErrorsAreCurrent'
  <2>1. UNCHANGED <<fields, faults, unchecked, early>>
    BY <1>6 DEF StatusDecided, NoticeArrives, form
  <2> QED BY <2>1, NothingTyped
<1>7. CASE UNCHANGED formVars
  <2>1. UNCHANGED <<fields, faults, unchecked, early>>
    BY <1>7 DEF formVars, form
  <2> QED BY <2>1, NothingTyped
<1> QED BY <1>1, <1>2, <1>3, <1>4, <1>5, <1>6, <1>7 DEF FormNext

(* The messages are about what is typed, for any limits and balance, and   *)
(* the form keeps its word in everything else.                             *)
THEOREM FormKeepsItsWord == FormSpec => []FormIsHonest
<1>1. FormInit => ErrorsAreCurrent
  BY DEF FormInit, ErrorsAreCurrent, Dirty, Amounts4
<1>2. FormTypeOK /\ FormTypeOK' /\ ErrorsAreCurrent /\ [FormNext]_formVars => ErrorsAreCurrent'
  BY FormAssumption, ErrorsStep
<1>3. ConfirmedIsAccepted /\ ErrorsAreCurrent /\ WaitingEnds /\ SharedIsDecided => FormIsHonest
  BY DEF FormIsHonest
<1> QED BY <1>1, <1>2, <1>3, FormTypeCorrect, ConfirmedAccepted, WaitsEnd, SharedDecided, PTL DEF FormSpec

-----------------------------------------------------------------------------
(* The pages of a lucky money session (EnvelopePages).                     *)

Positive == Nat \ {0}
Gifts == [status : Statuses, queue : Seq(Positive), reserved : Nat, claim : {"none", "SUCCESS", "FAILED"}, paid : Nat]
Openings == [status : {"none", "idle", "pending", "success", "error"}, amount : Nat,
             claim : {"idle", "pending", "success", "error"}]
Boards == [view : Queries, modal : BOOLEAN, timer : BOOLEAN, closing : {"none", "sent", "served"}]

\* Once an amount is reserved no page shows another, and once the reservation is gone
\* there is nothing left to reserve.
ShownInv ==
    /\ browser \in {"claimer", "owner"} /\ gift \in Gifts /\ opening \in [ClaimTabs -> Openings]
    /\ \A t \in ClaimTabs : /\ opening[t].status = "success" => opening[t].amount # 0
                            /\ opening[t].claim # "idle" => opening[t].amount # 0
    /\ gift.reserved # 0 => \A t \in ClaimTabs : opening[t].amount \in {0, gift.reserved}
    /\ gift.reserved = 0 => gift.queue = <<>> \/ \A t \in ClaimTabs : opening[t].amount = 0
    /\ gift.claim = "SUCCESS" => \A t \in ClaimTabs : opening[t].amount \in {0, gift.paid}

\* A change that was told is on its way to the data, or will be found out at the next mount.
Due(q) ==
    \/ reading[q] \in {"sent", gift.status} \/ heralds > 0 \/ board.closing = "served"
    \/ q = "list" /\ board.timer
    \/ /\ reading[q] = "none"
       /\ cached[q].data = gift.status \/ (board.view # q /\ cached[q].stale)

CacheInv ==
    /\ cached \in [Queries -> [data : Statuses \cup {"none"}, stale : BOOLEAN]]
    /\ reading \in [Queries -> Statuses \cup {"none", "sent"}]
    /\ board \in Boards /\ heralds \in Nat /\ untold \in [Queries -> BOOLEAN]
    /\ board.timer => board.view = "list"
    /\ board.modal => board.view = "detail"
    /\ \A q \in Queries : cached[q].data = "none" => cached[q].stale
    /\ browser = "owner" => \A q \in Queries : ~ untold[q] => Due(q)

GiftInv == ShownInv /\ CacheInv

-----------------------------------------------------------------------------
(* The claim page.                                                           *)

LEMMA PageTurns ==
    ASSUME ShownInv, NEW t \in ClaimTabs, NEW p \in Openings, Becomes(t, p), UNCHANGED <<browser, gift>>,
           p.status = "success" => p.amount # 0, p.claim # "idle" => p.amount # 0,
           p.amount \in {0, opening[t].amount}
    PROVE  ShownInv'
<1>1. opening' \in [ClaimTabs -> Openings] /\ opening'[t] = p
      /\ \A r \in ClaimTabs : r # t => opening'[r] = opening[r]
  BY DEF ShownInv, Becomes
<1>2. \A r \in ClaimTabs : opening'[r].amount \in {0, opening[r].amount}
  BY <1>1
<1>3. \A r \in ClaimTabs : /\ opening'[r].status = "success" => opening'[r].amount # 0
                           /\ opening'[r].claim # "idle" => opening'[r].amount # 0
  BY <1>1 DEF ShownInv
<1> QED BY <1>1, <1>2, <1>3 DEF ShownInv

LEMMA AmountStep == ASSUME ShownInv, NEW t \in ClaimTabs, AmountAnswered(t) PROVE ShownInv'
<1>1. opening[t] \in Openings /\ UNCHANGED browser
  BY DEF ShownInv, AmountAnswered
<1>2. CASE Becomes(t, [opening[t] EXCEPT !.status = "error"]) /\ UNCHANGED gift
  <2> DEFINE p == [opening[t] EXCEPT !.status = "error"]
  <2>1. p \in Openings /\ p.status = "error" /\ p.amount = opening[t].amount /\ p.claim = opening[t].claim
    BY <1>1 DEF Openings
  <2>2. p.claim # "idle" => p.amount # 0
    BY <2>1 DEF ShownInv
  <2> HIDE DEF p
  <2> QED BY <1>1, <1>2, <2>1, <2>2, PageTurns DEF p
<1>3. ASSUME gift.claim = "none", AttemptClaim, NEW p, Becomes(t, p),
             p = [opening[t] EXCEPT !.status = "success", !.amount = gift'.reserved]
               \/ p = [opening[t] EXCEPT !.status = "error"]
      PROVE  ShownInv'
  <2>1. /\ gift' \in Gifts /\ gift'.reserved # 0 /\ gift'.claim = "none"
        /\ \A r \in ClaimTabs : opening[r].amount \in {0, gift'.reserved}
    <3>1. gift \in Gifts
      BY DEF ShownInv
    <3>2. CASE gift.reserved # 0
      BY <1>3, <3>1, <3>2 DEF AttemptClaim, ShownInv
    <3>3. CASE gift.reserved = 0
      <4>1. gift.queue # <<>> /\ gift' = [gift EXCEPT !.reserved = Head(gift.queue), !.queue = Tail(gift.queue)]
        BY <1>3, <3>3 DEF AttemptClaim
      <4>2. Head(gift.queue) \in Positive /\ Tail(gift.queue) \in Seq(Positive)
        BY <3>1, <4>1 DEF Gifts
      <4>3. gift' \in Gifts /\ gift'.reserved # 0 /\ gift'.claim = "none"
        BY <1>3, <3>1, <4>1, <4>2 DEF Gifts, Positive
      <4>4. \A r \in ClaimTabs : opening[r].amount = 0
        BY <3>3, <4>1 DEF ShownInv
      <4> QED BY <4>3, <4>4
    <3> QED BY <3>2, <3>3
  <2>2. /\ p \in Openings /\ p.amount \in {opening[t].amount, gift'.reserved} /\ p.claim = opening[t].claim
        /\ p.status = "success" => p.amount = gift'.reserved
        /\ p.amount = opening[t].amount \/ p.amount # 0
    BY <1>1, <1>3, <2>1 DEF Openings, Gifts
  <2>3. opening' \in [ClaimTabs -> Openings] /\ opening'[t] = p
        /\ \A r \in ClaimTabs : r # t => opening'[r] = opening[r]
    BY <1>3, <2>2 DEF ShownInv, Becomes
  <2>4. \A r \in ClaimTabs : opening'[r].amount \in {0, gift'.reserved}
    BY <2>1, <2>2, <2>3
  <2>5. \A r \in ClaimTabs : /\ opening'[r].status = "success" => opening'[r].amount # 0
                             /\ opening'[r].claim # "idle" => opening'[r].amount # 0
    BY <2>1, <2>2, <2>3 DEF ShownInv
  <2> QED BY <1>1, <2>1, <2>3, <2>4, <2>5 DEF ShownInv
<1> QED BY <1>2, <1>3 DEF AmountAnswered

LEMMA ClaimStep == ASSUME ShownInv, NEW t \in ClaimTabs, ClaimAnswered(t) PROVE ShownInv'
<1>1. opening[t] \in Openings /\ UNCHANGED browser /\ opening[t].claim = "pending" /\ opening[t].amount # 0
  BY DEF ShownInv, ClaimAnswered
<1>2. PICK c \in {"success", "error"} : Becomes(t, [opening[t] EXCEPT !.claim = c])
  BY DEF ClaimAnswered
<1> DEFINE p == [opening[t] EXCEPT !.claim = c]
<1>3. p \in Openings /\ p.status = opening[t].status /\ p.amount = opening[t].amount
  BY <1>1 DEF Openings
<1>4. Becomes(t, p)
  BY <1>2
<1> HIDE DEF p
<1>5. CASE UNCHANGED gift
  BY <1>1, <1>3, <1>4, <1>5, PageTurns
<1>6. CASE Claims
  <2>1. gift \in Gifts /\ gift.reserved # 0
    BY <1>6 DEF ShownInv, Claims
  <2>2. /\ gift' \in Gifts /\ gift'.reserved = gift.reserved /\ gift'.queue = gift.queue
        /\ gift'.claim = "SUCCESS" => gift'.paid = gift.reserved
    BY <1>6, <2>1 DEF Claims, Gifts
  <2>3. opening' \in [ClaimTabs -> Openings] /\ \A r \in ClaimTabs : opening'[r].amount = opening[r].amount
        /\ opening'[r].status = opening[r].status
    BY <1>3, <1>4 DEF ShownInv, Becomes
  <2>4. \A r \in ClaimTabs : opening'[r].claim # "idle" => opening'[r].amount # 0
    BY <1>1, <1>3, <1>4 DEF ShownInv, Becomes
  <2> QED BY <1>1, <2>1, <2>2, <2>3, <2>4 DEF ShownInv
<1> QED BY <1>5, <1>6 DEF ClaimAnswered

\* The queue shrinks, and the reservation stays or goes with it.
LEMMA QueueShrinks ==
    ASSUME ShownInv, OthersOpen \/ QueueExpires
    PROVE  ShownInv'
<1>1. gift \in Gifts /\ UNCHANGED <<browser, opening>>
  BY DEF ShownInv, OthersOpen, QueueExpires
<1>2. CASE gift.queue # <<>> /\ gift' = [gift EXCEPT !.queue = Tail(gift.queue)]
  <2>1. Tail(gift.queue) \in Seq(Positive)
    BY <1>1, <1>2 DEF Gifts
  <2>2. gift' \in Gifts /\ gift'.reserved = gift.reserved /\ gift'.claim = gift.claim /\ gift'.paid = gift.paid
    BY <1>1, <1>2, <2>1 DEF Gifts
  <2> QED BY <1>1, <1>2, <2>2 DEF ShownInv
<1>3. CASE gift' = [gift EXCEPT !.queue = <<>>, !.reserved = 0]
  <2>1. <<>> \in Seq(Positive)
    OBVIOUS
  <2>2. gift' \in Gifts /\ gift'.queue = <<>> /\ gift'.reserved = 0 /\ gift'.claim = gift.claim /\ gift'.paid = gift.paid
    BY <1>1, <1>3, <2>1 DEF Gifts
  <2> QED BY <1>1, <2>2 DEF ShownInv
<1> QED BY <1>2, <1>3 DEF OthersOpen, QueueExpires

LEMMA StatusMoves ==
    ASSUME ShownInv, NEW s \in Statuses, gift' = [gift EXCEPT !.status = s], UNCHANGED <<browser, opening>>
    PROVE  ShownInv' /\ gift'.status = s
<1>1. gift \in Gifts
  BY DEF ShownInv
<1>2. /\ gift' \in Gifts /\ gift'.queue = gift.queue /\ gift'.reserved = gift.reserved /\ gift'.claim = gift.claim
      /\ gift'.paid = gift.paid /\ gift'.status = s
  BY <1>1 DEF Gifts
<1> QED BY <1>2 DEF ShownInv

LEMMA ShownStep == ASSUME ShownInv, [GiftNext]_giftVars PROVE ShownInv'
<1>1. ASSUME NEW t \in ClaimTabs, ClaimPageLoaded(t) PROVE ShownInv'
  <2> DEFINE p == [NewOpening EXCEPT !.status = "idle"]
  <2>1. p \in Openings /\ p.status = "idle" /\ p.claim = "idle" /\ p.amount = 0
    BY DEF NewOpening, Openings
  <2>2. Becomes(t, p) /\ UNCHANGED <<browser, gift>>
    BY <1>1 DEF ClaimPageLoaded
  <2> HIDE DEF p
  <2> QED BY <2>1, <2>2, PageTurns
<1>2. ASSUME NEW t \in ClaimTabs, OpensItself(t) PROVE ShownInv'
  <2> DEFINE p == [opening[t] EXCEPT !.status = "pending"]
  <2>1. p \in Openings /\ p.status = "pending" /\ p.claim = opening[t].claim /\ p.amount = opening[t].amount
    BY DEF ShownInv, Openings
  <2>2. Becomes(t, p) /\ UNCHANGED <<browser, gift>>
    BY <1>2 DEF OpensItself
  <2>3. p.claim # "idle" => p.amount # 0
    BY <2>1 DEF ShownInv
  <2> HIDE DEF p
  <2> QED BY <2>1, <2>2, <2>3, PageTurns
<1>3. ASSUME NEW t \in ClaimTabs, HandleClaim(t) PROVE ShownInv'
  <2> DEFINE p == [opening[t] EXCEPT !.claim = "pending"]
  <2>1. p \in Openings /\ p.status = "success" /\ p.amount = opening[t].amount /\ opening[t].amount # 0
    BY <1>3 DEF ShownInv, Openings, HandleClaim
  <2>2. Becomes(t, p) /\ UNCHANGED <<browser, gift>>
    BY <1>3 DEF HandleClaim
  <2> HIDE DEF p
  <2> QED BY <2>1, <2>2, PageTurns
<1>4. CASE EndsSilently \/ GiftDecided \/ CloseServed
  <2>1. PICK s \in Statuses : gift' = [gift EXCEPT !.status = s]
    BY <1>4 DEF EndsSilently, GiftDecided, CloseServed, Statuses
  <2>2. UNCHANGED <<browser, opening>>
    BY <1>4 DEF EndsSilently, GiftDecided, CloseServed
  <2> QED BY <2>1, <2>2, StatusMoves
<1>5. CASE UNCHANGED <<browser, gift, opening>>
  BY <1>5 DEF ShownInv
<1>6. ASSUME NEW q \in Queries, ReadServed(q) \/ ReadAnswered(q) \/ ReadFailed(q) \/ GetsStale(q)
      PROVE UNCHANGED <<browser, gift, opening>>
  BY <1>6 DEF ReadServed, ReadAnswered, ReadFailed, GetsStale
<1>7. Navigate \/ HeraldArrives \/ DebounceFires \/ CloseModal \/ CloseSucceeds \/ CloseFails \/ UNCHANGED giftVars
        => UNCHANGED <<browser, gift, opening>>
  BY DEF Navigate, HeraldArrives, DebounceFires, CloseModal, CloseSucceeds, CloseFails, giftVars
<1> QED BY <1>1, <1>2, <1>3, <1>4, <1>5, <1>6, <1>7, AmountStep, ClaimStep, QueueShrinks DEF GiftNext

-----------------------------------------------------------------------------
(* The owner's cache.                                                        *)

LEMMA CacheKept ==
    ASSUME CacheInv, UNCHANGED <<cached, reading, board, heralds, untold, browser>>, gift'.status = gift.status
    PROVE  CacheInv'
<1>1. \A q \in Queries : Due(q)' <=> Due(q)
  BY DEF Due
<1> QED BY <1>1 DEF CacheInv

LEMMA ReadSteps ==
    ASSUME GiftInv, NEW q \in Queries, ReadServed(q) \/ ReadAnswered(q) \/ ReadFailed(q) \/ GetsStale(q)
    PROVE  CacheInv'
<1>1. gift.status \in Statuses /\ UNCHANGED <<browser, gift, board, heralds>>
  BY DEF GiftInv, ShownInv, Gifts, ReadServed, ReadAnswered, ReadFailed, GetsStale
<1>2. CASE ReadServed(q)
  <2>1. /\ reading' = [reading EXCEPT ![q] = gift.status] /\ untold' = [untold EXCEPT ![q] = FALSE]
        /\ cached' = cached
    BY <1>2 DEF ReadServed
  <2>2. reading' \in [Queries -> Statuses \cup {"none", "sent"}] /\ untold' \in [Queries -> BOOLEAN]
    BY <1>1, <2>1 DEF GiftInv, CacheInv
  <2>3. \A r \in Queries : r # q => reading'[r] = reading[r] /\ untold'[r] = untold[r]
    BY <2>1 DEF GiftInv, CacheInv
  <2>4. reading'[q] = gift.status
    BY <2>1 DEF GiftInv, CacheInv
  <2>5. \A r \in Queries : (~ untold[r] => Due(r)) => (~ untold'[r] => Due(r)')
    BY <1>1, <2>1, <2>3, <2>4 DEF Due
  <2> QED BY <1>1, <2>1, <2>2, <2>5 DEF GiftInv, CacheInv
<1>3. CASE ReadAnswered(q)
  <2>1. /\ reading[q] \notin {"none", "sent"} /\ untold' = untold
        /\ cached' = [cached EXCEPT ![q] = [data |-> reading[q], stale |-> FALSE]]
        /\ reading' = [reading EXCEPT ![q] = "none"]
    BY <1>3 DEF ReadAnswered
  <2>2. reading[q] \in Statuses
    BY <2>1 DEF GiftInv, CacheInv
  <2>3. /\ reading' \in [Queries -> Statuses \cup {"none", "sent"}]
        /\ cached' \in [Queries -> [data : Statuses \cup {"none"}, stale : BOOLEAN]]
    BY <2>1, <2>2 DEF GiftInv, CacheInv
  <2>4. /\ \A r \in Queries : r # q => reading'[r] = reading[r] /\ cached'[r] = cached[r]
        /\ cached'[q].data = reading[q] /\ reading'[q] = "none"
    BY <2>1 DEF GiftInv, CacheInv
  <2>5. \A r \in Queries : Due(r) => Due(r)'
    BY <1>1, <2>1, <2>4 DEF Due
  <2>6. \A r \in Queries : cached'[r].data = "none" => cached'[r].stale
    BY <2>2, <2>4 DEF GiftInv, CacheInv, Statuses
  <2> QED BY <1>1, <2>1, <2>3, <2>5, <2>6 DEF GiftInv, CacheInv
<1>4. CASE ReadFailed(q)
  <2>1. reading' = [reading EXCEPT ![q] = "none"] /\ untold' = [untold EXCEPT ![q] = TRUE] /\ cached' = cached
    BY <1>4 DEF ReadFailed
  <2>2. reading' \in [Queries -> Statuses \cup {"none", "sent"}] /\ untold' \in [Queries -> BOOLEAN]
    BY <2>1 DEF GiftInv, CacheInv
  <2>3. \A r \in Queries : r # q => reading'[r] = reading[r] /\ untold'[r] = untold[r]
    BY <2>1 DEF GiftInv, CacheInv
  <2>4. untold'[q]
    BY <2>1 DEF GiftInv, CacheInv
  <2>5. \A r \in Queries : (~ untold[r] => Due(r)) => (~ untold'[r] => Due(r)')
    BY <1>1, <2>1, <2>3, <2>4 DEF Due
  <2> QED BY <1>1, <2>1, <2>2, <2>5 DEF GiftInv, CacheInv
<1>5. CASE GetsStale(q)
  <2>1. cached' = [cached EXCEPT ![q].stale = TRUE] /\ UNCHANGED <<reading, untold>>
    BY <1>5 DEF GetsStale
  <2>2. /\ cached' \in [Queries -> [data : Statuses \cup {"none"}, stale : BOOLEAN]]
        /\ \A r \in Queries : cached'[r].data = cached[r].data /\ (cached[r].stale => cached'[r].stale)
    BY <2>1 DEF GiftInv, CacheInv
  <2>3. \A r \in Queries : Due(r) => Due(r)'
    BY <1>1, <2>1, <2>2 DEF Due
  <2> QED BY <1>1, <2>1, <2>2, <2>3 DEF GiftInv, CacheInv
<1> QED BY <1>2, <1>3, <1>4, <1>5

LEMMA NavigateStep == ASSUME GiftInv, Navigate PROVE CacheInv'
<1>1. /\ IF board.view = "list" THEN LeaveList ELSE LeaveDetail
      /\ reading' = [q \in Queries |-> IF q = board'.view /\ cached[q].stale /\ reading[q] = "none"
                                       THEN "sent" ELSE reading[q]]
      /\ UNCHANGED <<browser, gift, cached, heralds>>
  BY DEF Navigate
<1>2. /\ board \in Boards /\ untold \in [Queries -> BOOLEAN] /\ reading \in [Queries -> Statuses \cup {"none", "sent"}]
      /\ board.timer => board.view = "list"
      /\ board.modal => board.view = "detail"
  BY DEF GiftInv, CacheInv
<1>3. /\ board' \in Boards /\ ~ board'.timer /\ ~ board'.modal /\ board'.closing = board.closing
      /\ board'.view # board.view
  <2>1. CASE board.view = "list"
    BY <1>1, <1>2, <2>1 DEF LeaveList, Boards, Queries
  <2>2. CASE board.view # "list"
    BY <1>1, <1>2, <2>2 DEF LeaveDetail, Boards, Queries
  <2> QED BY <2>1, <2>2
<1>4. /\ untold' \in [Queries -> BOOLEAN] /\ \A q \in Queries : untold[q] => untold'[q]
      /\ board.timer => untold'["list"]
  <2>1. CASE board.view = "list"
    BY <1>1, <1>2, <2>1 DEF LeaveList, Boards, Queries
  <2>2. CASE board.view # "list"
    BY <1>1, <1>2, <2>2 DEF LeaveDetail, Boards, Queries
  <2> QED BY <2>1, <2>2
<1>5. reading' \in [Queries -> Statuses \cup {"none", "sent"}]
  BY <1>1, <1>2
<1>6. \A q \in Queries : (~ untold[q] => Due(q)) => (~ untold'[q] => Due(q)')
  <2> SUFFICES ASSUME NEW q \in Queries, Due(q), ~ untold'[q] PROVE Due(q)'
    BY <1>4
  <2>1. ~ (q = "list" /\ board.timer)
    BY <1>4
  <2>2. reading'[q] = IF q = board'.view /\ cached[q].stale /\ reading[q] = "none" THEN "sent" ELSE reading[q]
    BY <1>1
  <2>3. CASE reading[q] \in {"sent", gift.status} \/ heralds > 0 \/ board.closing = "served"
    BY <1>1, <1>3, <2>2, <2>3 DEF Due
  <2>4. CASE reading[q] = "none" /\ (cached[q].data = gift.status \/ (board.view # q /\ cached[q].stale))
    <3>1. CASE q = board'.view /\ cached[q].stale
      BY <2>2, <2>4, <3>1 DEF Due
    <3>2. CASE ~ (q = board'.view /\ cached[q].stale)
      BY <1>1, <2>2, <2>4, <3>2 DEF Due
    <3> QED BY <3>1, <3>2
  <2> QED BY <2>1, <2>3, <2>4 DEF Due
<1> QED BY <1>1, <1>3, <1>4, <1>5, <1>6 DEF GiftInv, CacheInv

LEMMA HeraldStep == ASSUME GiftInv, HeraldArrives PROVE CacheInv'
<1>1. heralds \in Nat /\ heralds' = heralds - 1 /\ heralds > 0 /\ UNCHANGED <<browser, gift>> /\ board \in Boards
  BY DEF HeraldArrives, GiftInv, CacheInv
<1>2. CASE board.view = "list"
  <2>1. /\ board' = [board EXCEPT !.timer = TRUE] /\ UNCHANGED <<cached, reading>>
        /\ untold' = [untold EXCEPT !["detail"] = untold["detail"] \/ cached["detail"].data # "none" \/ reading["detail"] # "none"]
    BY <1>2 DEF HeraldArrives
  <2>2. board' \in Boards /\ board'.timer /\ board'.view = "list" /\ board'.modal = board.modal
    BY <1>1, <1>2, <2>1 DEF Boards
  <2>3. untold' \in [Queries -> BOOLEAN]
    BY <2>1 DEF GiftInv, CacheInv, Queries
  <2>4. ~ untold'["detail"] => cached["detail"].data = "none" /\ reading["detail"] = "none"
    BY <2>1 DEF GiftInv, CacheInv, Queries
  <2>5. cached["detail"].data = "none" => cached["detail"].stale
    BY DEF GiftInv, CacheInv, Queries
  <2>6. Due("list")' /\ (~ untold'["detail"] => Due("detail")')
    BY <2>1, <2>2, <2>4, <2>5 DEF Due
  <2>7. \A q \in Queries : ~ untold'[q] => Due(q)'
    BY <2>6 DEF Queries
  <2> QED BY <1>1, <1>2, <2>1, <2>2, <2>3, <2>7 DEF GiftInv, CacheInv
<1>3. CASE board.view # "list"
  <2>1. /\ UNCHANGED <<board, cached>>
        /\ reading' = [reading EXCEPT !["detail"] = IF Joins("detail") THEN @ ELSE "sent"]
        /\ untold' = [q \in Queries |-> untold[q] \/ q = "list" \/ FirstRead(q)]
    BY <1>3 DEF HeraldArrives
  <2>2. /\ reading' \in [Queries -> Statuses \cup {"none", "sent"}]
        /\ ~ FirstRead("detail") => reading'["detail"] = "sent"
    BY <2>1 DEF GiftInv, CacheInv, Queries, Joins
  <2>3. untold' \in [Queries -> BOOLEAN] /\ untold'["list"] /\ (FirstRead("detail") => untold'["detail"])
    <3>1. \A q \in Queries : untold'[q] = (untold[q] \/ q = "list" \/ FirstRead(q))
      BY <2>1
    <3>2. \A q \in Queries : untold'[q] \in BOOLEAN
      BY <3>1 DEF GiftInv, CacheInv
    <3>3. untold' = [q \in Queries |-> untold'[q]]
      BY <2>1
    <3>4. untold' \in [Queries -> BOOLEAN]
      BY <3>2, <3>3
    <3>5. untold'["list"] /\ (FirstRead("detail") => untold'["detail"])
      BY <3>1 DEF Queries
    <3> QED BY <3>4, <3>5
  <2>4. ~ untold'["detail"] => Due("detail")'
    BY <2>2, <2>3 DEF Due
  <2>5. \A q \in Queries : ~ untold'[q] => Due(q)'
    BY <2>3, <2>4 DEF Queries
  <2> QED BY <1>1, <2>1, <2>2, <2>3, <2>5 DEF GiftInv, CacheInv
<1> QED BY <1>2, <1>3

\* invalidateQueries of qs, after which what the step relied on is over.
LEMMA InvalidateStep ==
    ASSUME GiftInv, NEW qs \in SUBSET Queries, Invalidate(qs), board' \in Boards, board'.view = board.view,
           UNCHANGED <<browser, gift, heralds>>, board'.modal => board.modal, board'.timer => board.timer,
           \A q \in Queries \ qs : /\ board.closing = "served" => board'.closing = "served"
                                   /\ q = "list" /\ board.timer => board'.timer
    PROVE  CacheInv'
<1> DEFINE read == {q \in qs : q = board'.view /\ ~ Joins(q)}
<1>1. /\ cached' = [q \in Queries |-> IF q \in qs THEN [cached[q] EXCEPT !.stale = TRUE] ELSE cached[q]]
      /\ reading' = [q \in Queries |-> IF q \in read THEN "sent" ELSE reading[q]]
  BY DEF Invalidate
<1>2. untold' = [q \in Queries |-> untold[q] \/ (q \in qs /\ reading[q] # "none" /\ (q # board'.view \/ FirstRead(q)))]
  BY DEF Invalidate
<1>3. \A q \in Queries : q \in read <=> q \in qs /\ q = board.view /\ ~ FirstRead(q)
  BY DEF Joins
<1> HIDE DEF read
<1>4. /\ cached \in [Queries -> [data : Statuses \cup {"none"}, stale : BOOLEAN]] /\ untold \in [Queries -> BOOLEAN]
      /\ reading \in [Queries -> Statuses \cup {"none", "sent"}]
  BY DEF GiftInv, CacheInv
<1>5. /\ cached' \in [Queries -> [data : Statuses \cup {"none"}, stale : BOOLEAN]]
      /\ \A q \in Queries : /\ cached'[q].data = cached[q].data
                            /\ cached[q].stale \/ q \in qs => cached'[q].stale
  BY <1>1, <1>4
<1>6. /\ reading' \in [Queries -> Statuses \cup {"none", "sent"}]
      /\ \A q \in Queries : reading'[q] = IF q \in read THEN "sent" ELSE reading[q]
  BY <1>1, <1>4
<1>7. /\ \A q \in Queries : untold'[q] <=> untold[q] \/ (q \in qs /\ reading[q] # "none" /\ (q # board.view \/ FirstRead(q)))
  BY <1>2
<1>8. untold' \in [Queries -> BOOLEAN]
  <2>1. \A q \in Queries : (untold[q] \/ (q \in qs /\ reading[q] # "none" /\ (q # board'.view \/ FirstRead(q)))) \in BOOLEAN
    BY <1>4
  <2> QED BY <1>2, <2>1, Zenon
<1>9. \A q \in Queries : (~ untold[q] => Due(q)) => (~ untold'[q] => Due(q)')
  <2> SUFFICES ASSUME NEW q \in Queries, Due(q), ~ untold'[q] PROVE Due(q)'
    BY <1>7
  <2>1. CASE q \in read
    BY <1>6, <2>1 DEF Due
  <2>2. CASE q \notin read /\ q \in qs
    <3>1. reading[q] = "none" /\ q # board.view
      BY <1>3, <1>7, <2>2 DEF FirstRead
    <3> QED BY <1>5, <1>6, <2>2, <3>1 DEF Due
  <2>3. CASE q \notin read /\ q \notin qs
    BY <1>5, <1>6, <2>3 DEF Due
  <2> QED BY <2>1, <2>2, <2>3
<1> QED BY <1>5, <1>6, <1>8, <1>9 DEF GiftInv, CacheInv

LEMMA CacheStep == ASSUME GiftInv, [GiftNext]_giftVars PROVE CacheInv'
<1>1. ASSUME NEW t \in ClaimTabs, browser = "claimer",
             ClaimPageLoaded(t) \/ OpensItself(t) \/ AmountAnswered(t) \/ HandleClaim(t) \/ ClaimAnswered(t)
      PROVE  CacheInv'
  <2>1. UNCHANGED <<cached, reading, board, heralds, untold, browser>>
    BY <1>1 DEF ClaimPageLoaded, OpensItself, AmountAnswered, HandleClaim, ClaimAnswered, ownerVars
  <2> QED BY <1>1, <2>1 DEF GiftInv, CacheInv
<1>2. CASE EndsSilently
  <2>1. /\ UNCHANGED <<browser, cached, reading, board, heralds>>
        /\ untold' = [q \in Queries |-> browser = "owner"]
    BY <1>2 DEF EndsSilently
  <2>2. untold' \in [Queries -> BOOLEAN]
    <3>1. (browser = "owner") \in BOOLEAN
      OBVIOUS
    <3> QED BY <2>1, <3>1
  <2>3. browser = "owner" => \A q \in Queries : untold'[q]
    BY <2>1
  <2> QED BY <2>1, <2>2, <2>3 DEF GiftInv, CacheInv
<1>3. CASE GiftDecided
  <2>1. UNCHANGED <<browser, cached, reading, board, untold>> /\ heralds' = heralds + 1 /\ heralds \in Nat
    BY <1>3 DEF GiftDecided, GiftInv, CacheInv
  <2>2. \A q \in Queries : Due(q)'
    BY <2>1 DEF Due
  <2> QED BY <2>1, <2>2 DEF GiftInv, CacheInv
<1>4. CASE DebounceFires
  <2>1. board' = [board EXCEPT !.timer = FALSE] /\ Invalidate({"list"}) /\ UNCHANGED <<browser, gift, heralds>>
    BY <1>4 DEF DebounceFires
  <2>2. /\ board' \in Boards /\ board'.view = board.view /\ board'.modal = board.modal /\ ~ board'.timer
        /\ board'.closing = board.closing
    BY <2>1 DEF GiftInv, CacheInv, Boards
  <2> QED BY <2>1, <2>2, InvalidateStep DEF Queries
<1>5. CASE CloseModal
  <2>1. /\ board.view = "detail" /\ board.closing = "none" /\ UNCHANGED <<browser, gift, cached, reading, heralds, untold>>
        /\ \/ board' = [board EXCEPT !.modal = TRUE] \/ board' = [board EXCEPT !.modal = FALSE]
           \/ board' = [board EXCEPT !.modal = FALSE, !.closing = "sent"]
    BY <1>5 DEF CloseModal
  <2>2. board' \in Boards /\ board'.view = board.view /\ board'.timer = board.timer
    BY <2>1 DEF GiftInv, CacheInv, Boards
  <2>3. \A q \in Queries : Due(q) => Due(q)'
    BY <2>1, <2>2 DEF Due
  <2> QED BY <2>1, <2>2, <2>3 DEF GiftInv, CacheInv
<1>6. CASE CloseServed
  <2>1. board' = [board EXCEPT !.closing = "served"] /\ UNCHANGED <<browser, cached, reading, heralds, untold>>
    BY <1>6 DEF CloseServed
  <2>2. board' \in Boards /\ board'.view = board.view /\ board'.timer = board.timer /\ board'.modal = board.modal
        /\ board'.closing = "served"
    BY <2>1 DEF GiftInv, CacheInv, Boards
  <2>3. \A q \in Queries : Due(q)'
    BY <2>2 DEF Due
  <2> QED BY <2>1, <2>2, <2>3 DEF GiftInv, CacheInv
<1>7. CASE CloseSucceeds
  <2>1. board' = [board EXCEPT !.closing = "none"] /\ Invalidate(Queries) /\ UNCHANGED <<browser, gift, heralds>>
    BY <1>7 DEF CloseSucceeds
  <2>2. /\ board' \in Boards /\ board'.view = board.view /\ board'.modal = board.modal /\ board'.timer = board.timer
    BY <2>1 DEF GiftInv, CacheInv, Boards
  <2> QED BY <2>1, <2>2, InvalidateStep
<1>8. CASE CloseFails
  <2>1. /\ board' = [board EXCEPT !.closing = "none"] /\ UNCHANGED <<browser, gift, cached, reading, heralds>>
        /\ untold' = [q \in Queries |-> untold[q] \/ board.closing = "served"]
    BY <1>8 DEF CloseFails
  <2>2. board' \in Boards /\ board'.view = board.view /\ board'.timer = board.timer /\ board'.modal = board.modal
    BY <2>1 DEF GiftInv, CacheInv, Boards
  <2>3. untold' \in [Queries -> BOOLEAN]
    <3>1. \A q \in Queries : (untold[q] \/ board.closing = "served") \in BOOLEAN
      OBVIOUS
    <3> QED BY <2>1, <3>1, Zenon
  <2>4. \A q \in Queries : (~ untold[q] => Due(q)) => (~ untold'[q] => Due(q)')
    BY <2>1, <2>2 DEF Due
  <2> QED BY <2>1, <2>2, <2>3, <2>4 DEF GiftInv, CacheInv
<1>9. CASE browser = "claimer" /\ (OthersOpen \/ QueueExpires)
  <2>1. UNCHANGED <<cached, reading, board, heralds, untold, browser>>
    BY <1>9 DEF OthersOpen, QueueExpires, ownerVars
  <2> QED BY <1>9, <2>1 DEF GiftInv, CacheInv
<1>10. CASE UNCHANGED giftVars
  BY <1>10, CacheKept DEF giftVars, GiftInv
<1> QED BY <1>1, <1>2, <1>3, <1>4, <1>5, <1>6, <1>7, <1>8, <1>9, <1>10, ReadSteps, NavigateStep, HeraldStep DEF GiftNext

(* The inductive invariant of the pages of a session.                        *)
THEOREM GiftAlways == GiftSpec => []GiftInv
<1>1. GiftInit => ShownInv
  <2> SUFFICES ASSUME GiftInit PROVE ShownInv
    OBVIOUS
  <2>1. gift \in Gifts /\ gift.reserved = 0 /\ gift.claim = "none"
    BY GiftAssumption DEF GiftInit, Gifts, Statuses, Positive
  <2>2. opening \in [ClaimTabs -> Openings] /\ \A t \in ClaimTabs : opening[t] = NewOpening
    BY DEF GiftInit, NewOpening, Openings
  <2> QED BY <2>1, <2>2 DEF GiftInit, ShownInv, NewOpening
<1>2. GiftInit => CacheInv
  <2> SUFFICES ASSUME GiftInit PROVE CacheInv
    OBVIOUS
  <2>1. cached \in [Queries -> [data : Statuses \cup {"none"}, stale : BOOLEAN]] /\ \A q \in Queries : cached[q].stale
    BY DEF GiftInit
  <2>2. reading \in [Queries -> Statuses \cup {"none", "sent"}] /\ reading["list"] = "sent" /\ reading["detail"] = "none"
    BY DEF GiftInit, Queries
  <2>3. board \in Boards /\ ~ board.timer /\ ~ board.modal /\ board.view = "list"
    BY DEF GiftInit, Boards, Queries
  <2>4. Due("list") /\ Due("detail")
    BY <2>1, <2>2, <2>3 DEF Due, Queries
  <2>5. heralds \in Nat /\ untold \in [Queries -> BOOLEAN]
    BY DEF GiftInit
  <2> QED BY <2>5, <2>1, <2>2, <2>3, <2>4 DEF CacheInv, Queries
<1>3. GiftInv /\ [GiftNext]_giftVars => GiftInv'
  BY ShownStep, CacheStep DEF GiftInv
<1> QED BY <1>1, <1>2, <1>3, PTL DEF GiftSpec, GiftInv

(* Types of the pages of a session, the debounce only on the list.           *)
THEOREM GiftTypeCorrect == GiftSpec => []GiftTypeOK
<1>1. GiftInv => GiftTypeOK
  <2> SUFFICES ASSUME GiftInv PROVE GiftTypeOK
    OBVIOUS
  <2>1. \A q \in Queries : cached[q].data \in Statuses \cup {"none"} /\ reading[q] \in Statuses \cup {"none", "sent"}
    BY DEF GiftInv, CacheInv
  <2>2. gift.status \in Statuses /\ gift.claim \in {"none", "SUCCESS", "FAILED"}
    BY DEF GiftInv, ShownInv, Gifts
  <2> QED BY <2>1, <2>2 DEF GiftInv, ShownInv, CacheInv, GiftTypeOK
<1> QED BY <1>1, GiftAlways, PTL

(* A user is paid what every page of his has shown him.                      *)
THEOREM PaidAsShown == GiftSpec => []ClaimedAsShown
<1>1. GiftInv => ClaimedAsShown
  BY DEF GiftInv, ShownInv, ClaimedAsShown
<1> QED BY <1>1, GiftAlways, PTL

(* At rest the owner's page shows the status the service has.                *)
THEOREM StatusAlwaysAnnounced == GiftSpec => []StatusAsAnnounced
<1>1. GiftInv => StatusAsAnnounced
  <2> SUFFICES ASSUME GiftInv, NEW q \in Queries, browser = "owner", board.view = q, reading[q] = "none",
                      heralds = 0, ~ board.timer, board.closing = "none", ~ untold[q]
               PROVE  cached[q].data = gift.status
    BY DEF StatusAsAnnounced
  <2>1. Due(q) /\ gift.status \in Statuses
    BY DEF GiftInv, CacheInv, ShownInv, Gifts
  <2> QED BY <2>1 DEF Due, Statuses
<1> QED BY <1>1, GiftAlways, PTL

-----------------------------------------------------------------------------
(* The pages that send money (MoneyDialogs).                               *)

Funds == 0..MaxFunds
Pages == [kind : PageKinds, open : BOOLEAN, visits : Nat, confirms : Nat, amount : Funds, key : BOOLEAN,
          known : Funds, receipt : BOOLEAN]
Payments == {NoPayment} \cup [step : {"nonce"}, amount : Funds] \cup [step : {"post"}, amount : Funds, nonce : Nat]
Purses == [funds : Funds, nonce : Nat, sent : Funds]

\* The amount in the form is what is sent, unless everything is withdrawn.
Named == paying.kind # "transfer" /\ (paying.kind = "withdraw" => paying.amount > 0)

\* While a transfer is under way its form keeps its amount, and no receipt is shown.
MoneyInv ==
    /\ paying \in Pages /\ payment \in Payments /\ purse \in Purses /\ cut \in BOOLEAN
    /\ paying.key => paying.kind = "withdraw"
    /\ paying.kind = "transfer" => paying.open /\ ~ paying.receipt
    /\ Loading => ~ paying.receipt
    /\ Loading /\ ~ cut /\ Named => payment.amount = paying.amount
    /\ ReceiptIsTrue

LEMMA MoneyNumbers == MoneyAssumption => MaxFunds \in Nat /\ 0 \in Funds /\ Funds \subseteq Nat
BY DEF MoneyAssumption, Funds

\* A step of the page alone.
LEMMA PageMoves ==
    ASSUME MoneyAssumption, MoneyInv, paying' \in Pages, UNCHANGED <<payment, purse>>, cut' \in BOOLEAN,
           cut => cut', paying'.kind = paying.kind, paying'.key => paying.kind = "withdraw",
           paying.kind = "transfer" => paying'.open /\ ~ paying'.receipt,
           paying'.receipt => paying.receipt /\ paying'.amount = paying.amount,
           Loading /\ ~ cut' /\ paying.kind # "transfer" => paying'.amount = paying.amount
    PROVE  MoneyInv'
<1>1. Loading' <=> Loading
  BY DEF Loading
<1>2. Loading /\ ~ cut' /\ Named' => payment.amount = paying'.amount
  BY DEF MoneyInv, Named
<1>3. ReceiptIsTrue'
  <2> SUFFICES ASSUME paying'.receipt, ~ cut', paying'.kind = "withdraw" => paying'.amount > 0
               PROVE  AmountToSend(paying)' = purse'.sent
    BY DEF ReceiptIsTrue
  <2>1. AmountToSend(paying) = purse.sent
    BY DEF MoneyInv, ReceiptIsTrue
  <2>2. paying.amount \in Nat
    BY MoneyNumbers DEF MoneyInv, Pages
  <2>3. AmountToSend(paying) = paying.amount /\ AmountToSend(paying)' = paying'.amount
    BY <2>2 DEF AmountToSend
  <2> QED BY <2>1, <2>3
<1> QED BY <1>1, <1>2, <1>3 DEF MoneyInv

LEMMA PageSteps ==
    ASSUME MoneyAssumption, MoneyInv,
           OpenDialog \/ CloseDialog \/ CloseReceipt \/ PurseRead \/ TypeMoney \/ TypeKey
    PROVE  MoneyInv'
<1>1. paying \in Pages /\ cut \in BOOLEAN /\ purse.funds \in Funds /\ 0 \in Funds
  BY MoneyNumbers DEF MoneyInv, Purses
<1>2. CASE OpenDialog
  <2>1. /\ ~ paying.open /\ cut' = (cut \/ (Loading /\ paying.kind = "donate")) /\ UNCHANGED <<payment, purse>>
        /\ paying' = [paying EXCEPT !.open = TRUE, !.visits = @ + 1,
                         !.amount = IF paying.kind = "donate" THEN 0 ELSE @,
                         !.receipt = IF paying.kind = "donate" THEN FALSE ELSE @]
    BY <1>2 DEF OpenDialog
  <2>2. /\ paying' \in Pages /\ paying'.kind = paying.kind /\ paying'.key = paying.key
        /\ paying'.receipt => paying.receipt /\ paying'.amount = paying.amount
        /\ paying.kind # "donate" => paying'.amount = paying.amount
    <3>1. CASE paying.kind = "donate"
      <4>1. paying' = [paying EXCEPT !.open = TRUE, !.visits = @ + 1, !.amount = 0, !.receipt = FALSE]
        BY <2>1, <3>1
      <4>2. paying.visits + 1 \in Nat /\ paying.kind \in PageKinds
        BY <1>1 DEF Pages
      <4>3. paying' \in Pages
        BY <1>1, <4>1, <4>2 DEF Pages
      <4> QED BY <1>1, <3>1, <4>1, <4>3 DEF Pages
    <3>2. CASE paying.kind # "donate"
      <4>1. paying' = [paying EXCEPT !.open = TRUE, !.visits = @ + 1, !.amount = paying.amount,
                                     !.receipt = paying.receipt]
        BY <2>1, <3>2
      <4>2. paying.visits + 1 \in Nat /\ paying.amount \in Funds /\ paying.receipt \in BOOLEAN
        BY <1>1 DEF Pages
      <4>3. paying' \in Pages
        BY <1>1, <4>1, <4>2 DEF Pages
      <4> QED BY <1>1, <4>1, <4>3 DEF Pages
    <3> QED BY <3>1, <3>2
  <2>3. cut' \in BOOLEAN /\ (cut => cut') /\ (Loading /\ ~ cut' => paying.kind # "donate")
    BY <1>1, <2>1
  <2>4. paying.kind # "transfer"
    BY <2>1 DEF MoneyInv
  <2> QED BY <2>1, <2>2, <2>3, <2>4, PageMoves DEF MoneyInv
<1>3. CASE CloseDialog
  <2>1. /\ paying.kind # "transfer" /\ UNCHANGED <<payment, purse, cut>> /\ paying' = [paying EXCEPT !.open = FALSE]
    BY <1>3 DEF CloseDialog
  <2>2. /\ paying' \in Pages /\ paying'.kind = paying.kind /\ paying'.key = paying.key
        /\ paying'.receipt = paying.receipt /\ paying'.amount = paying.amount
    BY <1>1, <2>1 DEF Pages
  <2> QED BY <1>1, <2>1, <2>2, PageMoves DEF MoneyInv
<1>4. CASE CloseReceipt
  <2>1. /\ paying.receipt /\ UNCHANGED <<payment, purse, cut>>
        /\ \/ paying' = [paying EXCEPT !.open = FALSE, !.receipt = FALSE, !.amount = 0, !.key = FALSE]
           \/ paying' = [paying EXCEPT !.open = FALSE]
    BY <1>4 DEF CloseReceipt
  <2>2. /\ paying' \in Pages /\ paying'.kind = paying.kind /\ (paying'.key => paying.key)
        /\ paying'.receipt => paying.receipt /\ paying'.amount = paying.amount
    BY <1>1, <2>1 DEF Pages
  <2>3. ~ Loading /\ paying.kind # "transfer"
    BY <2>1 DEF MoneyInv
  <2> QED BY <1>1, <2>1, <2>2, <2>3, PageMoves DEF MoneyInv
<1>5. ASSUME NEW a \in Funds, paying' = [paying EXCEPT !.amount = a], TypeMoney PROVE MoneyInv'
  <2>1. ~ paying.receipt /\ (Loading => paying.kind = "transfer") /\ UNCHANGED <<payment, purse, cut>>
    BY <1>5 DEF TypeMoney
  <2>2. /\ paying' \in Pages /\ paying'.kind = paying.kind /\ paying'.key = paying.key
        /\ paying'.receipt = paying.receipt /\ paying'.open = paying.open
    BY <1>1, <1>5 DEF Pages
  <2> QED BY <1>1, <2>1, <2>2, PageMoves DEF MoneyInv
<1>6. CASE PurseRead
  <2>1. paying' = [paying EXCEPT !.known = purse.funds] /\ UNCHANGED <<payment, purse, cut>>
    BY <1>6 DEF PurseRead
  <2>2. /\ paying' \in Pages /\ paying'.kind = paying.kind /\ paying'.key = paying.key
        /\ paying'.receipt = paying.receipt /\ paying'.open = paying.open /\ paying'.amount = paying.amount
    BY <1>1, <2>1 DEF Pages
  <2> QED BY <1>1, <2>1, <2>2, PageMoves DEF MoneyInv
<1>7. CASE TypeKey
  <2>1. paying.kind = "withdraw" /\ paying' = [paying EXCEPT !.key = TRUE] /\ UNCHANGED <<payment, purse, cut>>
    BY <1>7 DEF TypeKey
  <2>2. /\ paying' \in Pages /\ paying'.kind = paying.kind
        /\ paying'.receipt = paying.receipt /\ paying'.open = paying.open /\ paying'.amount = paying.amount
    BY <1>1, <2>1 DEF Pages
  <2> QED BY <1>1, <2>1, <2>2, PageMoves DEF MoneyInv
<1> QED BY <1>2, <1>3, <1>4, <1>5, <1>6, <1>7 DEF TypeMoney, Funds

LEMMA ConfirmStep == ASSUME MoneyAssumption, MoneyInv, ConfirmPayment PROVE MoneyInv'
<1>1. /\ ~ paying.receipt /\ payment' = [step |-> "nonce", amount |-> AmountToSend(paying)]
      /\ paying' = [paying EXCEPT !.confirms = @ + 1] /\ UNCHANGED <<purse, cut>>
  BY DEF ConfirmPayment
<1>2. paying \in Pages /\ paying.amount \in Nat
  BY MoneyNumbers DEF MoneyInv, Pages
<1>3. /\ paying' \in Pages /\ paying'.kind = paying.kind /\ paying'.key = paying.key /\ paying'.amount = paying.amount
      /\ paying'.receipt = paying.receipt /\ paying'.open = paying.open
  BY <1>1, <1>2 DEF Pages
<1>4. AmountToSend(paying) \in Funds /\ (Named => AmountToSend(paying) = paying.amount)
  BY <1>2 DEF AmountToSend, Named, Pages
<1>5. payment' \in Payments /\ payment'.amount = AmountToSend(paying)
  BY <1>1, <1>4 DEF Payments
<1>6. Named' <=> Named
  BY <1>3 DEF Named
<1>7. ReceiptIsTrue'
  BY <1>1, <1>3 DEF ReceiptIsTrue
<1> QED BY <1>1, <1>3, <1>4, <1>5, <1>6, <1>7 DEF MoneyInv

LEMMA PostedStep == ASSUME MoneyAssumption, MoneyInv, PaymentPosted PROVE MoneyInv'
<1>1. /\ payment.step = "post" /\ payment' = NoPayment /\ cut' = cut /\ ~ Loading'
      /\ \/ UNCHANGED <<purse, paying>>
         \/ /\ payment.amount <= purse.funds
            /\ purse' = [funds |-> purse.funds - payment.amount, nonce |-> payment.nonce, sent |-> payment.amount]
            /\ paying' \in {paying, PaymentDone(paying)}
  BY DEF PaymentPosted, Loading
<1>2. payment \in [step : {"post"}, amount : Funds, nonce : Nat] /\ Loading
  BY <1>1 DEF MoneyInv, Payments, NoPayment, Loading
<1>3. ~ paying.receipt /\ paying \in Pages /\ purse \in Purses /\ payment' \in Payments
  BY <1>1, <1>2 DEF MoneyInv, Payments
<1>4. CASE UNCHANGED <<purse, paying>>
  BY <1>1, <1>3, <1>4 DEF MoneyInv, ReceiptIsTrue
<1>5. CASE /\ payment.amount <= purse.funds
           /\ purse' = [funds |-> purse.funds - payment.amount, nonce |-> payment.nonce, sent |-> payment.amount]
           /\ paying' \in {paying, PaymentDone(paying)}
  <2>1. purse.funds \in 0..MaxFunds /\ payment.amount \in 0..MaxFunds /\ payment.nonce \in Nat /\ MaxFunds \in Nat
    BY <1>2, <1>3, MoneyNumbers DEF Purses, Funds
  <2>2. purse.funds - payment.amount \in 0..MaxFunds
    BY <1>5, <2>1
  <2>3. purse' \in Purses /\ purse'.sent = payment.amount
    BY <1>5, <2>1, <2>2 DEF Purses, Funds
  <2>4. /\ paying' \in Pages /\ paying'.kind = paying.kind /\ paying'.key = paying.key /\ paying'.open = paying.open
        /\ paying'.receipt => paying.kind # "transfer" /\ paying'.amount = paying.amount
    <3>1. 0 \in Funds
      BY MoneyNumbers
    <3> QED BY <1>3, <1>5, <3>1 DEF PaymentDone, Pages
  <2>5. ReceiptIsTrue'
    <3> SUFFICES ASSUME paying'.receipt, ~ cut, paying'.kind = "withdraw" => paying'.amount > 0
                 PROVE  AmountToSend(paying)' = purse'.sent
      BY <1>1 DEF ReceiptIsTrue
    <3>1. Named
      BY <2>4 DEF Named
    <3>2. payment.amount = paying.amount
      BY <1>2, <3>1 DEF MoneyInv
    <3>3. paying'.amount \in Nat
      BY <2>4, MoneyNumbers DEF Pages
    <3>4. AmountToSend(paying)' = paying'.amount
      BY <3>3 DEF AmountToSend
    <3> QED BY <2>3, <2>4, <3>2, <3>4
  <2> QED BY <1>1, <1>3, <2>3, <2>4, <2>5 DEF MoneyInv
<1> QED BY <1>1, <1>4, <1>5

LEMMA MoneyStep == ASSUME MoneyAssumption, MoneyInv, [MoneyNext]_moneyVars PROVE MoneyInv'
<1>1. CASE PaymentNonce
  <2>1. /\ payment.step = "nonce" /\ UNCHANGED <<paying, purse, cut>>
        /\ payment' = [step |-> "post", amount |-> payment.amount, nonce |-> purse.nonce + 1]
    BY <1>1 DEF PaymentNonce
  <2>2. payment \in [step : {"nonce"}, amount : Funds] /\ Loading /\ purse.nonce \in Nat
    BY <2>1 DEF MoneyInv, Payments, NoPayment, Loading, Purses
  <2>3. payment' \in Payments /\ payment'.amount = payment.amount
    BY <2>1, <2>2 DEF Payments
  <2> QED BY <2>1, <2>2, <2>3 DEF MoneyInv, Named, ReceiptIsTrue, AmountToSend
<1>2. CASE PurseChanges
  <2>1. UNCHANGED <<paying, payment, cut>> /\ \E f \in Funds : purse' = [purse EXCEPT !.funds = f, !.nonce = @ + 1]
    BY <1>2 DEF PurseChanges, Funds
  <2>2. purse' \in Purses /\ purse'.sent = purse.sent
    <3>1. PICK f \in Funds : purse' = [purse EXCEPT !.funds = f, !.nonce = @ + 1]
      BY <2>1
    <3>2. purse \in Purses
      BY DEF MoneyInv
    <3>3. purse.nonce + 1 \in Nat
      BY <3>2 DEF Purses
    <3> QED BY <3>1, <3>2, <3>3 DEF Purses
  <2> QED BY <2>1, <2>2 DEF MoneyInv, Named, ReceiptIsTrue, AmountToSend, Loading
<1>3. CASE UNCHANGED moneyVars
  BY <1>3 DEF moneyVars, MoneyInv, Named, ReceiptIsTrue, AmountToSend, Loading
<1> QED BY <1>1, <1>2, <1>3, PageSteps, ConfirmStep, PostedStep DEF MoneyNext

(* The inductive invariant of the pages that send money.                     *)
THEOREM MoneyAlways == MoneySpec => []MoneyInv
<1>1. MoneyInit => MoneyInv
  <2> SUFFICES ASSUME MoneyInit PROVE MoneyInv
    OBVIOUS
  <2>1. MaxFunds \in Funds /\ 0 \in Funds
    BY MoneyAssumption, MoneyNumbers DEF Funds
  <2>2. paying \in Pages /\ ~ paying.receipt /\ ~ paying.key /\ (paying.kind = "transfer" => paying.open)
    <3>1. PICK k \in PageKinds :
            paying = [kind |-> k, open |-> k = "transfer", visits |-> 0, confirms |-> 0,
                      amount |-> 0, key |-> FALSE, known |-> 0, receipt |-> FALSE]
      BY DEF MoneyInit
    <3>2. (k = "transfer") \in BOOLEAN
      OBVIOUS
    <3> QED BY <2>1, <3>1, <3>2 DEF Pages
  <2>3. payment \in Payments /\ ~ Loading /\ purse \in Purses /\ cut = FALSE
    BY <2>1 DEF MoneyInit, Payments, Loading, Purses
  <2> QED BY <2>2, <2>3 DEF MoneyInv, ReceiptIsTrue
<1>2. MoneyInv /\ [MoneyNext]_moneyVars => MoneyInv'
  BY MoneyAssumption, MoneyStep
<1> QED BY <1>1, <1>2, PTL DEF MoneySpec

(* Types of the money pages; a key only for a withdrawal.                    *)
THEOREM MoneyTypeCorrect == MoneySpec => []MoneyTypeOK
<1>1. MoneyInv => MoneyTypeOK
  <2> SUFFICES ASSUME MoneyInv PROVE MoneyTypeOK
    OBVIOUS
  <2>1. payment.step \in {"none", "nonce", "post"}
    BY DEF MoneyInv, Payments, NoPayment
  <2> QED BY <2>1 DEF MoneyInv, MoneyTypeOK, Pages, Purses, Funds
<1> QED BY <1>1, MoneyAlways, PTL

(* A receipt names the amount that was sent, for any amounts and visits.     *)
THEOREM ReceiptAlwaysTrue == MoneySpec => []ReceiptIsTrue
<1>1. MoneyInv => ReceiptIsTrue
  BY DEF MoneyInv
<1> QED BY <1>1, MoneyAlways, PTL

-----------------------------------------------------------------------------
(* The search box (GlobalSearch).                                          *)

Texts == Terms \cup {EmptyBox}
Boxes == [isSheetOpen : BOOLEAN, query : Texts, debounced : Texts, isLoading : BOOLEAN, searchResults : Texts]

\* The live request is that of the text searched last, and what it has not brought
\* is on its way, missed, or shown.
LiveIsOfTheText ==
    /\ live = 0 => box.debounced = EmptyBox
    /\ live # 0 => searches[live] = box.debounced
    /\ ~ settling => box.query = box.debounced
    /\ box.searchResults \in {EmptyBox, box.debounced} \/ box.isLoading
    /\ box.debounced # EmptyBox /\ live \notin pending =>
         ~ box.isLoading /\ (missed \/ box.searchResults = box.debounced)

SearchInv ==
    /\ box \in Boxes /\ settling \in BOOLEAN /\ searches \in Seq(Terms) /\ Len(searches) <= MaxSearches
    /\ pending \subseteq 1..Len(searches) /\ live \in 0..Len(searches) /\ missed \in BOOLEAN
    /\ ~ box.isSheetOpen => box.query = EmptyBox
    /\ LiveIsOfTheText

\* A text that is asked for comes behind those before it.
LEMMA AsksGrow ==
    ASSUME NEW s \in Seq(Terms), NEW q \in Terms
    PROVE  /\ Append(s, q) \in Seq(Terms) /\ Len(s) \in Nat /\ Len(Append(s, q)) = Len(s) + 1
           /\ Append(s, q)[Len(s) + 1] = q
<1>1. Append(s, q) \in Seq(Terms) /\ Len(Append(s, q)) = Len(s) + 1 /\ Append(s, q)[Len(s) + 1] = q
  BY AppendProperties
<1>2. Len(s) \in Nat
  BY LenProperties
<1> QED BY <1>1, <1>2

\* What is asked for next is asked for last.
LEMMA Asks ==
    ASSUME SearchAssumption, SearchInv, settling, box.query # EmptyBox, box.query # box.debounced, RunSearch
    PROVE  SearchInv'
<1>1. /\ settling' = FALSE /\ missed' = FALSE /\ Len(searches) < MaxSearches
      /\ box' = [box EXCEPT !.debounced = box.query, !.isLoading = TRUE]
      /\ searches' = Append(searches, box.query)
      /\ live' = Len(searches') /\ pending' = pending \cup {live'}
  BY DEF RunSearch
<1>2. box \in Boxes /\ box.query \in Terms /\ searches \in Seq(Terms) /\ MaxSearches \in Nat
  BY DEF SearchInv, Boxes, Texts, SearchAssumption
<1>3. /\ box' \in Boxes /\ box'.isSheetOpen = box.isSheetOpen /\ box'.query = box.query /\ box'.debounced = box.query
      /\ box'.isLoading
  BY <1>1, <1>2 DEF Boxes, Texts
<1>4. /\ searches' \in Seq(Terms) /\ Len(searches') = Len(searches) + 1 /\ Len(searches) \in Nat
      /\ searches'[Len(searches) + 1] = box.query
  BY <1>1, <1>2, AsksGrow
<1>5. /\ live' = Len(searches) + 1 /\ live' \in pending' /\ live' \in 0..Len(searches') /\ live' # 0
      /\ Len(searches') <= MaxSearches
  <2> DEFINE n == Len(searches)
  <2>1. live' = n + 1 /\ live' \in pending'
    BY <1>1, <1>4
  <2>2. n \in Nat /\ n < MaxSearches /\ MaxSearches \in Nat /\ Len(searches') = n + 1
    BY <1>1, <1>2, <1>4
  <2> HIDE DEF n
  <2>3. n + 1 \in 0..(n + 1) /\ n + 1 # 0 /\ n + 1 <= MaxSearches
    BY <2>2
  <2> QED BY <2>1, <2>2, <2>3 DEF n
<1>6. pending' \subseteq 1..Len(searches')
  <2>1. pending \subseteq 1..Len(searches)
    BY DEF SearchInv
  <2> DEFINE n == Len(searches)
  <2>2. n \in Nat /\ Len(searches') = n + 1 /\ pending' = pending \cup {n + 1} /\ pending \subseteq 1..n
    BY <1>1, <1>4, <1>5, <2>1
  <2> HIDE DEF n
  <2>3. 1..n \subseteq 1..(n + 1) /\ n + 1 \in 1..(n + 1)
    BY <2>2
  <2> QED BY <2>2, <2>3
<1>7. LiveIsOfTheText'
  BY <1>1, <1>3, <1>4, <1>5 DEF LiveIsOfTheText
<1> QED BY <1>1, <1>3, <1>4, <1>5, <1>6, <1>7 DEF SearchInv

LEMMA Answers ==
    ASSUME SearchAssumption, SearchInv, NEW c \in 1..MaxSearches, SearchAnswered(c)
    PROVE  SearchInv'
<1>1. c \in pending /\ pending' = pending \ {c} /\ UNCHANGED <<settling, searches, live>>
  BY DEF SearchAnswered
<1>2. pending' \subseteq 1..Len(searches')
  BY <1>1 DEF SearchInv
<1>3. CASE c # live
  <2>1. UNCHANGED <<box, missed>> /\ (live \in pending' <=> live \in pending)
    BY <1>1, <1>3 DEF SearchAnswered, IsCurrent
  <2> QED BY <1>1, <1>2, <2>1 DEF SearchInv, LiveIsOfTheText
<1>4. CASE c = live
  <2>1. PICK ok \in BOOLEAN : /\ box' = [box EXCEPT !.searchResults = IF ok THEN searches[c] ELSE EmptyBox, !.isLoading = FALSE]
                              /\ missed' = ~ ok
    BY <1>4 DEF SearchAnswered, IsCurrent
  <2>2. live # 0 /\ box \in Boxes /\ searches[c] = box.debounced /\ box.debounced \in Texts /\ EmptyBox \in Texts
    <3>1. live # 0
      BY <1>4, SearchAssumption DEF SearchAssumption
    <3>2. box \in Boxes /\ searches[c] = box.debounced
      BY <1>4, <3>1 DEF SearchInv, LiveIsOfTheText
    <3> QED BY <3>1, <3>2 DEF Boxes, Texts
  <2>3. /\ box' \in Boxes /\ box'.isSheetOpen = box.isSheetOpen /\ box'.query = box.query
        /\ box'.debounced = box.debounced /\ ~ box'.isLoading
    BY <2>1, <2>2 DEF Boxes
  <2>4. box'.searchResults = (IF ok THEN box.debounced ELSE EmptyBox)
    BY <2>1, <2>2 DEF Boxes
  <2>5. LiveIsOfTheText'
    BY <1>1, <2>1, <2>3, <2>4 DEF SearchInv, LiveIsOfTheText
  <2> QED BY <1>1, <1>2, <2>1, <2>3, <2>5 DEF SearchInv
<1> QED BY <1>3, <1>4

LEMMA SearchStep == ASSUME SearchAssumption, SearchInv, [SearchNext]_searchVars PROVE SearchInv'
<1>0. box \in Boxes /\ EmptyBox \in Texts
  BY DEF SearchInv, Texts
<1>1. CASE OpenSheet
  <2>1. UNCHANGED <<settling, searches, pending, live, missed>> /\ box' = [box EXCEPT !.isSheetOpen = TRUE]
    BY <1>1 DEF OpenSheet
  <2>2. /\ box' \in Boxes /\ box'.query = box.query /\ box'.debounced = box.debounced /\ box'.isLoading = box.isLoading
        /\ box'.searchResults = box.searchResults /\ box'.isSheetOpen
    BY <1>0, <2>1 DEF Boxes
  <2> QED BY <2>1, <2>2 DEF SearchInv, LiveIsOfTheText
<1>2. CASE CloseSheet
  <2>1. /\ UNCHANGED <<searches, pending, live>> /\ missed' = TRUE /\ settling' = (settling \/ EmptyBox # box.query)
        /\ box' = [box EXCEPT !.isSheetOpen = FALSE, !.query = EmptyBox, !.searchResults = EmptyBox]
    BY <1>2 DEF CloseSheet, Retyped
  <2>2. /\ box' \in Boxes /\ box'.query = EmptyBox /\ box'.debounced = box.debounced /\ box'.isLoading = box.isLoading
        /\ box'.searchResults = EmptyBox
    BY <1>0, <2>1 DEF Boxes
  <2>3. LiveIsOfTheText'
    BY <2>1, <2>2 DEF SearchInv, LiveIsOfTheText
  <2> QED BY <2>1, <2>2, <2>3 DEF SearchInv
<1>3. ASSUME NEW q \in Texts, HandleChange(q) PROVE SearchInv'
  <2>1. /\ UNCHANGED <<searches, pending, live, missed>> /\ settling' /\ settling' \in BOOLEAN
        /\ box.isSheetOpen /\ box' = [box EXCEPT !.query = q]
    BY <1>3 DEF HandleChange, Retyped
  <2>2. /\ box' \in Boxes /\ box'.debounced = box.debounced /\ box'.isLoading = box.isLoading
        /\ box'.searchResults = box.searchResults /\ box'.isSheetOpen = box.isSheetOpen
    BY <1>0, <2>1 DEF Boxes
  <2> QED BY <2>1, <2>2 DEF SearchInv, LiveIsOfTheText
<1>4. CASE RunSearch
  <2>1. CASE box.query = box.debounced
    <3>1. settling' = FALSE /\ UNCHANGED <<box, searches, pending, live, missed>>
      BY <1>4, <2>1 DEF RunSearch
    <3> QED BY <2>1, <3>1 DEF SearchInv, LiveIsOfTheText
  <2>2. CASE box.query # box.debounced /\ box.query = EmptyBox
    <3>1. /\ settling' = FALSE /\ missed' = FALSE /\ live' = 0 /\ UNCHANGED <<searches, pending>>
          /\ box' = [box EXCEPT !.debounced = EmptyBox, !.searchResults = EmptyBox]
      BY <1>4, <2>2 DEF RunSearch
    <3>2. /\ box' \in Boxes /\ box'.query = EmptyBox /\ box'.debounced = EmptyBox /\ box'.searchResults = EmptyBox
          /\ box'.isSheetOpen = box.isSheetOpen
      BY <1>0, <2>2, <3>1 DEF Boxes
    <3>3. 0 \in 0..Len(searches)
      BY LenProperties DEF SearchInv
    <3> QED BY <3>1, <3>2, <3>3 DEF SearchInv, LiveIsOfTheText
  <2>3. CASE box.query # box.debounced /\ box.query # EmptyBox
    BY <1>4, <2>3, Asks DEF RunSearch
  <2> QED BY <2>1, <2>2, <2>3
<1>5. CASE UNCHANGED searchVars
  BY <1>5 DEF searchVars, SearchInv, LiveIsOfTheText
<1> QED BY <1>1, <1>2, <1>3, <1>4, <1>5, Answers DEF SearchNext, Texts

(* The inductive invariant of the search box: the live request is that of the *)
(* text searched last.                                                        *)
THEOREM SearchAlways == SearchSpec => []SearchInv
<1>1. SearchInit => SearchInv
  <2> SUFFICES ASSUME SearchInit PROVE SearchInv
    OBVIOUS
  <2>1. box \in Boxes /\ box.debounced = EmptyBox /\ box.query = EmptyBox /\ box.searchResults = EmptyBox
    BY DEF SearchInit, Boxes, Texts
  <2>2. searches \in Seq(Terms) /\ Len(searches) = 0 /\ 0 <= MaxSearches
    <3>1. <<>> \in Seq(Terms) /\ Len(<<>>) = 0
      BY EmptySeq
    <3>2. 0 <= MaxSearches
      BY SearchAssumption DEF SearchAssumption
    <3> QED BY <3>1, <3>2 DEF SearchInit
  <2>3. pending \subseteq 1..Len(searches) /\ live \in 0..Len(searches)
    BY <2>2 DEF SearchInit
  <2>4. settling = FALSE /\ missed = FALSE /\ live = 0
    BY DEF SearchInit
  <2>5. LiveIsOfTheText
    BY <2>1, <2>4 DEF LiveIsOfTheText
  <2> QED BY <2>5, <2>1, <2>2, <2>3, <2>4 DEF SearchInv
<1>2. SearchInv /\ [SearchNext]_searchVars => SearchInv'
  BY SearchAssumption, SearchStep
<1> QED BY <1>1, <1>2, PTL DEF SearchSpec

(* Types of the search box; nothing is typed into a closed sheet.             *)
THEOREM SearchTypeCorrect == SearchSpec => []SearchTypeOK
<1>1. SearchInv => SearchTypeOK
  BY DEF SearchInv, SearchTypeOK, Boxes, Texts
<1> QED BY <1>1, SearchAlways, PTL

(* The rows shown are those of the text searched last, however late an answer *)
(* to an earlier text comes.                                                  *)
THEOREM ResultsAlwaysAskedFor == SearchSpec => []ResultsAreAskedFor
<1>1. SearchInv => ResultsAreAskedFor
  BY DEF SearchInv, LiveIsOfTheText, ResultsAreAskedFor, ShowsRows
<1> QED BY <1>1, SearchAlways, PTL

(* Once it all rests, a text has its results or the failure was told, and the *)
(* loading line is gone.                                                      *)
THEOREM SearchAlwaysEnds == SearchSpec => []SearchEnds
<1>1. SearchInv => SearchEnds
  BY DEF SearchInv, LiveIsOfTheText, SearchEnds
<1> QED BY <1>1, SearchAlways, PTL

-----------------------------------------------------------------------------
(* The transactions of a wallet and their export (WalletHistory).          *)

Anyone == Senders \cup {AnyAddress}
Places == [type : Types, from : Anyone, to : Anyone, page : 1..LastPage]
Counts == {NotLoaded} \cup 0..LastPage
Ranges == [start : 0..Today, end : 0..Today]
Dropdowns == [of : {"none", "from", "to"}, input : Anyone]
Days == {NoDate} \cup 0..(Today + 1)
Exports == [show : BOOLEAN, from : Days, to : Days, isExporting : BOOLEAN, sentFrom : Days, sentTo : Days]
Recent == [from : Anyone, to : Anyone, replaced : BOOLEAN, filled : BOOLEAN]

\* A navigation that replaced no other keeps the filters applied last.
AimIsKept == ~ lately.replaced => aim.from = lately.from /\ aim.to = lately.to

PlacesInv == place \in Places /\ aim \in Places /\ pages \in Counts /\ PageIsThere /\ AimIsKept

\* The dates of the dialog are both set once it was open, and in order unless one was filled in.
DatesInv ==
    /\ export \in Exports
    /\ export.from = NoDate <=> export.to = NoDate
    /\ export.show => export.from # NoDate
    /\ ~ lately.filled /\ export.from # NoDate => export.from <= export.to
    /\ ExportsAsPicked

HistoryInv ==
    /\ PlacesInv /\ DatesInv /\ lately \in Recent /\ dropdown \in Dropdowns
    /\ range \in Ranges /\ range.start <= range.end

LEMMA HistoryNumbers ==
    ASSUME HistoryAssumption
    PROVE  /\ LastPage \in Nat \ {0} /\ Today \in Nat /\ Month \in 0..Today /\ 1 \in 1..LastPage
           /\ AnyAddress \in Anyone /\ 0..Today \subseteq Days /\ 0..Today \subseteq 0..(Today + 1)
BY DEF HistoryAssumption, Month, Anyone, Days

\* A navigation that keeps the filters of the address.
LEMMA Goes ==
    ASSUME HistoryInv, NEW p \in Places, p.from = place.from, p.to = place.to, GoTo(p)
    PROVE  aim' = p /\ lately' \in Recent /\ lately'.filled = lately.filled /\ AimIsKept'
<1> DEFINE b == lately.replaced \/ aim \notin {place, p}
<1>1. b \in BOOLEAN /\ aim' = p /\ lately' = [lately EXCEPT !.replaced = b]
  BY DEF GoTo
<1>2. lately \in Recent /\ AimIsKept
  BY DEF HistoryInv, PlacesInv
<1>3. ~ b => p.from = lately.from /\ p.to = lately.to
  BY <1>2 DEF AimIsKept
<1> HIDE DEF b
<1>4. /\ lately' \in Recent /\ lately'.filled = lately.filled /\ lately'.replaced = b
      /\ lately'.from = lately.from /\ lately'.to = lately.to
  BY <1>1, <1>2 DEF Recent
<1> QED BY <1>1, <1>3, <1>4 DEF AimIsKept

LEMMA ClampedPages ==
    ASSUME HistoryAssumption, NEW p \in Places, NEW n \in Counts, NEW c
    PROVE  /\ Clamped(p, n, c) \in Places /\ Clamped(p, n, c).from = p.from /\ Clamped(p, n, c).to = p.to
           /\ Clamped(p, n, c) = p /\ n > 0 => p.page <= n
<1>1. p.page \in 1..LastPage /\ n \in Int /\ (n > 0 => n \in 1..LastPage)
  BY HistoryNumbers DEF Places, Counts, NotLoaded
<1>2. CASE n > 0 /\ p.page > n
  <2>1. Clamped(p, n, c) = [p EXCEPT !.page = n]
    BY <1>2 DEF Clamped, PageOf
  <2>2. [p EXCEPT !.page = n] \in Places /\ [p EXCEPT !.page = n].page = n
    BY <1>1, <1>2 DEF Places
  <2>3. [p EXCEPT !.page = n].from = p.from /\ [p EXCEPT !.page = n].to = p.to
    BY DEF Places
  <2>4. [p EXCEPT !.page = n] # p
    <3>1. p.page # n
      BY <1>1, <1>2, HistoryNumbers
    <3> QED BY <2>2, <3>1
  <2> QED BY <2>1, <2>2, <2>3, <2>4
<1>3. CASE ~ (n > 0 /\ p.page > n)
  <2>1. Clamped(p, n, c) = p
    BY <1>3 DEF Clamped
  <2> QED BY <1>1, <1>3, <2>1
<1> QED BY <1>2, <1>3

\* A list comes, and the effect leads back if it is too short.
LEMMA LeadsBack ==
    ASSUME HistoryAssumption, HistoryInv, NEW n \in Counts, NEW c, pages' = n, place' = place, LeadBack(n, c)
    PROVE  PlacesInv' /\ lately' \in Recent /\ lately'.filled = lately.filled
<1> DEFINE p == Clamped(place, n, c)
<1>1. place \in Places /\ aim \in Places /\ lately \in Recent /\ AimIsKept
  BY DEF HistoryInv, PlacesInv
<1>2. p \in Places /\ p.from = place.from /\ p.to = place.to /\ (p = place /\ n > 0 => place.page <= n)
  BY <1>1, ClampedPages
<1>3. IF p # place THEN GoTo(p) ELSE UNCHANGED <<aim, lately>>
  BY DEF LeadBack
<1> HIDE DEF p
<1>4. CASE p # place
  <2>1. aim' = p /\ lately' \in Recent /\ lately'.filled = lately.filled /\ AimIsKept'
    BY <1>2, <1>3, <1>4, Goes
  <2> QED BY <1>1, <1>2, <1>4, <2>1 DEF PlacesInv, PageIsThere
<1>5. CASE p = place
  <2>1. UNCHANGED <<aim, lately>>
    BY <1>3, <1>5
  <2> QED BY <1>1, <1>2, <1>5, <2>1 DEF PlacesInv, PageIsThere, AimIsKept
<1> QED BY <1>4, <1>5

LEMMA DatesStay ==
    ASSUME DatesInv, UNCHANGED export, lately'.filled = lately.filled
    PROVE  DatesInv'
BY DEF DatesInv, ExportsAsPicked

\* A navigation to another place with the filters it has.
LEMMA Navigates ==
    ASSUME HistoryInv, NEW p \in Places, p # place, p.from = place.from, p.to = place.to, GoTo(p),
           UNCHANGED <<place, range, pages, dropdown, export>>
    PROVE  HistoryInv'
<1>1. aim' = p /\ lately' \in Recent /\ lately'.filled = lately.filled /\ AimIsKept'
  BY Goes
<1>2. PlacesInv'
  BY <1>1 DEF HistoryInv, PlacesInv, PageIsThere
<1> QED BY <1>1, <1>2, DatesStay DEF HistoryInv

LEMMA Arrives == ASSUME HistoryAssumption, HistoryInv, Arrived PROVE HistoryInv'
<1>1. /\ place' = aim /\ pages' \in Counts /\ aim' = Clamped(aim, pages', TRUE)
      /\ UNCHANGED <<range, export, lately>>
  BY DEF Arrived, Counts
<1>2. place \in Places /\ aim \in Places /\ AimIsKept /\ dropdown \in Dropdowns
  BY DEF HistoryInv, PlacesInv
<1>3. aim' \in Places /\ aim'.from = aim.from /\ aim'.to = aim.to /\ (aim' = aim /\ pages' > 0 => aim.page <= pages')
  BY <1>1, <1>2, ClampedPages
<1>4. PlacesInv'
  BY <1>1, <1>2, <1>3 DEF PlacesInv, PageIsThere, AimIsKept
<1>5. dropdown' \in Dropdowns
  <2>1. aim.from \in Anyone /\ aim.to \in Anyone
    BY <1>2 DEF Places
  <2>2. dropdown' \in {[dropdown EXCEPT !.input = aim.from], [dropdown EXCEPT !.input = aim.to], dropdown}
    <3>1. CASE dropdown.of = "from" /\ aim.from # place.from
      BY <3>1 DEF Arrived
    <3>2. CASE ~ (dropdown.of = "from" /\ aim.from # place.from) /\ dropdown.of = "to" /\ aim.to # place.to
      BY <3>2 DEF Arrived
    <3>3. CASE ~ (dropdown.of = "from" /\ aim.from # place.from) /\ ~ (dropdown.of = "to" /\ aim.to # place.to)
      BY <3>3 DEF Arrived
    <3> QED BY <3>1, <3>2, <3>3
  <2> QED BY <1>2, <2>1, <2>2 DEF Dropdowns
<1> QED BY <1>1, <1>4, <1>5, DatesStay DEF HistoryInv

LEMMA Applies == ASSUME HistoryAssumption, HistoryInv, ApplyFilter PROVE HistoryInv'
<1>0. PICK v \in {dropdown.input, AnyAddress} :
        LET p == Filtered(dropdown.of, v)
        IN /\ aim' = p
           /\ lately' = [lately EXCEPT !.from = p.from, !.to = p.to, !.replaced = @ \/ aim \notin {place, p}]
           /\ dropdown' = [dropdown EXCEPT !.of = "none", !.input = v]
  BY DEF ApplyFilter
<1>1. UNCHANGED <<place, range, pages, export>> /\ dropdown.of # "none"
  BY DEF ApplyFilter
<1>2. place \in Places /\ lately \in Recent /\ dropdown \in Dropdowns /\ v \in Anyone /\ pages \in Counts
  BY <1>0, HistoryNumbers DEF HistoryInv, PlacesInv, Dropdowns
<1> DEFINE q == [place EXCEPT !.from = IF dropdown.of = "from" THEN v ELSE @,
                              !.to   = IF dropdown.of = "to" THEN v ELSE @, !.page = 1]
           p == Filtered(dropdown.of, v)
<1>3. q \in Places /\ q.page = 1
  <2>1. 1 \in 1..LastPage
    BY HistoryNumbers
  <2>2. CASE dropdown.of = "from"
    BY <1>2, <2>1, <2>2 DEF Places
  <2>3. CASE dropdown.of = "to"
    BY <1>2, <2>1, <2>3 DEF Places
  <2> QED BY <1>1, <1>2, <2>2, <2>3 DEF Dropdowns
<1>4. p \in {q, [q EXCEPT !.type = "All"]}
  BY DEF Filtered
<1> HIDE DEF q
<1>5. p \in Places /\ p.page = 1
  BY <1>3, <1>4 DEF Places, Types
<1> DEFINE b == lately.replaced \/ aim \notin {place, p}
<1>6. b \in BOOLEAN /\ aim' = p /\ lately' = [lately EXCEPT !.from = p.from, !.to = p.to, !.replaced = b]
  BY <1>0
<1>7. dropdown' = [dropdown EXCEPT !.of = "none", !.input = v]
  BY <1>0
<1> HIDE DEF p, b
<1>8. lately' \in Recent /\ lately'.filled = lately.filled /\ lately'.from = p.from /\ lately'.to = p.to
  BY <1>2, <1>5, <1>6 DEF Places, Recent
<1>9. PageIsThere'
  BY <1>1, <1>2, <1>5, <1>6, HistoryNumbers DEF PageIsThere, Counts, NotLoaded
<1>10. dropdown' \in Dropdowns
  BY <1>2, <1>7 DEF Dropdowns
<1>11. PlacesInv'
  BY <1>1, <1>2, <1>5, <1>6, <1>8, <1>9 DEF PlacesInv, AimIsKept
<1> QED BY <1>1, <1>8, <1>10, <1>11, DatesStay DEF HistoryInv

\* The dates of a dialog, those that are missing filled in.
LEMMA DatedDays ==
    ASSUME HistoryAssumption, NEW x \in Exports
    PROVE  /\ Dated(x) \in Exports /\ Dated(x).show = x.show /\ Dated(x).isExporting = x.isExporting
           /\ Dated(x).sentFrom = x.sentFrom /\ Dated(x).sentTo = x.sentTo
           /\ Dated(x).from = (IF x.from = NoDate THEN Month ELSE x.from)
           /\ Dated(x).to = (IF x.to = NoDate THEN Today ELSE x.to)
           /\ {Dated(x).from, Dated(x).to} \subseteq 0..(Today + 1)
<1> DEFINE f == IF x.from = NoDate THEN Month ELSE x.from
           t == IF x.to = NoDate THEN Today ELSE x.to
<1>1. x.from \in Days /\ x.to \in Days /\ Month \in 0..(Today + 1) /\ Today \in 0..(Today + 1)
  BY HistoryNumbers DEF Exports
<1>2. f \in 0..(Today + 1) /\ t \in 0..(Today + 1)
  BY <1>1 DEF Days
<1>3. Dated(x) = [x EXCEPT !.from = f, !.to = t]
  BY DEF Dated
<1> HIDE DEF f, t
<1>4. f \in Days /\ t \in Days
  BY <1>2 DEF Days
<1>5. /\ Dated(x) \in Exports /\ Dated(x).show = x.show /\ Dated(x).isExporting = x.isExporting
      /\ Dated(x).sentFrom = x.sentFrom /\ Dated(x).sentTo = x.sentTo /\ Dated(x).from = f /\ Dated(x).to = t
  BY <1>3, <1>4 DEF Exports
<1> QED BY <1>2, <1>5 DEF f, t

\* What the dialog does leaves the list alone.
LEMMA ListStays ==
    ASSUME HistoryInv, UNCHANGED <<place, aim, range, pages, dropdown>>, lately' \in Recent, DatesInv',
           lately'.replaced = lately.replaced, lately'.from = lately.from, lately'.to = lately.to
    PROVE  HistoryInv'
BY DEF HistoryInv, PlacesInv, PageIsThere, AimIsKept

LEMMA Opens == ASSUME HistoryAssumption, HistoryInv, OpenExport PROVE HistoryInv'
<1>1. /\ ~ export.isExporting /\ export' = Dated([export EXCEPT !.show = TRUE])
      /\ UNCHANGED <<place, aim, range, pages, dropdown, lately>>
  BY DEF OpenExport
<1> DEFINE x == [export EXCEPT !.show = TRUE]
<1>2. export \in Exports /\ lately \in Recent
  BY DEF HistoryInv, DatesInv
<1>3. x \in Exports /\ x.from = export.from /\ x.to = export.to /\ x.isExporting = export.isExporting
  BY <1>2 DEF Exports
<1>4. export' = Dated(x)
  BY <1>1
<1> HIDE DEF x
<1>5. /\ export' \in Exports /\ export'.isExporting = export.isExporting
      /\ export'.from = (IF export.from = NoDate THEN Month ELSE export.from)
      /\ export'.to = (IF export.to = NoDate THEN Today ELSE export.to)
      /\ {export'.from, export'.to} \subseteq 0..(Today + 1)
  BY <1>3, <1>4, DatedDays
<1>6. export'.from # NoDate /\ export'.to # NoDate
  BY <1>5 DEF NoDate
<1>7. ~ lately.filled => export'.from <= export'.to
  <2>1. CASE export.from = NoDate
    BY <1>5, <2>1, HistoryNumbers DEF HistoryInv, DatesInv
  <2>2. CASE export.from # NoDate
    BY <1>5, <2>2 DEF HistoryInv, DatesInv
  <2> QED BY <2>1, <2>2
<1>8. DatesInv'
  BY <1>1, <1>5, <1>6, <1>7 DEF DatesInv, ExportsAsPicked
<1> QED BY <1>1, <1>2, <1>8, ListStays

LEMMA Picks == ASSUME HistoryAssumption, HistoryInv, PickExportDate PROVE HistoryInv'
<1>1. PICK d \in {NoDate} \cup 0..(Today + 1) :
        /\ \/ d <= export.to /\ export' = Dated([export EXCEPT !.from = d])
           \/ (d = NoDate \/ d >= export.from) /\ export' = Dated([export EXCEPT !.to = d])
        /\ lately' = [lately EXCEPT !.filled = @ \/ d = NoDate]
  BY DEF PickExportDate
<1>2. export.show /\ UNCHANGED <<place, aim, range, pages, dropdown>>
  BY DEF PickExportDate
<1>3. export \in Exports /\ lately \in Recent /\ d \in Days /\ export.from \in Days \ {NoDate} /\ export.to \in Days \ {NoDate}
  BY <1>2 DEF HistoryInv, DatesInv, Days, Exports
<1> DEFINE b == lately.filled \/ d = NoDate
<1>4. b \in BOOLEAN /\ lately' = [lately EXCEPT !.filled = b] /\ (~ b => ~ lately.filled /\ d # NoDate)
  BY <1>1
<1> HIDE DEF b
<1>5. /\ lately' \in Recent /\ lately'.filled = b /\ lately'.replaced = lately.replaced
      /\ lately'.from = lately.from /\ lately'.to = lately.to
  BY <1>3, <1>4 DEF Recent
<1>6. PICK x \in {[export EXCEPT !.from = d], [export EXCEPT !.to = d]} :
        export' = Dated(x) /\ (d # NoDate /\ export.from <= export.to => x.from <= x.to)
  <2>1. CASE d <= export.to /\ export' = Dated([export EXCEPT !.from = d])
    <3>1. [export EXCEPT !.from = d].from = d /\ [export EXCEPT !.from = d].to = export.to
      BY <1>3 DEF Exports
    <3> QED BY <2>1, <3>1
  <2>2. CASE (d = NoDate \/ d >= export.from) /\ export' = Dated([export EXCEPT !.to = d])
    <3>1. [export EXCEPT !.to = d].to = d /\ [export EXCEPT !.to = d].from = export.from
      BY <1>3 DEF Exports
    <3>2. d \in Int /\ export.from \in Int
      BY <1>3, HistoryNumbers DEF Days, NoDate
    <3>3. d # NoDate => export.from <= d
      BY <2>2, <3>2
    <3> QED BY <2>2, <3>1, <3>3
  <2> QED BY <1>1, <2>1, <2>2
<1>7. /\ x \in Exports /\ x.show = export.show /\ x.isExporting = export.isExporting
      /\ x.sentFrom = export.sentFrom /\ x.sentTo = export.sentTo
      /\ d # NoDate => x.from # NoDate /\ x.to # NoDate
  BY <1>3 DEF Exports
<1>8. /\ export' \in Exports /\ export'.show = export.show /\ export'.isExporting = export.isExporting
      /\ export'.sentFrom = export.sentFrom /\ export'.sentTo = export.sentTo
      /\ {export'.from, export'.to} \subseteq 0..(Today + 1)
      /\ d # NoDate => export'.from = x.from /\ export'.to = x.to
  BY <1>6, <1>7, DatedDays
<1>9. export'.from # NoDate /\ export'.to # NoDate
  BY <1>8 DEF NoDate
<1>10. ~ b => export'.from <= export'.to
  BY <1>3, <1>4, <1>6, <1>8 DEF HistoryInv, DatesInv
<1>11. ExportsAsPicked'
  BY <1>4, <1>5, <1>8 DEF HistoryInv, DatesInv, ExportsAsPicked
<1>12. DatesInv'
  BY <1>5, <1>8, <1>9, <1>10, <1>11 DEF DatesInv
<1> QED BY <1>2, <1>5, <1>12, ListStays

LEMMA Exporting ==
    ASSUME HistoryAssumption, HistoryInv, HandleExport \/ CancelExport \/ ExportAnswered
    PROVE  HistoryInv'
<1>1. UNCHANGED <<place, aim, range, pages, dropdown, lately>> /\ lately \in Recent /\ export \in Exports
  BY DEF HandleExport, CancelExport, ExportAnswered, HistoryInv, DatesInv
<1>2. CASE HandleExport
  <2>1. PICK f \in Days, t \in Days :
          /\ export' = [export EXCEPT !.isExporting = TRUE, !.sentFrom = f, !.sentTo = t]
          /\ (f = export.from /\ t = export.to) \/ (f = NoDate /\ t = NoDate)
    <3>1. export.from \in Days /\ export.to \in Days /\ NoDate \in Days
      BY <1>1 DEF Exports, Days
    <3> QED BY <1>2, <3>1 DEF HandleExport
  <2>2. export.show
    BY <1>2 DEF HandleExport
  <2>3. /\ export' \in Exports /\ export'.show = export.show /\ export'.from = export.from /\ export'.to = export.to
        /\ export'.sentFrom = f /\ export'.sentTo = t
    BY <1>1, <2>1 DEF Exports
  <2>4. ~ lately.filled => f <= t
    BY <2>1, <2>2 DEF HistoryInv, DatesInv, NoDate
  <2>5. DatesInv'
    BY <1>1, <2>2, <2>3, <2>4 DEF HistoryInv, DatesInv, ExportsAsPicked
  <2> QED BY <1>1, <2>5, ListStays
<1>3. CASE CancelExport
  <2>1. ~ export.isExporting /\ export' = [export EXCEPT !.show = FALSE]
    BY <1>3 DEF CancelExport, MayClose
  <2>2. /\ export' \in Exports /\ ~ export'.show /\ export'.from = export.from /\ export'.to = export.to
        /\ export'.isExporting = export.isExporting
    BY <1>1, <2>1 DEF Exports
  <2>3. DatesInv'
    BY <1>1, <2>1, <2>2 DEF HistoryInv, DatesInv, ExportsAsPicked
  <2> QED BY <1>1, <2>3, ListStays
<1>4. CASE ExportAnswered
  <2>1. PICK ok \in BOOLEAN : export' = [export EXCEPT !.isExporting = FALSE, !.show = @ /\ ~ ok]
    BY <1>4 DEF ExportAnswered
  <2> DEFINE b == export.show /\ ~ ok
  <2>2. b \in BOOLEAN /\ export' = [export EXCEPT !.isExporting = FALSE, !.show = b] /\ (b => export.show)
    BY <2>1
  <2> HIDE DEF b
  <2>3. /\ export' \in Exports /\ export'.show = b /\ export'.from = export.from /\ export'.to = export.to
        /\ ~ export'.isExporting
    BY <1>1, <2>2 DEF Exports
  <2>4. DatesInv'
    BY <1>1, <2>2, <2>3 DEF HistoryInv, DatesInv, ExportsAsPicked
  <2> QED BY <1>1, <2>4, ListStays
<1> QED BY <1>2, <1>3, <1>4

LEMMA HistoryStep == ASSUME HistoryAssumption, HistoryInv, [HistoryNext]_historyVars PROVE HistoryInv'
<1>0. place \in Places /\ lately \in Recent /\ dropdown \in Dropdowns /\ DatesInv /\ range \in Ranges
  BY DEF HistoryInv, PlacesInv
<1>1. CASE HistoryLoaded
  <2>1. PICK n \in 0..LastPage : pages' = n /\ LeadBack(n, FALSE)
    BY <1>1 DEF HistoryLoaded
  <2>2. UNCHANGED <<place, range, dropdown, export>> /\ n \in Counts
    BY <1>1 DEF HistoryLoaded, Counts
  <2>3. PlacesInv' /\ lately' \in Recent /\ lately'.filled = lately.filled
    BY <2>1, <2>2, LeadsBack
  <2> QED BY <1>0, <2>2, <2>3, DatesStay DEF HistoryInv
<1>2. ASSUME NEW s \in 0..Today, NEW e \in 0..Today, PickDates(s, e) PROVE HistoryInv'
  <2>1. PICK n \in Counts : pages' = n /\ LeadBack(n, TRUE)
    BY <1>2 DEF PickDates, Counts
  <2>2. UNCHANGED <<place, dropdown, export>> /\ s <= e /\ range' = [start |-> s, end |-> e]
    BY <1>2 DEF PickDates
  <2>3. range' \in Ranges /\ range'.start <= range'.end
    BY <2>2 DEF Ranges
  <2>4. PlacesInv' /\ lately' \in Recent /\ lately'.filled = lately.filled
    BY <2>1, <2>2, LeadsBack
  <2> QED BY <1>0, <2>2, <2>3, <2>4, DatesStay DEF HistoryInv
<1>3. ASSUME NEW t \in Types, SelectType(t) PROVE HistoryInv'
  <2> DEFINE p == [place EXCEPT !.type = t]
  <2>1. GoTo(p) /\ t # place.type /\ UNCHANGED <<place, range, pages, dropdown, export>>
    BY <1>3 DEF SelectType
  <2>2. p \in Places /\ p.from = place.from /\ p.to = place.to /\ p # place
    <3>1. p \in Places /\ p.from = place.from /\ p.to = place.to /\ p.type = t
      BY <1>0 DEF Places
    <3> QED BY <2>1, <3>1
  <2> HIDE DEF p
  <2> QED BY <2>1, <2>2, Navigates
<1>4. CASE ChangeHistoryPage
  <2>1. PICK n \in 1..pages : n # place.page /\ GoTo(PageOf(place, n))
    BY <1>4 DEF ChangeHistoryPage
  <2>2. UNCHANGED <<place, range, pages, dropdown, export>>
    BY <1>4 DEF ChangeHistoryPage
  <2>3. n \in 1..LastPage
    BY <2>1, HistoryNumbers DEF HistoryInv, PlacesInv, Counts, NotLoaded
  <2> DEFINE p == PageOf(place, n)
  <2>4. p \in Places /\ p.from = place.from /\ p.to = place.to /\ p # place
    <3>1. p \in Places /\ p.from = place.from /\ p.to = place.to /\ p.page = n
      BY <1>0, <2>3 DEF Places, PageOf
    <3> QED BY <2>1, <3>1
  <2> HIDE DEF p
  <2>5. GoTo(p)
    BY <2>1 DEF p
  <2> QED BY <2>2, <2>4, <2>5, Navigates
<1>5. ASSUME dropdown' \in Dropdowns, UNCHANGED <<place, aim, range, pages, export, lately>> PROVE HistoryInv'
  BY <1>5 DEF HistoryInv, PlacesInv, PageIsThere, AimIsKept, DatesInv, ExportsAsPicked
<1>6. ASSUME NEW f \in {"from", "to"}, ToggleDropdown(f) PROVE HistoryInv'
  <2>1. ValueOf(f) \in Anyone
    BY <1>0 DEF ValueOf, Places
  <2>2. dropdown' \in {[dropdown EXCEPT !.of = "none"], [of |-> f, input |-> ValueOf(f)]}
    BY <1>6 DEF ToggleDropdown
  <2>3. dropdown' \in Dropdowns
    BY <1>0, <2>1, <2>2 DEF Dropdowns
  <2> QED BY <1>5, <1>6, <2>3 DEF ToggleDropdown
<1>7. ASSUME NEW v \in Senders \cup {AnyAddress}, TypeSender(v) PROVE HistoryInv'
  <2>1. dropdown' = [dropdown EXCEPT !.input = v]
    BY <1>7 DEF TypeSender
  <2>2. dropdown' \in Dropdowns
    BY <1>0, <2>1 DEF Dropdowns, Anyone
  <2> QED BY <1>5, <1>7, <2>2 DEF TypeSender
<1>8. CASE UNCHANGED historyVars
  BY <1>8 DEF historyVars, HistoryInv, PlacesInv, PageIsThere, AimIsKept, DatesInv, ExportsAsPicked
<1> QED BY <1>1, <1>2, <1>3, <1>4, <1>6, <1>7, <1>8, Arrives, Applies, Opens, Picks, Exporting DEF HistoryNext

(* The inductive invariant of a wallet's list and its export dialog.          *)
THEOREM HistoryAlways == HistorySpec => []HistoryInv
<1>1. HistoryInit => HistoryInv
  <2> SUFFICES ASSUME HistoryInit PROVE HistoryInv
    OBVIOUS
  <2>0. HistoryAssumption
    BY HistoryAssumption
  <2>1. place \in Places /\ aim = place /\ place.from = AnyAddress /\ place.to = AnyAddress
    <3>1. {1, LastPage} \subseteq 1..LastPage
      BY <2>0, HistoryNumbers
    <3> QED BY <3>1 DEF HistoryInit, Places, Types, Anyone
  <2>2. lately \in Recent /\ lately.from = AnyAddress /\ lately.to = AnyAddress
    BY DEF HistoryInit, Recent, Anyone
  <2>3. pages = NotLoaded /\ pages \in Counts /\ ~ (pages > 0)
    BY DEF HistoryInit, Counts, NotLoaded
  <2>4. range \in Ranges /\ range.start <= range.end
    BY <2>0, HistoryNumbers DEF HistoryInit, Ranges
  <2>5. dropdown \in Dropdowns
    BY DEF HistoryInit, Dropdowns, Anyone
  <2>6. export \in Exports /\ export.from = NoDate /\ export.to = NoDate /\ ~ export.show /\ ~ export.isExporting
    BY DEF HistoryInit, Exports, Days
  <2> QED BY <2>5, <2>1, <2>2, <2>3, <2>4, <2>6 DEF HistoryInv, PlacesInv, PageIsThere, AimIsKept, DatesInv, ExportsAsPicked
<1>2. HistoryInv /\ [HistoryNext]_historyVars => HistoryInv'
  BY HistoryAssumption, HistoryStep
<1> QED BY <1>1, <1>2, PTL DEF HistorySpec

(* Types of the wallet's list; its dates are never out of order.              *)
THEOREM HistoryTypeCorrect == HistorySpec => []HistoryTypeOK
<1>1. HistoryInv => HistoryTypeOK
  <2> SUFFICES ASSUME HistoryInv PROVE HistoryTypeOK
    OBVIOUS
  <2>0. HistoryAssumption
    BY HistoryAssumption
  <2>1. {place, aim} \subseteq [type : Types, from : Senders \cup {AnyAddress},
                                to : Senders \cup {AnyAddress}, page : 1..LastPage]
    BY DEF HistoryInv, PlacesInv, Places, Anyone
  <2>2. range.start \in 0..range.end /\ range.end <= Today
    BY <2>0, HistoryNumbers DEF HistoryInv, Ranges
  <2>3. export.show => {export.from, export.to} \subseteq 0..(Today + 1)
    BY DEF HistoryInv, DatesInv, Exports, Days
  <2>4. pages \in {NotLoaded} \cup 0..LastPage /\ dropdown \in [of : {"none", "from", "to"}, input : Senders \cup {AnyAddress}]
    BY DEF HistoryInv, PlacesInv, Counts, Dropdowns, Anyone
  <2> QED BY <2>1, <2>2, <2>3, <2>4 DEF HistoryTypeOK
<1> QED BY <1>1, HistoryAlways, PTL

(* A list is never left on a page it does not have.                           *)
THEOREM PageAlwaysThere == HistorySpec => []PageIsThere
<1>1. HistoryInv => PageIsThere
  BY DEF HistoryInv, PlacesInv
<1> QED BY <1>1, HistoryAlways, PTL

(* A list is under the filters applied last, unless a navigation was replaced. *)
THEOREM FiltersAlwaysKept == HistorySpec => []FiltersAreKept
<1>1. HistoryInv => FiltersAreKept
  BY DEF HistoryInv, PlacesInv, AimIsKept, FiltersAreKept
<1> QED BY <1>1, HistoryAlways, PTL

(* A file that is waited for has its dialog, and a range in order.            *)
THEOREM AlwaysExportsAsPicked == HistorySpec => []ExportsAsPicked
<1>1. HistoryInv => ExportsAsPicked
  BY DEF HistoryInv, DatesInv
<1> QED BY <1>1, HistoryAlways, PTL

-----------------------------------------------------------------------------
(* The pages as one.                                                         *)

(* A step of the pages is a step of each part or leaves it as it is.         *)
LEMMA StepOfOffers ==
    ASSUME OfOffers \/ UNCHANGED offerVars
    PROVE  [ListingNext]_listingVars /\ [DeskNext]_desk /\ [TradesNext]_tradeVars
BY DEF OfOffers, offerVars

LEMMA StepOfLuckyMoney ==
    ASSUME OfLuckyMoney \/ UNCHANGED luckyVars PROVE [FormNext]_formVars /\ [GiftNext]_giftVars
BY DEF OfLuckyMoney, luckyVars

LEMMA StepOfCampaigns ==
    ASSUME OfCampaigns \/ UNCHANGED givingVars
    PROVE  /\ [CampaignNext]_campaignVars /\ [UpdateNext]_updateVars /\ [FeedNext]_feedVars
           /\ [ListNext]_listVars /\ [ViewerNext]_viewerVars
BY DEF OfCampaigns, givingVars

LEMMA StepOfExplorer ==
    ASSUME OfExplorer \/ UNCHANGED explorerVars PROVE [SearchNext]_searchVars /\ [HistoryNext]_historyVars
BY DEF OfExplorer, explorerVars

LEMMA StepOfTheSite ==
    ASSUME [SitePagesNext]_sitePagesVars
    PROVE  /\ OfOffers \/ UNCHANGED offerVars
           /\ OfLuckyMoney \/ UNCHANGED luckyVars
           /\ OfCampaigns \/ UNCHANGED givingVars
           /\ OfExplorer \/ UNCHANGED explorerVars
           /\ [MoneyNext]_moneyVars
<1>1. CASE UNCHANGED sitePagesVars
  BY <1>1 DEF sitePagesVars
<1>2. CASE OfOffers /\ UNCHANGED <<luckyVars, givingVars, moneyVars, explorerVars>>
  BY <1>2
<1>3. CASE OfLuckyMoney /\ UNCHANGED <<offerVars, givingVars, moneyVars, explorerVars>>
  BY <1>3
<1>4. CASE OfCampaigns /\ UNCHANGED <<offerVars, luckyVars, moneyVars, explorerVars>>
  BY <1>4
<1>5. CASE OfExplorer /\ UNCHANGED <<offerVars, luckyVars, givingVars, moneyVars>>
  BY <1>5
<1>6. CASE part = "dialogs" /\ MoneyNext /\ UNCHANGED <<offerVars, luckyVars, givingVars, explorerVars>>
  BY <1>6
<1> QED BY <1>1, <1>2, <1>3, <1>4, <1>5, <1>6 DEF SitePagesNext

(* Each part behaves on the site as it does by itself.                       *)
THEOREM PartsOfTheSite ==
    SitePagesSpec => /\ ListingSpec /\ DeskSpec /\ TradesSpec /\ FormSpec /\ GiftSpec /\ MoneySpec
                     /\ CampaignSpec /\ UpdateSpec /\ FeedSpec /\ ListSpec /\ ViewerSpec
                     /\ SearchSpec /\ HistorySpec
<1>1. SitePagesInit => /\ ListingInit /\ DeskInit /\ TradesInit /\ FormInit /\ GiftInit /\ MoneyInit
                       /\ CampaignInit /\ UpdateInit /\ FeedInit /\ ListInit /\ ViewerInit
                       /\ SearchInit /\ HistoryInit
  BY DEF SitePagesInit
<1>2. [SitePagesNext]_sitePagesVars
        => /\ [ListingNext]_listingVars /\ [DeskNext]_desk /\ [TradesNext]_tradeVars
           /\ [FormNext]_formVars /\ [GiftNext]_giftVars /\ [MoneyNext]_moneyVars
           /\ [CampaignNext]_campaignVars /\ [UpdateNext]_updateVars /\ [FeedNext]_feedVars
           /\ [ListNext]_listVars /\ [ViewerNext]_viewerVars
           /\ [SearchNext]_searchVars /\ [HistoryNext]_historyVars
  BY StepOfTheSite, StepOfOffers, StepOfLuckyMoney, StepOfCampaigns, StepOfExplorer
<1> QED BY <1>1, <1>2, PTL
        DEF SitePagesSpec, ListingSpec, DeskSpec, TradesSpec, FormSpec, GiftSpec, MoneySpec,
            CampaignSpec, UpdateSpec, FeedSpec, ListSpec, ViewerSpec, SearchSpec, HistorySpec

(* The state of every page is of its type, for every value of the constants. *)
THEOREM SitePagesTypeCorrect == SitePagesSpec => []SitePagesTypeOK
<1>1. /\ ListingTypeOK /\ DeskTypeOK /\ FormTypeOK /\ GiftTypeOK /\ MoneyTypeOK
      /\ CampaignTypeOK /\ UpdateTypeOK /\ FeedTypeOK /\ ListTypeOK /\ ViewerTypeOK
      /\ TradesTypeOK /\ SearchTypeOK /\ HistoryTypeOK
      => SitePagesTypeOK
  BY DEF SitePagesTypeOK
<1> QED BY <1>1, PartsOfTheSite, ListingTypeCorrect, DeskTypeCorrect, FormTypeCorrect, GiftTypeCorrect,
           MoneyTypeCorrect, CampaignTypeCorrect, UpdateTypeCorrect, FeedTypeCorrect, ListTypeCorrect,
           ViewerTypeCorrect, TradesTypeCorrect, SearchTypeCorrect, HistoryTypeCorrect, PTL

(* The offers and the orders of the P2P page are those asked for, as new as  *)
(* what the page has heard, and offer what the service accepts, however      *)
(* navigations, answers and events cross.                                    *)
THEOREM OffersAlwaysCurrent == SitePagesSpec => []OffersAreCurrent
<1>1. /\ PageIsReset /\ TypedFilterIsShown /\ ShownIsHeard /\ OffersWhatIsAccepted
      /\ TradesAreHeard /\ OrdersOfTheOffer
      => OffersAreCurrent
  BY DEF OffersAreCurrent
<1> QED BY <1>1, PartsOfTheSite, PageAlwaysReset, TypedAlwaysShown, ShownAsHeard, OffersTheAccepted,
           TradesAlwaysHeard, OrdersAlwaysOfTheOffer, PTL

(* The form of a lucky money session keeps its word on the site too.         *)
THEOREM FormHonestOnTheSite == SitePagesSpec => []FormIsHonest
BY PartsOfTheSite, FormKeepsItsWord, PTL

(* What the pages say was claimed, decided or received is so at the service. *)
THEOREM AlwaysAnnouncedTrue == SitePagesSpec => []AnnouncedIsTrue
<1>1. ClaimedAsShown /\ StatusAsAnnounced /\ ReceiptIsTrue => AnnouncedIsTrue
  BY DEF AnnouncedIsTrue
<1> QED BY <1>1, PartsOfTheSite, PaidAsShown, StatusAlwaysAnnounced, ReceiptAlwaysTrue, PTL

(* A campaign and its updates are as their creator left them.                *)
THEOREM CampaignsAlwaysAsEdited == SitePagesSpec => []CampaignsAreAsEdited
<1>1. WalletsAreHeld /\ DeletedIsDraft /\ ChosenSlugIsFree /\ FormIsShown /\ PublishedAsShown
      => CampaignsAreAsEdited
  BY DEF CampaignsAreAsEdited
<1> QED BY <1>1, PartsOfTheSite, WalletsAlwaysHeld, DeletedAlwaysDraft, ChosenSlugAlwaysFree,
           FormAlwaysShown, AlwaysPublishedAsShown, PTL

(* What is read page by page is neither repeated nor left out, and is what   *)
(* was asked for last.                                                       *)
THEOREM FeedsAlwaysWhole == SitePagesSpec => []FeedsAreWhole
<1>1. /\ NothingTwice /\ NothingLeftOut /\ ToggledIsShown
      /\ NewFiltersFirstPage /\ OpensAtTheClick /\ TapsDoNotTurn
      /\ ResultsAreAskedFor /\ SearchEnds
      /\ PageIsThere /\ FiltersAreKept /\ ExportsAsPicked
      => FeedsAreWhole
  BY DEF FeedsAreWhole
<1> QED BY <1>1, PartsOfTheSite, AlwaysNothingTwice, AlwaysNothingLeftOut, AlwaysToggledIsShown,
           AlwaysFirstPage, AlwaysOpensAtTheClick, TapsNeverTurn, ResultsAlwaysAskedFor, SearchAlwaysEnds,
           PageAlwaysThere, FiltersAlwaysKept, AlwaysExportsAsPicked, PTL

==============================================================================
