---------------------------- MODULE CampaignList ----------------------------
(***************************************************************************)
(* The list of campaigns (ActiveCampaign): a verified and an unverified    *)
(* list under the same filters, each with a page of its own.  The pages    *)
(* are parameters of the address, unless the user's own campaigns are      *)
(* shown: then they are state of the page, and the address keeps what it   *)
(* had.  Every change of a filter resets the pages, in an effect that also *)
(* runs when the page is loaded.  The limits are left out: they change     *)
(* without a look at the page.                                             *)
(***************************************************************************)
EXTENDS Naturals

CONSTANTS Searches,    \* what can be typed in the search, NoSearch among it
          MaxListPage  \* the pages a list can have

NoSearch == ""

ASSUME CampaignListAssumption == NoSearch \in Searches /\ MaxListPage \in Nat \ {0}

VARIABLES address,     \* the page of each list in the address
          goal,        \* the navigation under way
          localPages,  \* the pages while the user's own campaigns are shown
          search,      \* what is typed, and whether its timer runs
          sift,        \* the filters of both lists
          remembered,  \* SHOW_MINE_CAMPAIGNS in the session storage
          fits,        \* history, per list: its page was chosen under the filters shown
          overtaken    \* history: a pager took the place of a reset under way

listVars == <<address, goal, localPages, search, sift, remembered, fits, overtaken>>

Sections == {"verified", "unverified"}
FirstPages == [l \in Sections |-> 1]
NoFilters == [text |-> NoSearch, status |-> "active", verified |-> "all", mine |-> FALSE]

\* buildCampaignsParams: the page that is asked for and shown.
ListPage(l) == IF sift.mine THEN localPages[l] ELSE address[l]

\* verifiedFilter: the lists that are on the page.
SectionsShown == IF sift.verified = "all" THEN Sections ELSE {sift.verified}

ListInit ==
    /\ address \in [Sections -> {1, MaxListPage}]
    /\ goal = [address EXCEPT !["unverified"] = 1]
    /\ localPages = FirstPages /\ search = [text |-> NoSearch, timer |-> FALSE]
    /\ sift = NoFilters /\ remembered = FALSE
    /\ fits = [l \in Sections |-> FALSE] /\ overtaken = FALSE

\* A variant with the calls of the effect in the other order.
ResetUnverifiedFirst ==
    /\ goal' = [address EXCEPT !["verified"] = 1]
    /\ localPages' = FirstPages

\* handleChangeVerifiedPage(1), then handleChangeUnverifiedPage(1): each replaces the
\* address as it is, so the second takes the place of the first.
ResetPages ==
    /\ goal' = [address EXCEPT !["unverified"] = 1]
    /\ localPages' = FirstPages

FiltersBecome(f) ==
    /\ sift' = f
    /\ ResetPages
    /\ fits' = [l \in Sections |-> FALSE] /\ overtaken' = FALSE
    /\ UNCHANGED address

----------------------------------------------------------------------------
TypeSearch ==
    /\ \E s \in Searches \ {search.text} : search' = [text |-> s, timer |-> TRUE]
    /\ UNCHANGED <<address, goal, localPages, sift, remembered, fits, overtaken>>

\* useDebounce: 400 ms after the last change.
DebounceEnds ==
    /\ search.timer /\ search' = [search EXCEPT !.timer = FALSE]
    /\ IF search.text = sift.text
       THEN UNCHANGED <<address, goal, localPages, sift, fits, overtaken>>
       ELSE FiltersBecome([sift EXCEPT !.text = search.text])
    /\ UNCHANGED remembered

\* The selects; sortBy is taken with statusFilter.
ChangeFilter ==
    /\ \/ \E s \in {"active", "all"} \ {sift.status} : FiltersBecome([sift EXCEPT !.status = s])
       \/ \E v \in (Sections \cup {"all"}) \ {sift.verified} : FiltersBecome([sift EXCEPT !.verified = v])
    /\ UNCHANGED <<search, remembered>>

\* A variant that notes in the storage only that it was turned on.
ToggleNotesOn ==
    /\ FiltersBecome([sift EXCEPT !.mine = ~ @])
    /\ remembered' = (remembered \/ ~ sift.mine)
    /\ UNCHANGED search

\* The button "My campaigns".
ToggleMine ==
    /\ FiltersBecome([sift EXCEPT !.mine = ~ @])
    /\ remembered' = ~ sift.mine
    /\ UNCHANGED search

\* The page is loaded with the address: the mark of the storage is taken once.
LoadWith(mark, pages) ==
    /\ address' = pages /\ goal' = [pages EXCEPT !["unverified"] = 1]
    /\ localPages' = FirstPages /\ search' = [text |-> NoSearch, timer |-> FALSE]
    /\ sift' = [NoFilters EXCEPT !.mine = mark] /\ remembered' = FALSE
    /\ fits' = [l \in Sections |-> FALSE] /\ overtaken' = FALSE

Reload == LoadWith(remembered, address)

\* The entry of the account panel leads to the bare address.
MyCampaigns == LoadWith(TRUE, FirstPages)

\* The pagers of the lists; in the address a list keeps what its neighbour has.
ChangeListPage(l) ==
    /\ l \in SectionsShown
    /\ \E p \in (1..MaxListPage) \ {ListPage(l)} :
         IF sift.mine
         THEN /\ localPages' = [localPages EXCEPT ![l] = p]
              /\ fits' = [fits EXCEPT ![l] = TRUE]
              /\ UNCHANGED <<goal, overtaken>>
         ELSE /\ goal' = [address EXCEPT ![l] = p]
              /\ overtaken' = (overtaken \/ goal # address)
              /\ UNCHANGED <<localPages, fits>>
    /\ UNCHANGED <<address, search, sift, remembered>>

\* The address changes; the pages of the state follow it unless they are shown.
AddressChanges ==
    /\ goal # address /\ address' = goal
    /\ localPages' = IF sift.mine THEN localPages ELSE goal
    /\ fits' = [l \in Sections |-> fits[l] \/ (~ sift.mine /\ goal[l] # address[l])]
    /\ UNCHANGED <<goal, search, sift, remembered, overtaken>>

ListNext == \/ TypeSearch \/ DebounceEnds \/ ChangeFilter \/ ToggleMine \/ Reload \/ MyCampaigns
            \/ \E l \in Sections : ChangeListPage(l)
            \/ AddressChanges

ListSpec == ListInit /\ [][ListNext]_listVars

----------------------------------------------------------------------------
\* Types; what a reload would restore is what is shown: the storage says "mine" only
\* while the user's own campaigns are (the mark of SHOW_MINE_CAMPAIGNS).
ListTypeOK ==
    /\ address \in [Sections -> 1..MaxListPage] /\ goal \in [Sections -> 1..MaxListPage]
    /\ localPages \in [Sections -> 1..MaxListPage] /\ search.text \in Searches
    /\ remembered => sift.mine

\* At rest a list shows its first page or one that was chosen under the filters it
\* has, unless a pager overtook the reset: both lists while the user's own campaigns
\* are shown, the unverified one always.  (The verified one keeps in the address the
\* page it had under other filters.)
NewFiltersFirstPage ==
    goal = address /\ ~ overtaken =>
        \A l \in Sections : l = "unverified" \/ sift.mine => ListPage(l) = 1 \/ fits[l]
============================================================================
