---------------------------- MODULE GlobalSearch ----------------------------
(***************************************************************************)
(* The search box of every page (global-search): what is typed is searched *)
(* once it has rested for a moment, answers of an earlier text are         *)
(* cancelled, and closing the sheet empties the box and the results, but   *)
(* not the text that was searched last, which follows a moment later       *)
(* (useDebounce). A result stands for the text it is the answer of.        *)
(***************************************************************************)
EXTENDS Naturals, Sequences

CONSTANTS Terms,       \* the texts that are typed
          MaxSearches  \* requests of the page

EmptyBox == ""   \* nothing is typed, or was found

ASSUME SearchAssumption == EmptyBox \notin Terms /\ MaxSearches \in Nat \ {0}

VARIABLES box,       \* the states of GlobalSearch; no results are EmptyBox
          settling,  \* the timer of useDebounce runs
          searches,  \* the texts asked for, in their order
          pending,   \* the requests that are not answered
          live,      \* the request whose isCancelled is still false, 0 for none
          missed     \* history: the last answer failed, or closing took it away

searchVars == <<box, settling, searches, pending, live, missed>>

SearchInit ==
    /\ box = [isSheetOpen |-> FALSE, query |-> EmptyBox, debounced |-> EmptyBox, isLoading |-> FALSE,
              searchResults |-> EmptyBox]
    /\ settling = FALSE /\ searches = <<>> /\ pending = {} /\ live = 0 /\ missed = FALSE

\* The button, and Ctrl or Command with K while the sheet is closed.
OpenSheet ==
    /\ ~box.isSheetOpen
    /\ box' = [box EXCEPT !.isSheetOpen = TRUE]
    /\ UNCHANGED <<settling, searches, pending, live, missed>>

\* useDebounce's effect on the text that was typed, or emptied.
Retyped(q) == settling' = (settling \/ q # box.query)

\* handleSheetOpenChange(false): Escape, the overlay, and a result that is chosen.
CloseSheet ==
    /\ box.isSheetOpen
    /\ box' = [box EXCEPT !.isSheetOpen = FALSE, !.query = EmptyBox, !.searchResults = EmptyBox]
    /\ Retyped(EmptyBox)
    /\ missed' = TRUE
    /\ UNCHANGED <<searches, pending, live>>

\* handleChange and handleClearQuery.
HandleChange(q) ==
    /\ box.isSheetOpen /\ q # box.query
    /\ box' = [box EXCEPT !.query = q]
    /\ Retyped(q)
    /\ UNCHANGED <<searches, pending, live, missed>>

\* The text has rested; the effect cancels the request under way and runs again.
RunSearch ==
    /\ settling /\ settling' = FALSE
    /\ IF box.query = box.debounced
       THEN UNCHANGED <<box, searches, pending, live, missed>>
       ELSE /\ missed' = FALSE
            /\ IF box.query = EmptyBox
               THEN /\ box' = [box EXCEPT !.debounced = EmptyBox, !.searchResults = EmptyBox]
                    /\ live' = 0 /\ UNCHANGED <<searches, pending>>
               ELSE /\ Len(searches) < MaxSearches
                    /\ box' = [box EXCEPT !.debounced = box.query, !.isLoading = TRUE]
                    /\ searches' = Append(searches, box.query)
                    /\ live' = Len(searches') /\ pending' = pending \cup {live'}

\* A variant whose effect forgets to cancel.
NeverCancelled(c) == c > 0

IsCurrent(c) == c = live

\* The answer, or its failure; a cancelled request changes nothing.
SearchAnswered(c) ==
    /\ c \in pending /\ pending' = pending \ {c}
    /\ IF IsCurrent(c)
       THEN \E ok \in BOOLEAN :
               /\ box' = [box EXCEPT !.searchResults = IF ok THEN searches[c] ELSE EmptyBox,
                                     !.isLoading = FALSE]
               /\ missed' = ~ok
       ELSE UNCHANGED <<box, missed>>
    /\ UNCHANGED <<settling, searches, live>>

SearchNext ==
    \/ OpenSheet \/ CloseSheet \/ RunSearch
    \/ \E q \in Terms \cup {EmptyBox} : HandleChange(q)
    \/ \E c \in 1..MaxSearches : SearchAnswered(c)

SearchSpec == SearchInit /\ [][SearchNext]_searchVars

-----------------------------------------------------------------------------
\* Types of the state; nothing is typed into a closed sheet.
SearchTypeOK ==
    /\ box \in [isSheetOpen : BOOLEAN, query : Terms \cup {EmptyBox}, debounced : Terms \cup {EmptyBox},
                isLoading : BOOLEAN, searchResults : Terms \cup {EmptyBox}]
    /\ settling \in BOOLEAN /\ searches \in Seq(Terms) /\ Len(searches) <= MaxSearches
    /\ pending \subseteq 1..Len(searches) /\ live \in 0..Len(searches) /\ missed \in BOOLEAN
    /\ ~box.isSheetOpen => box.query = EmptyBox

\* isShowSearchResults of the modal, and the rows below the loading line.
ShowsRows == box.query # EmptyBox /\ box.searchResults # EmptyBox /\ ~box.isLoading

\* The rows under the box are those of the text that was searched last, and once
\* the typing rests of the text in the box, however late an answer to an earlier
\* text comes.
ResultsAreAskedFor ==
    ShowsRows => /\ box.searchResults = box.debounced
                 /\ ~settling => box.searchResults = box.query

\* Once it all rests, a text in the box has its results, unless the request failed
\* or the sheet was closed over them and opened again before the text was forgotten;
\* the loading line never stays.
SearchEnds ==
    box.query # EmptyBox /\ ~settling /\ live \notin pending =>
        ~box.isLoading /\ (missed \/ box.searchResults = box.query)
=============================================================================
