---------------------------- MODULE WalletHistory ----------------------------
(***************************************************************************)
(* The transactions of a wallet (transaction-history-card): a list that is *)
(* filtered by parameters of the address and by two dates of the page, the *)
(* dropdowns that write the address filters, the effect that leads back    *)
(* from a page there is not, and the dialog that exports a range of dates  *)
(* as a file. Days are numbered, the year back from today; a navigation is *)
(* computed from the address of the last render and takes time.            *)
(***************************************************************************)
EXTENDS Integers

CONSTANTS Senders,      \* addresses that are typed into a filter
          LastPage,     \* the pages a list can have
          Today,        \* the day of today, oneYearAgo being 0
          HistoryTurns  \* clicks

AnyAddress == ""   \* of a filter that is not set

ASSUME HistoryAssumption ==
    AnyAddress \notin Senders /\ LastPage \in Nat \ {0} /\ {Today, HistoryTurns} \subseteq Nat

VARIABLES place,    \* the parameters of the address: type, from, to, page
          aim,      \* the navigation under way, place for none
          range,    \* startDate and endDate
          pages,    \* total_pages of the list, NotLoaded while it is asked for
          dropdown, \* the filter whose popover is open, and its inputValue
          export,   \* the dialog, its dates, and the file it waits for
          lately,   \* history: the address filters applied last, whether a navigation
                    \* was replaced, whether an emptied date was filled in
          clicksLeft

historyVars == <<place, aim, range, pages, dropdown, export, lately, clicksLeft>>

NotLoaded == -1
Types == {"All", "Sent", "Received"}
Month == IF Today > 0 THEN Today - 1 ELSE 0   \* a month ago
NoDate == -1

HistoryInit ==
    /\ place \in [type : {"All"}, from : {AnyAddress}, to : {AnyAddress}, page : {1, LastPage}] /\ aim = place
    /\ range = [start |-> Month, end |-> Today] /\ pages = NotLoaded
    /\ dropdown = [of |-> "none", input |-> AnyAddress]
    /\ export = [show |-> FALSE, from |-> NoDate, to |-> NoDate, isExporting |-> FALSE,
                 sentFrom |-> NoDate, sentTo |-> NoDate]
    /\ lately = [from |-> AnyAddress, to |-> AnyAddress, replaced |-> FALSE, filled |-> FALSE]
    /\ clicksLeft = HistoryTurns

Click == clicksLeft > 0 /\ clicksLeft' = clicksLeft - 1

-----------------------------------------------------------------------------
(* The address and the list.                                               *)

\* router.push and router.replace: a navigation under way gives way.
GoTo(p) ==
    /\ aim' = p
    /\ lately' = [lately EXCEPT !.replaced = @ \/ aim \notin {place, p}]

\* A variant that forgets the other parameters.
PageAlone(p, n) == [type |-> "All", from |-> AnyAddress, to |-> AnyAddress, page |-> n]

PageOf(p, n) == [p EXCEPT !.page = n]

\* A variant of the effect that is run by an answer only, not by one that was cached.
ClampedByAnswer(p, n, cached) == IF ~cached /\ n > 0 /\ p.page > n THEN PageOf(p, n) ELSE p

\* The effect on the pagination: where it leads from a page the list does not have.
Clamped(p, n, cached) == IF n > 0 /\ p.page > n THEN PageOf(p, n) ELSE p

\* The navigation ends, and the list under the new key is in the cache or is asked
\* for; an open dropdown takes the value of the address over.
Arrived ==
    /\ aim # place
    /\ place' = aim
    /\ pages' \in {NotLoaded} \cup 0..LastPage
    /\ aim' = Clamped(aim, pages', TRUE)
    /\ dropdown' = CASE dropdown.of = "from" /\ aim.from # place.from -> [dropdown EXCEPT !.input = aim.from]
                     [] dropdown.of = "to" /\ aim.to # place.to -> [dropdown EXCEPT !.input = aim.to]
                     [] OTHER -> dropdown
    /\ UNCHANGED <<range, export, lately, clicksLeft>>

LeadBack(n, cached) ==
    LET p == Clamped(place, n, cached)
    IN IF p # place THEN GoTo(p) ELSE UNCHANGED <<aim, lately>>

\* The list arrives, in however many pages it has by now.
HistoryLoaded ==
    /\ pages = NotLoaded
    /\ \E n \in 0..LastPage : pages' = n /\ LeadBack(n, FALSE)
    /\ UNCHANGED <<place, range, dropdown, export, clicksLeft>>

\* setTransactionType keeps the page.
SelectType(t) ==
    /\ t # place.type /\ Click
    /\ GoTo([place EXCEPT !.type = t])
    /\ UNCHANGED <<place, range, pages, dropdown, export>>

\* The pager of the list: another page, or another limit from its first page on.
ChangeHistoryPage ==
    /\ pages > 0 /\ Click
    /\ \E n \in 1..pages : n # place.page /\ GoTo(PageOf(place, n))
    /\ UNCHANGED <<place, range, pages, dropdown, export>>

\* The two date pickers bound each other; the page stays.
PickDates(s, e) ==
    /\ s <= e /\ (s = range.start \/ e = range.end) /\ [start |-> s, end |-> e] # range
    /\ Click
    /\ range' = [start |-> s, end |-> e]
    /\ \E n \in {NotLoaded} \cup 0..LastPage : pages' = n /\ LeadBack(n, TRUE)
    /\ UNCHANGED <<place, dropdown, export>>

-----------------------------------------------------------------------------
(* AddressFilterDropdown                                                   *)

ValueOf(f) == IF f = "from" THEN place.from ELSE place.to

\* setOpen: the input starts from the value of the address.
ToggleDropdown(f) ==
    /\ Click
    /\ dropdown' = IF dropdown.of = f THEN [dropdown EXCEPT !.of = "none"]
                   ELSE [of |-> f, input |-> ValueOf(f)]
    /\ UNCHANGED <<place, aim, range, pages, export, lately>>

TypeSender(v) ==
    /\ dropdown.of # "none" /\ v # dropdown.input
    /\ dropdown' = [dropdown EXCEPT !.input = v]
    /\ UNCHANGED <<place, aim, range, pages, export, lately, clicksLeft>>

\* handleAddressFilterChange: the first page; emptying the last one forgets the type.
Filtered(f, v) ==
    LET p == [place EXCEPT !.from = IF f = "from" THEN v ELSE @,
                           !.to   = IF f = "to" THEN v ELSE @, !.page = 1]
    IN IF p.from = AnyAddress /\ p.to = AnyAddress /\ v = AnyAddress THEN [p EXCEPT !.type = "All"] ELSE p

\* handleApply, on the button or Enter, and handleClear.
ApplyFilter ==
    /\ dropdown.of # "none" /\ Click
    /\ \E v \in {dropdown.input, AnyAddress} :
          LET p == Filtered(dropdown.of, v)
          IN /\ aim' = p
             /\ lately' = [lately EXCEPT !.from = p.from, !.to = p.to,
                                         !.replaced = @ \/ aim \notin {place, p}]
             /\ dropdown' = [dropdown EXCEPT !.of = "none", !.input = v]
    /\ UNCHANGED <<place, range, pages, export>>

-----------------------------------------------------------------------------
(* ExportTransactionsModal                                                 *)

\* The effect of the dialog: a date that is missing is a month ago, or today.
Dated(x) == [x EXCEPT !.from = IF @ = NoDate THEN Month ELSE @,
                      !.to   = IF @ = NoDate THEN Today ELSE @]

OpenExport ==
    /\ ~export.isExporting /\ ~export.show /\ Click
    /\ export' = Dated([export EXCEPT !.show = TRUE])
    /\ UNCHANGED <<place, aim, range, pages, dropdown, lately>>

\* The pickers bound each other, but not by today; an emptied one is filled in.
PickExportDate ==
    /\ export.show /\ Click
    /\ \E d \in {NoDate} \cup 0..(Today + 1) :
          /\ \/ d <= export.to /\ export' = Dated([export EXCEPT !.from = d])
             \/ (d = NoDate \/ d >= export.from) /\ export' = Dated([export EXCEPT !.to = d])
          /\ lately' = [lately EXCEPT !.filled = @ \/ d = NoDate]
    /\ UNCHANGED <<place, aim, range, pages, dropdown>>

\* handleExportWithRange and handleExportAll return while a file is waited for.
HandleExport ==
    /\ export.show /\ ~export.isExporting /\ Click
    /\ \/ export' = [export EXCEPT !.isExporting = TRUE, !.sentFrom = export.from, !.sentTo = export.to]
       \/ export' = [export EXCEPT !.isExporting = TRUE, !.sentFrom = NoDate, !.sentTo = NoDate]
    /\ UNCHANGED <<place, aim, range, pages, dropdown, lately>>

\* A variant of onClose that closes whatever is under way.
CloseAnyway == export.show

MayClose == export.show /\ ~export.isExporting

CancelExport ==
    /\ MayClose
    /\ export' = [export EXCEPT !.show = FALSE]
    /\ UNCHANGED <<place, aim, range, pages, dropdown, lately, clicksLeft>>

\* exportTransactionsToCSV: the file is saved and the dialog closes, or the error
\* is told and it stays.
ExportAnswered ==
    /\ export.isExporting
    /\ \E ok \in BOOLEAN : export' = [export EXCEPT !.isExporting = FALSE, !.show = @ /\ ~ok]
    /\ UNCHANGED <<place, aim, range, pages, dropdown, lately, clicksLeft>>

HistoryNext ==
    \/ Arrived \/ HistoryLoaded \/ ChangeHistoryPage
    \/ \E t \in Types : SelectType(t)
    \/ \E s, e \in 0..Today : PickDates(s, e)
    \/ \E f \in {"from", "to"} : ToggleDropdown(f)
    \/ \E v \in Senders \cup {AnyAddress} : TypeSender(v)
    \/ ApplyFilter
    \/ OpenExport \/ PickExportDate \/ HandleExport \/ CancelExport \/ ExportAnswered

HistorySpec == HistoryInit /\ [][HistoryNext]_historyVars

-----------------------------------------------------------------------------
\* Types of the state; the dates of the list are never out of order.
HistoryTypeOK ==
    /\ {place, aim} \subseteq [type : Types, from : Senders \cup {AnyAddress},
                               to : Senders \cup {AnyAddress}, page : 1..LastPage]
    /\ range.start \in 0..range.end /\ range.end <= Today /\ pages \in {NotLoaded} \cup 0..LastPage
    /\ dropdown \in [of : {"none", "from", "to"}, input : Senders \cup {AnyAddress}]
    /\ export.show => {export.from, export.to} \subseteq 0..(Today + 1)

\* A list that has come is never left on a page it does not have, also when a
\* filter that keeps the page shortens it, or the effect gives way to a click.
PageIsThere == aim = place /\ pages > 0 => place.page <= pages

\* The list is under the address filters applied last, unless a navigation took
\* the place of another that was under way, the effect's own included.
FiltersAreKept ==
    aim = place /\ ~lately.replaced => place.from = lately.from /\ place.to = lately.to

\* A file that is waited for belongs to the dialog on the screen, and its range is
\* in order, unless an emptied date was filled in: a day to come may be picked
\* first, and today then comes before it.
ExportsAsPicked ==
    export.isExporting =>
        /\ export.show
        /\ ~lately.filled => export.sentFrom <= export.sentTo
=============================================================================
