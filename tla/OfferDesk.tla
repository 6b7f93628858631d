------------------------------ MODULE OfferDesk ------------------------------
(***************************************************************************)
(* The lists of offers on the P2P page and what their rows let the owner   *)
(* of an offer do: the market and his own offers, each a cached query that *)
(* the socket's events make stale after a pause (hooks/useP2POffers,       *)
(* useP2PMyOffers), the button of a row (p2p-offers-list,                  *)
(* mobile/offer-card), and the dialog that cancels an offer with the       *)
(* refetch it schedules for afterwards (cancel-confirm-dialog,             *)
(* useCancelOffer). The server's side is one offer of this user and the    *)
(* order on it, as far as the lists show them. The third tab, the user's   *)
(* trades, is TradeOrders.                                                 *)
(***************************************************************************)
EXTENDS Naturals, FiniteSets

CONSTANTS MaxChanges,   \* changes of the market, the user's own included
          MaxDialogs    \* cancel dialogs mounted or still waiting for an answer

ASSUME DeskAssumption == MaxChanges \in Nat \ {0} /\ MaxDialogs \in Nat \ {0}

VARIABLES market,     \* the offer and its order in the database
          mail,       \* kinds of events of the socket service still on their way
          view,       \* the tab shown
          lists,      \* the cached queries, one a tab
          pause,      \* the debounce timer of the list shown
          heard,      \* history: how new the list shown has been told to be
          dialogs,    \* the mounts of the cancel dialog
          forgotten   \* history: lists whose refetch was dropped with a dialog

desk == <<market, mail, view, lists, pause, heard, dialogs, forgotten>>

Lists  == {"offers", "my-offers"}
Events == {"OFFER_LIST_REFRESH", "ORDER"}     \* ORDER_CREATED, ORDER_COMPLETED
Market == [at : 0..MaxChanges, offer : {"CONFIRMED", "CANCELED"},
           order : {"none", "OPEN", "DISPUTED"}]
NoAnswer == [at |-> 0, offer |-> "none", order |-> "none"]
Asked   == [at |-> 0, offer |-> "asked", order |-> "none"]
Dialogs == 1..MaxDialogs

-----------------------------------------------------------------------------
(* The server.                                                             *)

Active(m) == m.order = "OPEN"

\* CancelOffer refuses an offer that has ended, is traded or is disputed.
Cancellable(m) == m.offer = "CONFIRMED" /\ m.order \notin {"OPEN", "DISPUTED"}

Changed(fields, events) ==
    /\ market.at < MaxChanges
    /\ market' = [at |-> market.at + 1, offer |-> fields.offer, order |-> fields.order]
    /\ mail' = mail \cup events

\* An order is placed, completed, or expires unpaid or paid: who tells whom. One that
\* was completed or expired unpaid holds the offer no longer.
OthersTrade ==
    /\ \/ /\ market.offer = "CONFIRMED" /\ ~ Active(market)
          /\ Changed([market EXCEPT !.order = "OPEN"], {"OFFER_LIST_REFRESH", "ORDER"})
       \/ /\ Active(market)
          /\ \/ Changed([market EXCEPT !.order = "none"], {"ORDER"})
             \/ \E o \in {"none", "DISPUTED"} :
                    Changed([market EXCEPT !.order = o], {"OFFER_LIST_REFRESH"})
    /\ UNCHANGED <<view, lists, pause, heard, dialogs, forgotten>>

-----------------------------------------------------------------------------
(* The queries.                                                            *)

NewList == [shown |-> NoAnswer, fetch |-> NoAnswer, stale |-> TRUE]

\* A variant without cancelRefetch: a request already on its way will do.
RefetchedOnce(list, on) == IF on /\ list.fetch = NoAnswer
                           THEN [list EXCEPT !.fetch = Asked, !.stale = FALSE]
                           ELSE [list EXCEPT !.stale = ~ on]

\* A query on the screen asks again, and an answer on its way is thrown away; a
\* disabled one is only marked stale.
Refetched(list, on) == IF on THEN [list EXCEPT !.fetch = Asked, !.stale = FALSE]
                             ELSE [list EXCEPT !.stale = TRUE]

\* queryClient.invalidateQueries
Invalidated(which) ==
    [v \in Lists |-> IF v \in which THEN Refetched(lists[v], v = view) ELSE lists[v]]

Listens(v) == IF v = "offers" THEN {"OFFER_LIST_REFRESH"} ELSE {"ORDER"}

\* An event restarts the pause of the list shown; the other lists do not listen.
Heard ==
    /\ \E e \in mail :
          /\ mail' = mail \ {e}
          /\ IF e \in Listens(view) THEN pause' = TRUE /\ heard' = market.at
             ELSE UNCHANGED <<pause, heard>>
    /\ UNCHANGED <<market, view, lists, dialogs, forgotten>>

\* WS_INVALIDATE_DELAY after the last event the list is asked for again.
ListTimer ==
    /\ pause
    /\ pause' = FALSE
    /\ lists' = Invalidated({view})
    /\ UNCHANGED <<market, mail, view, heard, dialogs, forgotten>>

ServerReads(v) ==
    /\ lists[v].fetch = Asked
    /\ lists' = [lists EXCEPT ![v].fetch = market]
    /\ UNCHANGED <<market, mail, view, pause, heard, dialogs, forgotten>>

-----------------------------------------------------------------------------
(* The rows.                                                               *)

\* A variant that looks at the status of the offer only.
ActionOfStatus(row) == CASE row.offer = "none"     -> "nothing"
                         [] row.offer = "CANCELED" -> "canceled"
                         [] OTHER                  -> "cancel"

\* The ACTION cell of the table for an offer of this user.
RowAction(row) ==
    CASE row.offer = "none"                      -> "nothing"
      [] row.offer # "none" /\ Active(row)       -> "trading"
      [] row.offer = "CANCELED" /\ ~ Active(row) -> "canceled"
      [] OTHER                                   -> "cancel"

\* The market lists open offers only; the other list of offers shows all of them.
RowOf(v, all) ==
    IF v = "offers" /\ all[v].shown.offer = "CANCELED"
    THEN NoAnswer ELSE all[v].shown

OffersCancel(v, all) == RowAction(RowOf(v, all)) = "cancel"

\* A variant that keeps the dialog of a row that is gone on the screen.
UnmountedOpen(d) == [d EXCEPT !.mounted = FALSE, !.timer = FALSE]

\* A row that no longer offers to cancel unmounts its dialog, and the pause
\* that was to refetch the lists ends with it.
Unmounted(d) == IF d.mounted THEN [d EXCEPT !.mounted = FALSE, !.open = FALSE, !.timer = FALSE]
                ELSE d

RowsRendered(v, all) ==
    LET gone == {i \in Dialogs : dialogs[i].mounted /\ (v # view \/ ~ OffersCancel(v, all))}
    IN /\ dialogs' = [i \in Dialogs |-> IF i \in gone THEN Unmounted(dialogs[i]) ELSE dialogs[i]]
       /\ forgotten' = IF \E i \in gone : dialogs[i].timer
                       THEN {"offers", "my-offers"} ELSE forgotten

ListLands(v) ==
    /\ lists[v].fetch \notin {NoAnswer, Asked}
    /\ lists' = [lists EXCEPT ![v] = [shown |-> @.fetch, fetch |-> NoAnswer, stale |-> FALSE]]
    /\ RowsRendered(view, lists')
    /\ UNCHANGED <<market, mail, view, pause, heard>>

\* The retry fails too: what was shown before stays.
ListFails(v) ==
    /\ lists[v].fetch = Asked
    /\ lists' = [lists EXCEPT ![v].fetch = NoAnswer]
    /\ heard' = IF v = view THEN 0 ELSE heard
    /\ UNCHANGED <<market, mail, view, pause, dialogs, forgotten>>

\* The list left stops listening and drops its pause; the list entered asks
\* when its cache is stale, which time alone may have made it.
SwitchTab(v) ==
    /\ v # view
    /\ view' = v /\ pause' = FALSE /\ heard' = 0
    /\ \E expired \in BOOLEAN :
          lists' = IF lists[v].fetch = NoAnswer /\ (expired \/ lists[v].stale)
                   THEN [lists EXCEPT ![v] = Refetched(@, TRUE)] ELSE lists
    /\ RowsRendered(v, lists')
    /\ UNCHANGED <<market, mail>>

-----------------------------------------------------------------------------
(* Cancelling an offer.                                                    *)

OpenCancelDialog ==
    /\ OffersCancel(view, lists)
    /\ \/ \E i \in Dialogs : dialogs[i].mounted /\ ~ dialogs[i].open
                             /\ dialogs' = [dialogs EXCEPT ![i].open = TRUE]
       \/ /\ \A i \in Dialogs : ~ dialogs[i].mounted
          /\ \E i \in Dialogs :
                /\ dialogs[i].call = "none" /\ ~ dialogs[i].timer
                /\ dialogs' = [dialogs EXCEPT ![i].mounted = TRUE, ![i].open = TRUE]
    /\ UNCHANGED <<market, mail, view, lists, pause, heard, forgotten>>

\* Escape and the backdrop close it even while the call is on its way.
CloseCancelDialog(i) ==
    /\ dialogs[i].open
    /\ dialogs' = [dialogs EXCEPT ![i].open = FALSE]
    /\ UNCHANGED <<market, mail, view, lists, pause, heard, forgotten>>

HandleCancel(i) ==
    /\ dialogs[i].open /\ dialogs[i].call = "none"
    /\ dialogs' = [dialogs EXCEPT ![i].call = "sent"]
    /\ UNCHANGED <<market, mail, view, lists, pause, heard, forgotten>>

ServerCancels(i) ==
    /\ dialogs[i].call = "sent"
    /\ \/ /\ Cancellable(market)
          /\ Changed([market EXCEPT !.offer = "CANCELED"], {"OFFER_LIST_REFRESH"})
          /\ dialogs' = [dialogs EXCEPT ![i].call = "ok"]
       \/ /\ dialogs' = [dialogs EXCEPT ![i].call = "refused"]   \* or the answer is lost
          /\ UNCHANGED <<market, mail>>
    /\ UNCHANGED <<view, lists, pause, heard, forgotten>>

\* onSettled starts the pause whether or not the dialog is still mounted; a
\* success also closes the dialog, which no longer exists once unmounted.
CancelSettled(i) ==
    /\ dialogs[i].call \in {"ok", "refused"}
    /\ dialogs' = [dialogs EXCEPT ![i].call = "none", ![i].timer = TRUE,
                                  ![i].open = @ /\ dialogs[i].call = "refused"]
    /\ heard' = IF dialogs[i].call = "ok" THEN market.at ELSE heard
    /\ UNCHANGED <<market, mail, view, lists, pause, forgotten>>

CancelTimer(i) ==
    /\ dialogs[i].timer
    /\ dialogs' = [dialogs EXCEPT ![i].timer = FALSE]
    /\ lists' = Invalidated({"offers", "my-offers"})
    /\ forgotten' = {}
    /\ UNCHANGED <<market, mail, view, pause, heard>>

-----------------------------------------------------------------------------
DeskInit ==
    /\ market \in [at : {0}, offer : {"CONFIRMED"}, order : {"none", "OPEN"}]
    /\ mail = {}
    /\ view = "offers"
    /\ lists = [v \in Lists |-> IF v = "offers" THEN Refetched(NewList, TRUE) ELSE NewList]
    /\ dialogs = [i \in Dialogs |-> [mounted |-> FALSE, open |-> FALSE,
                                     call |-> "none", timer |-> FALSE]]
    /\ pause = FALSE /\ heard = 0
    /\ forgotten = {}

DeskNext ==
    \/ OthersTrade \/ Heard \/ ListTimer
    \/ \E v \in Lists : ServerReads(v) \/ ListLands(v) \/ ListFails(v) \/ SwitchTab(v)
    \/ OpenCancelDialog
    \/ \E i \in Dialogs :
          CloseCancelDialog(i) \/ HandleCancel(i) \/ ServerCancels(i) \/ CancelSettled(i)
            \/ CancelTimer(i)

DeskSpec == DeskInit /\ [][DeskNext]_desk

-----------------------------------------------------------------------------
(* Types, and a dialog is open only while its row is on the screen         *)
(* (useEffect's clean-up functions).                                       *)
DeskTypeOK ==
    /\ market \in Market
    /\ mail \subseteq Events
    /\ view \in Lists
    /\ lists \in [Lists -> [shown : Market \cup {NoAnswer}, stale : BOOLEAN,
                            fetch : Market \cup {NoAnswer, Asked}]]
    /\ \A i \in Dialogs : dialogs[i].open => dialogs[i].mounted /\ OffersCancel(view, lists)
    /\ forgotten \subseteq Lists

(* Once the page is quiet, the list on the screen is at least as new as    *)
(* every event it heard and as the user's own successful cancellation,     *)
(* unless the request failed or the row took the refetch away with it: an  *)
(* answer that was on its way when the event came never wins               *)
(* (useP2POffers and useCancelOffer's invalidateQueries).                  *)
ShownIsHeard ==
    view \notin forgotten /\ ~ pause /\ (\A i \in Dialogs : ~ dialogs[i].timer)
        => lists[view].fetch # NoAnswer \/ lists[view].shown.at >= heard

(* A row that is up to date offers to cancel only what the server will     *)
(* cancel, but for an order that expired after its payment, which no list  *)
(* tells apart (the ACTION cell and CancelOffer's checks).                 *)
OffersWhatIsAccepted ==
    OffersCancel(view, lists) /\ lists[view].shown = market /\ market.order # "DISPUTED"
        => Cancellable(market)
==============================================================================
