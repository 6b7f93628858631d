----------------------------- MODULE TradeOrders -----------------------------
(***************************************************************************)
(* Where orders are listed outside of their room: the tab of the user's    *)
(* trades, a cached query that the socket's events on orders make stale    *)
(* after a pause (useMyOrders), with the button of the small layout that   *)
(* opens an expired order again (mobile/order-card, useReopenOrder); and   *)
(* the dialog with the orders of an offer, which is filled by requests of  *)
(* its own (offer-orders-modal of the table of offers). The server's side  *)
(* is one order of the user's on a SELL offer, which is OPEN at once.      *)
(***************************************************************************)
EXTENDS Naturals

CONSTANTS MaxSteps,  \* changes of the order
          MaxReads   \* requests of the dialog for one offer at once

ASSUME TradeAssumption == {MaxSteps, MaxReads} \subseteq Nat \ {0}

VARIABLES trade,     \* the order in the database; at counts its changes
          letter,    \* an event on the order is on its way
          trades,    \* the cached query of the user's trades
          onTrades,  \* that tab is shown
          delay,     \* its debounce timer runs
          told,      \* history: how new the list has been told to be
          reopening, \* the request of the card on the screen
          earlier,   \* the request of a card that is gone
          modal,     \* the dialog with the orders of an offer
          asks       \* its requests that are not answered; crossed: history

tradeVars == <<trade, letter, trades, onTrades, delay, told, reopening, earlier, modal, asks>>

TradeStatuses == {"OPEN", "PENDING", "COMPLETED", "EXPIRED"}
NoTrade == [at |-> 0, status |-> "none", prev |-> "none"]
NoFetch == [at |-> 0, status |-> "idle", prev |-> "none"]
ReadsNow == [at |-> 0, status |-> "asked", prev |-> "none"]
NoReopening == [st |-> "none", at |-> 0]
TwoOffers == {1, 2}
NothingRead == [under |-> [o \in TwoOffers |-> 0], crossed |-> FALSE]
NoModal == [open |-> FALSE, offer |-> 0, orders |-> 0, isLoading |-> FALSE]

TradesInit ==
    /\ trade = NoTrade /\ letter = FALSE
    /\ trades = [shown |-> NoTrade, fetch |-> ReadsNow, stale |-> FALSE]
    /\ onTrades = TRUE /\ delay = FALSE /\ told = 0
    /\ reopening = NoReopening /\ earlier = NoReopening
    /\ modal = NoModal /\ asks = NothingRead

-----------------------------------------------------------------------------
(* The server.                                                             *)

GoesTo(status, prev) ==
    /\ trade.at < MaxSteps
    /\ trade' = [at |-> trade.at + 1, status |-> status, prev |-> prev]

\* An order is placed, paid and released, and both parties are told; it expires
\* and is opened again from its room without a word to the lists of orders.
OrderGoesOn ==
    /\ \/ /\ \/ trade.status = "none" /\ GoesTo("OPEN", "none")
             \/ trade.status = "OPEN" /\ GoesTo("PENDING", trade.prev)
             \/ trade.status = "PENDING" /\ GoesTo("COMPLETED", trade.prev)
          /\ letter' = TRUE
       \/ /\ \/ trade.status \in {"OPEN", "PENDING"} /\ GoesTo("EXPIRED", trade.status)
             \/ trade.status = "EXPIRED" /\ GoesTo(trade.prev, trade.prev)
          /\ UNCHANGED letter
    /\ UNCHANGED <<trades, onTrades, delay, told, reopening, earlier, modal, asks>>

-----------------------------------------------------------------------------
(* The user's trades.                                                      *)

\* A variant without cancelRefetch: a request under way will do.
TradesAskedOnce == IF onTrades /\ trades.fetch = NoFetch
                   THEN [trades EXCEPT !.fetch = ReadsNow, !.stale = FALSE]
                   ELSE [trades EXCEPT !.stale = ~onTrades]

\* invalidateQueries of MY_ORDERS: what is on the screen is asked for again, and
\* an answer under way is thrown away.
TradesAsked == IF onTrades THEN [trades EXCEPT !.fetch = ReadsNow, !.stale = FALSE]
               ELSE [trades EXCEPT !.stale = TRUE]

\* handleOrderRefresh; only the tab that is shown listens.
HandleOrderRefresh ==
    /\ letter /\ letter' = FALSE
    /\ IF onTrades THEN delay' = TRUE /\ told' = trade.at ELSE UNCHANGED <<delay, told>>
    /\ UNCHANGED <<trade, trades, onTrades, reopening, earlier, modal, asks>>

\* WS_INVALIDATE_DELAY after the last event.
TradesTimer ==
    /\ delay /\ delay' = FALSE
    /\ trades' = TradesAsked
    /\ UNCHANGED <<trade, letter, onTrades, told, reopening, earlier, modal, asks>>

GetMyOrders ==
    /\ trades.fetch = ReadsNow
    /\ trades' = [trades EXCEPT !.fetch = trade]
    /\ UNCHANGED <<trade, letter, onTrades, delay, told, reopening, earlier, modal, asks>>

TradesLand ==
    /\ trades.fetch \notin {NoFetch, ReadsNow}
    /\ trades' = [shown |-> trades.fetch, fetch |-> NoFetch, stale |-> FALSE]
    /\ UNCHANGED <<trade, letter, onTrades, delay, told, reopening, earlier, modal, asks>>

\* The retry fails too: what was shown stays.
TradesFail ==
    /\ trades.fetch = ReadsNow
    /\ trades' = [trades EXCEPT !.fetch = NoFetch] /\ told' = 0
    /\ UNCHANGED <<trade, letter, onTrades, delay, reopening, earlier, modal, asks>>

-----------------------------------------------------------------------------
(* The button of an expired order.                                         *)

\* The card offers it for whatever order it shows as expired, but not twice at once.
ReopenOrder ==
    /\ onTrades /\ trades.shown.status = "EXPIRED" /\ reopening = NoReopening
    /\ reopening' = [st |-> "sent", at |-> 0]
    /\ UNCHANGED <<trade, letter, trades, onTrades, delay, told, earlier, modal, asks>>

\* ReopenOrder of the service: only an expired order, and if its offer, which is not
\* followed here, has room for it.
Served(call) ==
    \/ /\ trade.status = "EXPIRED" /\ GoesTo(trade.prev, trade.prev)
       /\ call = [st |-> "done", at |-> trade'.at]
    \/ call = [st |-> "refused", at |-> 0] /\ UNCHANGED trade

ServerReopens ==
    /\ \/ reopening.st = "sent" /\ Served(reopening') /\ UNCHANGED earlier
       \/ earlier.st = "sent" /\ Served(earlier') /\ UNCHANGED reopening
    /\ UNCHANGED <<letter, trades, onTrades, delay, told, modal, asks>>

\* A variant that leaves the list to the timers: only a socket event refreshes it.
SettledUnheard(call) ==
    /\ trades' = trades
    /\ told' = IF call.st = "done" /\ onTrades /\ call.at > told THEN call.at ELSE told

\* onSuccess and onError, which run for a card that is gone as well.
OnSettled(call) ==
    /\ trades' = IF call.st = "done" THEN TradesAsked ELSE trades
    /\ told' = IF call.st = "done" /\ onTrades /\ call.at > told THEN call.at ELSE told

ReopenSettled ==
    /\ \/ /\ reopening.st \in {"done", "refused"} /\ OnSettled(reopening)
          /\ reopening' = NoReopening /\ UNCHANGED earlier
       \/ /\ earlier.st \in {"done", "refused"} /\ OnSettled(earlier)
          /\ earlier' = NoReopening /\ UNCHANGED reopening
    /\ UNCHANGED <<trade, letter, onTrades, delay, modal, asks>>

-----------------------------------------------------------------------------
(* The tabs, and the dialog of the table of offers.                        *)

\* The query is switched off with its listeners and its timer; the cards are gone.
\* At most one card that is gone still has its request (a bound).
LeaveTrades ==
    /\ onTrades /\ (reopening = NoReopening \/ earlier = NoReopening)
    /\ onTrades' = FALSE /\ delay' = FALSE /\ told' = 0
    /\ reopening' = NoReopening /\ earlier' = IF reopening = NoReopening THEN earlier ELSE reopening
    /\ UNCHANGED <<trade, letter, trades, modal, asks>>

\* The answer that is kept is asked for again when it is stale or old, unless a
\* request is under way. The table of offers goes with its dialog.
EnterTrades ==
    /\ ~ onTrades /\ ~ modal.open
    /\ onTrades' = TRUE /\ modal' = NoModal /\ asks' = NothingRead
    /\ \E old \in BOOLEAN :
          trades' = IF trades.fetch = NoFetch /\ (trades.stale \/ old)
                    THEN [trades EXCEPT !.fetch = ReadsNow, !.stale = FALSE] ELSE trades
    /\ UNCHANGED <<trade, letter, delay, told, reopening, earlier>>

\* A variant whose effect forgets setIsLoading(true).
ShowsTheRest(o) == [modal EXCEPT !.open = TRUE, !.offer = o]

\* The effect of the dialog on open and offer.
ShowsLoading(o) == [modal EXCEPT !.open = TRUE, !.offer = o, !.isLoading = TRUE]

OpenOrders(o) ==
    /\ ~ onTrades /\ ~ modal.open /\ asks.under[o] < MaxReads
    /\ modal' = ShowsLoading(o)
    /\ asks' = [under |-> [asks.under EXCEPT ![o] = @ + 1],
                 crossed |-> \E p \in TwoOffers : asks.under[p] > 0]
    /\ UNCHANGED <<trade, letter, trades, onTrades, delay, told, reopening, earlier>>

\* The rows and the requests stay.
CloseOrders ==
    /\ modal.open /\ modal' = [modal EXCEPT !.open = FALSE]
    /\ UNCHANGED <<trade, letter, trades, onTrades, delay, told, reopening, earlier, asks>>

\* then and finally: any answer is written, and a failure leaves the rows there were.
OrdersAnswered(o) ==
    /\ asks.under[o] > 0
    /\ \E ok \in BOOLEAN :
          /\ modal' = [modal EXCEPT !.orders = IF ok THEN o ELSE @, !.isLoading = FALSE]
          /\ asks' = [under |-> [asks.under EXCEPT ![o] = @ - 1],
                       crossed |-> IF ok THEN asks.crossed ELSE TRUE]
    /\ UNCHANGED <<trade, letter, trades, onTrades, delay, told, reopening, earlier>>

TradesNext ==
    \/ OrderGoesOn \/ HandleOrderRefresh \/ TradesTimer
    \/ GetMyOrders \/ TradesLand \/ TradesFail
    \/ ReopenOrder \/ ServerReopens \/ ReopenSettled
    \/ LeaveTrades \/ EnterTrades \/ CloseOrders
    \/ \E o \in TwoOffers : OpenOrders(o) \/ OrdersAnswered(o)

TradesSpec == TradesInit /\ [][TradesNext]_tradeVars

-----------------------------------------------------------------------------

\* Types of the lists of orders.
TradesTypeOK ==
    LET orders == [at : 0..MaxSteps, status : TradeStatuses \union {"none", "idle", "asked"},
                   prev : TradeStatuses \union {"none"}]
        calls == [st : {"none", "sent", "done", "refused"}, at : 0..MaxSteps]
    IN /\ trade \in orders /\ letter \in BOOLEAN
       /\ trades \in [shown : orders, fetch : orders, stale : BOOLEAN]
       /\ onTrades \in BOOLEAN /\ delay \in BOOLEAN /\ told \in 0..MaxSteps
       /\ reopening \in calls /\ earlier \in calls
       /\ modal \in [open : BOOLEAN, offer : 0..2, orders : 0..2, isLoading : BOOLEAN]
       /\ asks \in [under : [TwoOffers -> 0..MaxReads], crossed : BOOLEAN]

\* Once the pause is over and nothing is under way, the tab shows the order at
\* least as new as the last event or reopening it heard of, whatever answers were
\* on their way (useMyOrders and useReopenOrder).
TradesAreHeard == onTrades /\ ~ delay /\ trades.fetch = NoFetch => trades.shown.at >= told

\* The dialog shows the orders of its own offer, or that it is loading, unless an
\* answer failed or answers crossed (offer-orders-modal).
OrdersOfTheOffer == modal.open /\ ~ modal.isLoading /\ ~ asks.crossed => modal.orders = modal.offer
=============================================================================
