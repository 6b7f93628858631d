------------------------------ MODULE P2PTrading ------------------------------
(***************************************************************************)
(* Peer-to-peer trading of the dong-service, together with the part of the *)
(* indexer that settles deposits into the same tables.                     *)
(*                                                                         *)
(* Shared state: the rows of p2p_offers, p2p_orders and                    *)
(* intermediary_wallet, and the balances of the escrow wallets on the      *)
(* chain.  Actors: HTTP handlers (one goroutine per request, the elements  *)
(* of Slots), the CancelExpiredOrders job, the indexer's block commit, and *)
(* users who deposit on the chain whenever they like.                      *)
(*                                                                         *)
(* A handler that reads a row without a lock, and writes it later, takes   *)
(* two actions: what it read is gone from its slot except what it still    *)
(* uses.  A database transaction that holds row locks throughout is one    *)
(* action, save where a blockchain call sits inside it.                    *)
(***************************************************************************)
EXTENDS Integers, FiniteSets, Functions

CONSTANTS
    SellOffers,         \* offer rows of side SELL: the creator escrows up front
    BuyOffers,          \* offer rows of side BUY: each order brings its escrow
    Orders,             \* order rows
    Wallets,            \* intermediary (escrow) wallets
    Slots,              \* request goroutines that may be running at once
    OfferAmounts,       \* total amounts an offer may be created with
    OrderAmounts,       \* amounts an order may ask for
    MaxDeposits,        \* bound: deposits a user sends for one offer or order
    MaxActiveOffers,    \* MaxActiveOffersPerUser, for the one offer creator
    MaxActiveOrders     \* MaxActiveOrdersPerUser, for the one order creator

Offers == SellOffers \cup BuyOffers

ASSUME P2PAssumption ==
    /\ SellOffers \cap BuyOffers = {}
    /\ Offers # {}
    /\ Wallets # {}
    /\ Offers \cap Orders = {}
    /\ OfferAmounts \subseteq Nat \ {0}
    /\ OrderAmounts \subseteq Nat \ {0}
    /\ MaxDeposits \in Nat
    /\ MaxActiveOffers \in Nat
    /\ MaxActiveOrders \in Nat

VARIABLES
    offers,     \* p2p_offers
    orders,     \* p2p_orders
    wallets,    \* status column of intermediary_wallet
    balance,    \* what each escrow wallet holds on the chain
    pool,       \* deposits on the chain that no committed block has settled yet
    sent,       \* number of deposits sent for each offer or order
    slot,       \* what each request goroutine is doing
    refunding,  \* orders the expiry job has cancelled and still has to refund
    paid,       \* history: payouts the chain made for an order
    deposited,  \* history: offers and orders whose exact escrow reached the chain
    disturbed,  \* history: offers whose books a race has put out of balance
    lost        \* history: times the expiry job kept an order's amount from its offer

chainVars == <<balance, pool, sent, paid, deposited>>
history == <<disturbed, lost>>
vars == <<offers, orders, wallets, balance, pool, sent, slot, refunding,
          paid, deposited, disturbed, lost>>

-----------------------------------------------------------------------------
(* The tables. "NONE" is a row not inserted yet.                           *)

OfferStatus == {"NONE", "OPEN", "CONFIRMED", "CANCELED", "FAILED", "COMPLETED"}
OrderStatus == {"NONE", "WAITING_TRANSFER", "OPEN", "PENDING", "CONFIRMED", "COMPLETED",
                "EXPIRED", "FAILED"}
Active == {"WAITING_TRANSFER", "OPEN", "PENDING"}
Returned == {"EXPIRED", "FAILED"}   \* the amount went back to the offer

OfferRow == [status : OfferStatus, available : Nat, total : Nat, wallet : Wallets]
OrderRow == [status : OrderStatus, previous : OrderStatus, offer : Offers,
             amount : Nat, due : BOOLEAN, in_dispute : BOOLEAN]
WalletStatus == {"NONE", "READY", "IN_USE"}
Deposit == [id : Offers \cup Orders, amount : Nat, ok : BOOLEAN, n : Nat]

Idle == [op |-> "idle"]
OrderOps == {"buyer", "seller", "paid"}
CancelOps == {"cancel", "undisputed", "inactive", "refunded"}
Requests == {Idle} \cup [op : {"offer"}]
            \cup [op : {"order"}, offer : Offers, amount : Nat]
            \cup [op : OrderOps, order : Orders]
            \cup [op : CancelOps, offer : Offers, amount : Nat]

OrdersOf(f) == {o \in Orders : orders[o].status # "NONE" /\ orders[o].offer = f}
ActiveOrders(f) == {o \in OrdersOf(f) : orders[o].status \in Active}

(* The order row lock a seller's confirmation holds while it waits for the
   chain: its transaction updated the row before the transfer.             *)
Locked(o) == \E s \in Slots : slot[s].op = "paid" /\ slot[s].order = o

(* TransferMoney: it reports success only for a finalized transaction. An
   error leaves the money where it was, or, when the status poll gives up
   on a transaction that finalizes later, moves it all the same.           *)
Outcomes(w, a) ==
    {[err |-> TRUE, moved |-> 0]} \cup
    (IF balance[w] >= a
     THEN {[err |-> FALSE, moved |-> a], [err |-> TRUE, moved |-> a]} ELSE {})

Debit(w, r) == balance' = [balance EXCEPT ![w] = @ - r.moved]

NoRow == [status |-> "NONE", previous |-> "NONE", offer |-> CHOOSE f \in Offers : TRUE,
          amount |-> 0, due |-> FALSE, in_dispute |-> FALSE]

Init ==
    /\ offers = [f \in Offers |->
           [status |-> "NONE", available |-> 0, total |-> 0,
            wallet |-> CHOOSE w \in Wallets : TRUE]]
    /\ orders = [o \in Orders |-> NoRow]
    /\ wallets = [w \in Wallets |-> "NONE"]
    /\ balance = [w \in Wallets |-> 0]
    /\ pool = {}
    /\ sent = [i \in Offers \cup Orders |-> 0]
    /\ slot = [s \in Slots |-> Idle]
    /\ refunding = {}
    /\ paid = [o \in Orders |-> 0]
    /\ deposited = {}
    /\ disturbed = {}
    /\ lost = [o \in Orders |-> 0]

-----------------------------------------------------------------------------
(* Requests.                                                               *)

Begin(s, r) == slot[s] = Idle /\ slot' = [slot EXCEPT ![s] = r]
Finish(s) == slot' = [slot EXCEPT ![s] = Idle]

(* A request ends with no further effect: it is rejected, a query fails,
   its client disconnects.  Whatever its transaction wrote is rolled back.  *)
Abandon(s) ==
    /\ slot[s] # Idle
    /\ Finish(s)
    /\ UNCHANGED <<offers, orders, wallets, refunding, chainVars, history>>

(* CreateOffer, outside any transaction: the active offers are counted.     *)
CountActiveOffers(s) ==
    /\ Cardinality({f \in Offers : offers[f].status \in {"OPEN", "CONFIRMED"}})
         < MaxActiveOffers
    /\ Begin(s, [op |-> "offer"])
    /\ UNCHANGED <<offers, orders, wallets, refunding, chainVars, history>>

(* CreateOffer, the transaction: a READY wallet is taken, or a new one is
   generated when there is none.  SELL offers wait for their escrow.        *)
CreateOffer(s, f, w, a) ==
    /\ slot[s].op = "offer"
    /\ offers[f].status = "NONE"
    /\ \/ wallets[w] = "READY"
       \/ wallets[w] = "NONE" /\ \A v \in Wallets : wallets[v] # "READY"
    /\ wallets' = [wallets EXCEPT ![w] = "IN_USE"]
    /\ offers' = [offers EXCEPT ![f] =
           [status |-> IF f \in BuyOffers THEN "CONFIRMED" ELSE "OPEN",
            available |-> a, total |-> a, wallet |-> w]]
    /\ Finish(s)
    /\ UNCHANGED <<orders, refunding, chainVars, history>>

(* CreateOrder, the handler: the offer is read without a lock.              *)
ReadOfferForOrder(s, f, a) ==
    /\ offers[f].status = "CONFIRMED"
    /\ a <= offers[f].total
    /\ Begin(s, [op |-> "order", offer |-> f, amount |-> a])
    /\ UNCHANGED <<offers, orders, wallets, refunding, chainVars, history>>

(* Mutant: the UPDATE has no WHERE on the amount.                            *)
ReserveUnchecked(f, a) == offers' = [offers EXCEPT ![f].available = @ - a]

(* ReserveQuantity: UPDATE ... WHERE available_amount >= $1.                *)
Reserve(f, a) ==
    /\ offers[f].available >= a
    /\ offers' = [offers EXCEPT ![f].available = @ - a]

(* CreateOrder, the transaction.  Under the offer's row lock it counts the
   user's active orders and reserves; the status it read is not looked at
   again.                                                                   *)
CreateOrder(s, o) ==
    LET f == slot[s].offer
        a == slot[s].amount
    IN  /\ slot[s].op = "order"
        /\ orders[o].status = "NONE"
        /\ Cardinality({p \in Orders : orders[p].status \in Active}) < MaxActiveOrders
        /\ Reserve(f, a)
        /\ orders' = [orders EXCEPT ![o] =
               [status |-> IF f \in BuyOffers THEN "WAITING_TRANSFER" ELSE "OPEN",
                previous |-> "NONE", offer |-> f, amount |-> a,
                due |-> FALSE, in_dispute |-> FALSE]]
        /\ Finish(s)
        /\ UNCHANGED <<wallets, refunding, chainVars, history>>

(* ConfirmOrder, the handler: order and expiry time are read without a lock,
   and the order's status is tested on that copy.                           *)
ReadOrderForConfirm(s, o, role) ==
    /\ orders[o].status = IF role = "buyer" THEN "OPEN" ELSE "PENDING"
    /\ ~orders[o].due
    /\ Begin(s, [op |-> role, order |-> o])
    /\ UNCHANGED <<offers, orders, wallets, refunding, chainVars, history>>

(* An order confirmed after its amount went back to the offer.              *)
Disturb(o) ==
    disturbed' = IF orders[o].status \in Returned
                 THEN disturbed \cup {orders[o].offer} ELSE disturbed

(* ConfirmOrderAsBuyer: UPDATE ... SET status = 'PENDING' WHERE order_id.   *)
BuyerConfirm(s) ==
    LET o == slot[s].order
    IN  /\ slot[s].op = "buyer"
        /\ ~Locked(o)
        /\ orders' = [orders EXCEPT ![o].status = "PENDING",
                                    ![o].previous = orders[o].status]
        /\ Disturb(o)
        /\ Finish(s)
        /\ UNCHANGED <<offers, wallets, refunding, chainVars, lost>>

(* Mutant: the transfer's error is ignored.                                  *)
SellerTransferUnchecked(s) ==
    LET o == slot[s].order
        w == offers[orders[o].offer].wallet
    IN  /\ slot[s].op = "seller"
        /\ ~Locked(o)
        /\ \E r \in Outcomes(w, orders[o].amount) :
              /\ Debit(w, r)
              /\ paid' = [paid EXCEPT ![o] = @ + IF r.moved > 0 THEN 1 ELSE 0]
        /\ slot' = [slot EXCEPT ![s] = [op |-> "paid", order |-> o]]
        /\ UNCHANGED <<offers, orders, wallets, pool, sent, refunding, deposited, history>>

(* ConfirmOrderAsSeller up to TransferMoney: the order row is updated, hence
   locked, and the escrow pays.  On an error the handler releases the amount
   and fails the order, then returns the error: all of it is rolled back.   *)
SellerTransfer(s) ==
    LET o == slot[s].order
        w == offers[orders[o].offer].wallet
    IN  /\ slot[s].op = "seller"
        /\ ~Locked(o)
        /\ \E r \in Outcomes(w, orders[o].amount) :
              /\ Debit(w, r)
              /\ paid' = [paid EXCEPT ![o] = @ + IF r.moved > 0 THEN 1 ELSE 0]
              /\ slot' = [slot EXCEPT ![s] =
                     IF r.err THEN Idle ELSE [op |-> "paid", order |-> o]]
        /\ UNCHANGED <<offers, orders, wallets, pool, sent, refunding, deposited, history>>

(* ReleaseIntermediaryWalletIfOfferComplete writes on a connection of its
   own: the release survives a rollback.                                    *)
ReleaseIfSoldOut(f) ==
    wallets' = IF offers[f].available = 0
               THEN [wallets EXCEPT ![offers[f].wallet] = "READY"] ELSE wallets

(* ConfirmOrderAsSeller after a successful transfer: COMPLETED, then
   CheckAndCompleteIfEmpty.                                                 *)
SellerComplete(s) ==
    LET o == slot[s].order
        f == orders[o].offer
    IN  /\ slot[s].op = "paid"
        /\ orders' = [orders EXCEPT ![o].status = "COMPLETED",
                                    ![o].previous = "CONFIRMED"]
        /\ offers' = IF offers[f].available <= 0
                     THEN [offers EXCEPT ![f].status = "COMPLETED"] ELSE offers
        /\ ReleaseIfSoldOut(f)
        /\ Disturb(o)
        /\ Finish(s)
        /\ UNCHANGED <<refunding, chainVars, lost>>

(* The same, when the commit fails once the wallet has been released.       *)
SellerLosesCommit(s) ==
    /\ slot[s].op = "paid"
    /\ ReleaseIfSoldOut(orders[slot[s].order].offer)
    /\ Finish(s)
    /\ UNCHANGED <<offers, orders, refunding, chainVars, history>>

(* CancelOffer, the handler: the offer is read without a lock.  amount is
   what the escrow will be asked to return (needsRefund), 0 for nothing.    *)
ReadOfferForCancel(s, f) ==
    /\ offers[f].status \in {"OPEN", "CONFIRMED"}
    /\ Begin(s, [op |-> "cancel", offer |-> f,
                 amount |-> IF offers[f].status = "CONFIRMED" /\ f \in SellOffers
                            THEN offers[f].available ELSE 0])
    /\ UNCHANGED <<offers, orders, wallets, refunding, chainVars, history>>

(* CancelOffer: HasDisputedOrders.                                          *)
CheckDisputes(s) ==
    /\ slot[s].op = "cancel"
    /\ \A o \in OrdersOf(slot[s].offer) : ~orders[o].in_dispute
    /\ slot' = [slot EXCEPT ![s].op = "undisputed"]
    /\ UNCHANGED <<offers, orders, wallets, refunding, chainVars, history>>

(* CancelOffer: HasActiveOrders; with nothing to refund the status is next.  *)
CheckActive(s) ==
    /\ slot[s].op = "undisputed"
    /\ ActiveOrders(slot[s].offer) = {}
    /\ slot' = [slot EXCEPT ![s].op = IF slot[s].amount > 0 THEN "inactive" ELSE "refunded"]
    /\ UNCHANGED <<offers, orders, wallets, refunding, chainVars, history>>

(* CancelOffer: the refund of what was available when the offer was read.   *)
RefundOffer(s) ==
    LET w == offers[slot[s].offer].wallet IN
    /\ slot[s].op = "inactive"
    /\ \E r \in Outcomes(w, slot[s].amount) :
          /\ Debit(w, r)
          /\ slot' = [slot EXCEPT ![s] = IF r.err THEN Idle ELSE [@ EXCEPT !.op = "refunded"]]
    /\ UNCHANGED <<offers, orders, wallets, pool, sent, refunding, paid, deposited, history>>

(* CancelOffer: the status is written whatever it is by now, the wallet is
   released on a connection of its own, and the commit may still fail.      *)
CancelCommit(s, committed) ==
    LET f == slot[s].offer
    IN  /\ slot[s].op = "refunded"
        /\ offers' = IF committed THEN [offers EXCEPT ![f].status = "CANCELED"] ELSE offers
        /\ wallets' = [wallets EXCEPT ![offers[f].wallet] = "READY"]
        /\ Finish(s)
        /\ UNCHANGED <<orders, refunding, chainVars, history>>

(* Mutant: the amount is checked but not reserved again.                    *)
ReopenOrderUnreserved(o) ==
    LET f == orders[o].offer
    IN  /\ orders[o].status = "EXPIRED"
        /\ ~Locked(o)
        /\ offers[f].status = "CONFIRMED"
        /\ offers[f].available >= orders[o].amount
        /\ orders' = [orders EXCEPT
               ![o].status = IF orders[o].previous # "NONE"
                             THEN orders[o].previous ELSE "OPEN",
               ![o].due = FALSE]
        /\ UNCHANGED <<offers, wallets, slot, refunding, chainVars, history>>

(* ReopenOrder: one transaction under the locks of the order and its offer. *)
ReopenOrder(o) ==
    LET f == orders[o].offer
    IN  /\ orders[o].status = "EXPIRED"
        /\ ~Locked(o)
        /\ offers[f].status = "CONFIRMED"
        /\ Reserve(f, orders[o].amount)
        /\ orders' = [orders EXCEPT
               ![o].status = IF orders[o].previous # "NONE"
                             THEN orders[o].previous ELSE "OPEN",
               ![o].due = FALSE]
        /\ UNCHANGED <<wallets, slot, refunding, chainVars, history>>

-----------------------------------------------------------------------------
(* The expiry job, the indexer, the chain and time.                        *)

(* Mutant: an order in PENDING never expires.                               *)
OverdueOrdersNotPending ==
    {o \in Orders : orders[o].status \in {"OPEN", "WAITING_TRANSFER"} /\ orders[o].due}
OverdueOrders == {o \in Orders : orders[o].status \in Active /\ orders[o].due}

(* An order whose creator's escrow the job sends back: previous_status OPEN. *)
Refundable(o) == orders[o].status = "OPEN" /\ orders[o].offer \in BuyOffers

(* CancelExpiredOrders, one statement: every overdue active order expires,
   and each of their offers gets the amount of one of them back, since
   UPDATE ... FROM joins a target row at most once.  The rows returned, and
   refunded later, are those of the restored orders only.                  *)
CancelExpiredOrders ==
    LET expired == OverdueOrders
        from == {orders[o].offer : o \in expired}
    IN  /\ refunding = {}
        /\ expired # {}
        /\ \A o \in expired : ~Locked(o)
        /\ \E restored \in SUBSET expired :
              /\ \A f \in from : \E o \in restored : orders[o].offer = f
              /\ \A o, p \in restored : orders[o].offer = orders[p].offer => o = p
              /\ offers' = [f \in Offers |->
                     IF f \in from
                     THEN [offers[f] EXCEPT !.available =
                              @ + orders[CHOOSE o \in restored : orders[o].offer = f].amount]
                     ELSE offers[f]]
              /\ refunding' = {o \in restored : Refundable(o)}
              /\ lost' = [o \in Orders |->
                     IF o \in expired \ restored THEN lost[o] + 1 ELSE lost[o]]
        /\ orders' = [o \in Orders |->
               IF o \in expired
               THEN [orders[o] EXCEPT !.status = "EXPIRED",
                                      !.previous = orders[o].status,
                                      !.in_dispute = (orders[o].status = "PENDING")]
               ELSE orders[o]]
        /\ UNCHANGED <<wallets, slot, chainVars, disturbed>>

(* processRefunds: the order's creator gets its escrow back; an error is
   logged and the refund is never tried again.                             *)
RefundExpiredOrder(o) ==
    LET w == offers[orders[o].offer].wallet
    IN  /\ o \in refunding
        /\ \E r \in Outcomes(w, orders[o].amount) : Debit(w, r)
        /\ refunding' = refunding \ {o}
        /\ UNCHANGED <<offers, orders, wallets, pool, sent, slot, paid, deposited, history>>

(* The dong-service stops: running requests and pending refunds are gone,
   the database rolls their transactions back.                             *)
Crash ==
    /\ \/ refunding # {}
       \/ \E s \in Slots : slot[s] # Idle
    /\ slot' = [s \in Slots |-> Idle]
    /\ refunding' = {}
    /\ UNCHANGED <<offers, orders, wallets, chainVars, history>>

(* expires_at passes.                                                      *)
Lapse(o) ==
    /\ orders[o].status # "NONE"
    /\ ~orders[o].due
    /\ orders' = [orders EXCEPT ![o].due = TRUE]
    /\ UNCHANGED <<offers, wallets, slot, refunding, chainVars, history>>

(* The offer whose wallet a deposit for i goes to, and the amount the
   indexer will require of it.                                             *)
OfferOf(i) == IF i \in Offers THEN i ELSE orders[i].offer
Created(i) == IF i \in Offers THEN i \in SellOffers /\ offers[i].status # "NONE"
              ELSE orders[i].status # "NONE" /\ orders[i].offer \in BuyOffers
Escrow(i) == IF i \in Offers THEN offers[i].total ELSE orders[i].amount

(* A user's deposit for a SELL offer, or for an order on a BUY offer, gets
   into a block, finalized (ok) or failed.                                 *)
SendDeposit(i, a, ok) ==
    /\ Created(i)
    /\ sent[i] < MaxDeposits
    /\ sent' = [sent EXCEPT ![i] = @ + 1]
    /\ pool' = pool \cup {[id |-> i, amount |-> a, ok |-> ok, n |-> sent[i]]}
    /\ balance' = IF ok THEN [balance EXCEPT ![offers[OfferOf(i)].wallet] = @ + a]
                  ELSE balance
    /\ deposited' = IF ok /\ a = Escrow(i) THEN deposited \cup {i} ELSE deposited
    /\ UNCHANGED <<offers, orders, wallets, slot, refunding, paid, history>>

(* What the deposits of a block change, in the order the indexer applies it:
   updateOfferStatus, updateOrderStatus, failOrderStatus, failOfferStatus.  *)
ConfirmedOffersAnyAmount(block) ==      \* mutant: the amount is not compared
    {f \in SellOffers : offers[f].status = "OPEN" /\ \E t \in block : t.id = f /\ t.ok}
ConfirmedOffersAnyStatus(block) ==      \* mutant: WHERE status = 'OPEN' is missing
    {f \in SellOffers : \E t \in block : t.id = f /\ t.ok /\ t.amount = offers[f].available}
ConfirmedOffers(block) ==
    {f \in SellOffers : /\ offers[f].status = "OPEN"
                        /\ \E t \in block : /\ t.id = f /\ t.ok
                                            /\ t.amount = offers[f].available}
OpenedOrdersAnyOutcome(block) ==        \* mutant: the status is not looked at
    {o \in Orders : /\ orders[o].status = "WAITING_TRANSFER"
                    /\ \E t \in block : t.id = o /\ t.amount = orders[o].amount}
OpenedOrders(block) ==
    {o \in Orders : /\ orders[o].status = "WAITING_TRANSFER"
                    /\ \E t \in block : t.id = o /\ t.ok /\ t.amount = orders[o].amount}
FailedOrderTxsAnyStatus(block) ==       \* mutant: a settled order fails again
    {t \in block : ~t.ok /\ t.id \in Orders \ OpenedOrders(block)}
FailedOrderTxs(block) ==
    {t \in block : /\ ~t.ok /\ t.id \in Orders \ OpenedOrders(block)
                   /\ orders[t.id].status = "WAITING_TRANSFER"}
FailedOffers(block) ==
    {f \in SellOffers \ ConfirmedOffers(block) :
        offers[f].status = "OPEN" /\ \E t \in block : t.id = f /\ ~t.ok}
FailedOrderTxsOf(f, block) == {t \in FailedOrderTxs(block) : orders[t.id].offer = f}
ReleaseByOffer(block) ==
    [f \in Offers |-> SumFunctionOnSet([t \in block |-> orders[t.id].amount],
                                       FailedOrderTxsOf(f, block))]

(* The indexer commits a block: one transaction.  A failed deposit fails its
   order and releases the amount, once per failed transaction.              *)
IndexBlock(block) ==
    LET confirmed == ConfirmedOffers(block)
        opened == OpenedOrders(block)
        failed == {t.id : t \in FailedOrderTxs(block)}
        failedOffers == FailedOffers(block)
        release == ReleaseByOffer(block)
        releasing == {orders[o].offer : o \in failed}
    IN  /\ block # {}
        /\ pool' = pool \ block
        /\ offers' = [f \in Offers |->
               [offers[f] EXCEPT
                   !.status = IF f \in confirmed THEN "CONFIRMED"
                              ELSE IF f \in failedOffers THEN "FAILED" ELSE @,
                   !.available = IF f \in releasing THEN @ + release[f] ELSE @]]
        /\ orders' = [o \in Orders |->
               [orders[o] EXCEPT !.status = IF o \in opened THEN "OPEN"
                                            ELSE IF o \in failed THEN "FAILED" ELSE @]]
        /\ wallets' = [w \in Wallets |->
               IF wallets[w] = "IN_USE" /\ \E f \in failedOffers : offers[f].wallet = w
               THEN "READY" ELSE wallets[w]]
        /\ disturbed' = disturbed \cup
               {orders[t.id].offer : t \in {u \in FailedOrderTxs(block) :
                    \E v \in FailedOrderTxs(block) : v # u /\ v.id = u.id}}
        /\ UNCHANGED <<slot, refunding, balance, sent, paid, deposited, lost>>

HandlerStep(s) ==
    \/ \E f \in Offers, w \in Wallets, a \in OfferAmounts : CreateOffer(s, f, w, a)
    \/ \E o \in Orders : CreateOrder(s, o)
    \/ BuyerConfirm(s)
    \/ SellerTransfer(s)
    \/ SellerComplete(s)
    \/ SellerLosesCommit(s)
    \/ CheckDisputes(s)
    \/ CheckActive(s)
    \/ RefundOffer(s)
    \/ \E committed \in BOOLEAN : CancelCommit(s, committed)
    \/ Abandon(s)

Request(s) ==
    \/ CountActiveOffers(s)
    \/ \E f \in Offers, a \in OrderAmounts : ReadOfferForOrder(s, f, a)
    \/ \E o \in Orders, role \in {"buyer", "seller"} : ReadOrderForConfirm(s, o, role)
    \/ \E f \in Offers : ReadOfferForCancel(s, f)

Users ==
    \/ \E o \in Orders : ReopenOrder(o) \/ Lapse(o)
    \/ \E i \in Offers \cup Orders, a \in OfferAmounts \cup OrderAmounts, ok \in BOOLEAN :
          SendDeposit(i, a, ok)

Next ==
    \/ \E s \in Slots : Request(s) \/ HandlerStep(s)
    \/ Users
    \/ CancelExpiredOrders
    \/ \E o \in Orders : RefundExpiredOrder(o)
    \/ \E block \in SUBSET pool : IndexBlock(block)
    \/ Crash

Spec == Init /\ [][Next]_vars

(* Requests finish or time out, and the scheduler's ticker keeps running the
   expiry job until it has nothing left to do.                              *)
Fairness ==
    /\ \A s \in Slots : WF_vars(HandlerStep(s))
    /\ WF_vars(CancelExpiredOrders)
    /\ \A o \in Orders : WF_vars(RefundExpiredOrder(o))

LiveSpec == Spec /\ Fairness

-----------------------------------------------------------------------------
(* Properties.                                                             *)

TypeOK ==
    /\ offers \in [Offers -> OfferRow]
    /\ orders \in [Orders -> OrderRow]
    /\ wallets \in [Wallets -> WalletStatus]
    /\ balance \in [Wallets -> Nat]
    /\ pool \subseteq Deposit /\ IsFiniteSet(pool)
    /\ sent \in [Offers \cup Orders -> Nat]
    /\ slot \in [Slots -> Requests]
    /\ refunding \subseteq Orders
    /\ paid \in [Orders -> Nat]
    /\ deposited \subseteq Offers \cup Orders
    /\ disturbed \subseteq Offers
    /\ lost \in [Orders -> Nat]

(* An order is funded once the chain has seen the exact escrow it draws on:
   the offer's for a SELL offer, its own for a BUY offer.                   *)
Funded(o) == (IF orders[o].offer \in SellOffers THEN orders[o].offer ELSE o) \in deposited

(* Whatever the requests, the job, the indexer and a crash interleave to, the
   service never asks an escrow wallet to pay for an order, refund an order or
   refund a canceled offer whose own deposit never reached the chain: the
   indexer's amount check and the statuses the three spenders test are enough
   (SellerTransfer, processRefunds, CancelOffer).                           *)
SpendingWasFunded ==
    /\ \A o \in Orders : paid[o] > 0 => Funded(o)
    /\ \A o \in refunding : Funded(o)
    /\ \A s \in Slots : slot[s].op \in CancelOps /\ slot[s].amount > 0
                            => slot[s].offer \in deposited

(* An order row reads COMPLETED only if the chain paid it: the commit comes
   after the transfer, and a lost commit leaves another status
   (ConfirmOrderAsSeller).                                                  *)
CompletedOrdersWerePaid ==
    \A o \in Orders : orders[o].status = "COMPLETED" => paid[o] > 0

(* What an offer has left, what its active and completed orders hold, and what
   the one-row-per-offer UPDATE of CancelExpiredOrders dropped, add up to its
   total, unless an order of it was confirmed after its amount had gone back, or
   failed twice in one block.  So reservation, expiry, reopening, failure and
   completion keep the books in every interleaving, and only those two races
   disturb them.                                                            *)
Charge(o) == (IF orders[o].status \in Active \cup {"COMPLETED"} THEN orders[o].amount ELSE 0)
             + lost[o] * orders[o].amount
Charged(f) == SumFunctionOnSet([o \in Orders |-> Charge(o)], OrdersOf(f))
BooksBalance ==
    \A f \in Offers \ disturbed : offers[f].available + Charged(f) = offers[f].total

(* An offer that was canceled, failed or sold out never trades again: a deposit
   that lands after a cancellation, a stale cancellation or a late completion
   moves it between closed statuses only.                                   *)
OfferClosed(f) == offers[f].status \in {"CANCELED", "FAILED", "COMPLETED"}
ClosedOffersStayClosed == [][\A f \in Offers : OfferClosed(f) => OfferClosed(f)']_vars

(* An active order past its expiry time is not held forever: the job runs
   again and again, and waits for a row lock only as long as a request lives. *)
OverdueOrdersSettle ==
    \A o \in Orders :
        (orders[o].status \in Active /\ orders[o].due)
          ~> ~(orders[o].status \in Active /\ orders[o].due)

(* The abstract life of an order's escrow, read off the tables and the chain:
   every step of the service places, funds or pays one order, or changes none
   of it.                                                                   *)
EscrowPhase ==
    [o \in Orders |-> IF orders[o].status = "NONE" THEN "absent"
                      ELSE IF paid[o] > 0 THEN "paid"
                      ELSE IF Funded(o) THEN "funded" ELSE "unfunded"]
Escrowed == INSTANCE OrderEscrow WITH escrow <- EscrowPhase
ImplementsOrderEscrow == Escrowed!Spec

(* The inductive strengthening of SpendingWasFunded and
   CompletedOrdersWerePaid.  An offer trades only once its escrow is in; what a
   request or the job has read and still acts on was funded when it was read,
   and stays so; a deposit in the pool with the right amount is on the chain. *)
Trades(f) == offers[f].status \notin {"NONE", "OPEN"} /\ (f \in SellOffers => f \in deposited)
Placed(o) == orders[o].status # "NONE"
OfferInv(f) ==
    /\ offers[f].status = "CONFIRMED" => Trades(f)
    /\ offers[f].status = "OPEN" => /\ f \in SellOffers
                                    /\ offers[f].available = offers[f].total
OffersInv == \A f \in Offers : OfferInv(f)
OrderInv(o) ==
    /\ Placed(o) => Trades(orders[o].offer) /\ orders[o].amount > 0
    /\ orders[o].status \in {"OPEN", "PENDING", "COMPLETED"} => Funded(o)
    /\ orders[o].status = "EXPIRED" =>
          /\ orders[o].previous \in Active
          /\ orders[o].previous # "WAITING_TRANSFER" => Funded(o)
    /\ paid[o] > 0 => Placed(o) /\ Funded(o)
    /\ orders[o].status = "COMPLETED" => paid[o] > 0
OrdersInv == \A o \in Orders : OrderInv(o)
RequestInv(r) ==
    /\ r.op = "order" => Trades(r.offer) /\ r.amount > 0
    /\ r.op \in OrderOps => Placed(r.order) /\ Funded(r.order)
    /\ r.op = "paid" => paid[r.order] > 0
    /\ r.op \in CancelOps =>
          /\ offers[r.offer].status # "NONE"
          /\ r.amount > 0 => r.offer \in deposited
SlotsInv == \A s \in Slots : RequestInv(slot[s])
RefundsInv == \A o \in refunding : Placed(o) /\ Funded(o)
PoolInv ==
    \A t \in pool :
        /\ Created(t.id)
        /\ t.ok /\ t.amount = Escrow(t.id) => t.id \in deposited
FundedInv == OffersInv /\ OrdersInv /\ SlotsInv /\ RefundsInv /\ PoolInv

(* The inductive strengthening of BooksBalance: only orders that exist are in
   the books, there are finitely many of them, and none is left CONFIRMED, a
   status the code writes as a previous one only.                           *)
BooksInv ==
    /\ BooksBalance
    /\ IsFiniteSet({o \in Orders : Placed(o)})
    /\ \A o \in Orders : ~Placed(o) => lost[o] = 0
    /\ \A o \in Orders : orders[o].status # "CONFIRMED"

(* What comments of the code say, and the code does not do.                 *)

(* Migration 009: "READY=Available for use, IN_USE=Currently assigned", so a
   wallet becomes READY only when no active order draws on it.              *)
ReleasedWalletsAreFree ==
    [][\A f \in Offers :
          (/\ offers[f].status # "NONE"
           /\ wallets[offers[f].wallet] = "IN_USE"
           /\ wallets'[offers[f].wallet] = "READY") => ActiveOrders(f)' = {}]_vars
=============================================================================
