-------------------------- MODULE P2PTradingProofs --------------------------
(***************************************************************************)
(* P2PTrading, for every set of offers, orders, wallets and concurrent     *)
(* requests: its type invariant; FundInv is inductive, and from it an      *)
(* offer is funded before it is open and nothing is paid out twice; and    *)
(* what the orders of an offer are charged is, with what it has available, *)
(* its total.                                                              *)
(***************************************************************************)
EXTENDS P2PTrading, SumTheorems

-----------------------------------------------------------------------------
(* What a goroutine keeps, by the operation it is in.                       *)
LEMMA RequestFields ==
    ASSUME NEW r \in Requests
    PROVE  /\ r.op = "order" => r.offer \in Offers /\ r.amount \in Nat
           /\ r.op \in OrderOps => r.order \in Orders
           /\ r.op \in CancelOps => r.offer \in Offers /\ r.amount \in Nat
BY DEF Requests, OrderOps, CancelOps, Idle

(* What the handlers put into their slots are requests.                     *)
LEMMA RequestIntro ==
    /\ Idle \in Requests
    /\ [op |-> "offer"] \in Requests
    /\ \A f \in Offers, a \in Nat : [op |-> "order", offer |-> f, amount |-> a] \in Requests
    /\ \A q \in OrderOps, o \in Orders : [op |-> q, order |-> o] \in Requests
    /\ \A q \in CancelOps, f \in Offers, a \in Nat :
          [op |-> q, offer |-> f, amount |-> a] \in Requests
BY DEF Requests

(* A cancellation goes from one stage to the next.                           *)
LEMMA RequestMoves ==
    ASSUME NEW r \in Requests, r.op \in CancelOps, NEW q \in CancelOps
    PROVE  /\ [r EXCEPT !.op = q] \in Requests
           /\ [r EXCEPT !.op = q].op = q
           /\ [r EXCEPT !.op = q].offer = r.offer
           /\ [r EXCEPT !.op = q].amount = r.amount
BY DEF Requests, OrderOps, CancelOps, Idle

LEMMA FinishType ==
    ASSUME slot \in [Slots -> Requests], NEW s \in Slots, Finish(s)
    PROVE  slot' \in [Slots -> Requests]
BY RequestIntro DEF Finish

(* Every outcome of a transfer leaves the escrow wallet with a balance that
   is not negative.                                                         *)
LEMMA DebitType ==
    ASSUME balance \in [Wallets -> Nat], NEW w \in Wallets, NEW a \in Nat,
           NEW r \in Outcomes(w, a), Debit(w, r)
    PROVE  balance' \in [Wallets -> Nat] /\ r.moved \in Nat
<1>1. r.moved \in Nat /\ r.moved <= balance[w]
  BY DEF Outcomes
<1> QED BY <1>1 DEF Debit

(* Rows keep their type when single columns are written.                    *)
LEMMA OrderRowUpdates ==
    ASSUME NEW r \in OrderRow, NEW st \in OrderStatus, NEW pr \in OrderStatus,
           NEW b \in BOOLEAN
    PROVE  /\ [r EXCEPT !.status = st] \in OrderRow
           /\ [r EXCEPT !.status = st, !.previous = pr] \in OrderRow
           /\ [r EXCEPT !.status = st, !.due = b] \in OrderRow
           /\ [r EXCEPT !.status = st, !.previous = pr, !.in_dispute = b] \in OrderRow
BY DEF OrderRow

LEMMA OfferRowUpdates ==
    ASSUME NEW r \in OfferRow, NEW st \in OfferStatus, NEW a \in Nat
    PROVE  /\ [r EXCEPT !.available = a] \in OfferRow
           /\ [r EXCEPT !.status = st, !.available = a] \in OfferRow
BY DEF OfferRow

LEMMA OrdersUpdate ==
    ASSUME orders \in [Orders -> OrderRow], NEW o \in Orders, NEW r \in OrderRow,
           orders' = [orders EXCEPT ![o] = r]
    PROVE  orders' \in [Orders -> OrderRow]
OBVIOUS

(* The amounts of a block's failed deposits, summed up by offer.             *)
LEMMA ReleaseType ==
    ASSUME TypeOK, NEW block \in SUBSET pool
    PROVE  ReleaseByOffer(block) \in [Offers -> Nat]
<1> SUFFICES ASSUME NEW f \in Offers PROVE ReleaseByOffer(block)[f] \in Nat
  BY DEF ReleaseByOffer
<1> DEFINE amounts == [t \in block |-> orders[t.id].amount]
           S == FailedOrderTxsOf(f, block)
<1>1. S \subseteq block /\ IsFiniteSet(S)
  BY FS_Subset DEF TypeOK, FailedOrderTxsOf, FailedOrderTxs
<1>2. \A t \in S : amounts[t] \in Nat
  BY <1>1 DEF TypeOK, OrderRow, FailedOrderTxsOf, FailedOrderTxs
<1>3. ReleaseByOffer(block)[f] = SumFunctionOnSet(amounts, S)
  BY DEF ReleaseByOffer
<1> HIDE DEF amounts, S
<1> QED BY <1>1, <1>2, <1>3, SumNat

(* Each amount, balance and row keeps its type; in particular available_amount
   never becomes negative (ReserveQuantity) and no wallet pays more than it
   holds.                                                                   *)
LEMMA TypeStep == TypeOK /\ [Next]_vars => TypeOK'
<1> SUFFICES ASSUME TypeOK, [Next]_vars PROVE TypeOK'
  OBVIOUS
<1> USE DEF TypeOK
<1>a. OrderAmounts \subseteq Nat /\ OfferAmounts \subseteq Nat
  BY P2PAssumption DEF P2PAssumption
<1>b. \A f \in Offers : offers[f].wallet \in Wallets /\ offers[f].available \in Nat
                        /\ offers[f].total \in Nat
  BY DEF OfferRow
<1>c. \A o \in Orders : orders[o].offer \in Offers /\ orders[o].amount \in Nat
                        /\ orders[o].status \in OrderStatus
  BY DEF OrderRow
<1>1. ASSUME NEW s \in Slots, Request(s) PROVE TypeOK'
  <2>1. \E r \in Requests : slot' = [slot EXCEPT ![s] = r]
    <3>1. CASE CountActiveOffers(s)
      BY <3>1, RequestIntro DEF CountActiveOffers, Begin
    <3>2. CASE \E f \in Offers, a \in OrderAmounts : ReadOfferForOrder(s, f, a)
      BY <3>2, <1>a, RequestIntro DEF ReadOfferForOrder, Begin
    <3>3. CASE \E o \in Orders, role \in {"buyer", "seller"} : ReadOrderForConfirm(s, o, role)
      BY <3>3, RequestIntro DEF ReadOrderForConfirm, Begin, OrderOps
    <3>4. CASE \E f \in Offers : ReadOfferForCancel(s, f)
      BY <3>4, <1>b, RequestIntro DEF ReadOfferForCancel, Begin, CancelOps
    <3> QED BY <1>1, <3>1, <3>2, <3>3, <3>4 DEF Request
  <2>2. UNCHANGED <<offers, orders, wallets, refunding, chainVars, history>>
    BY <1>1 DEF Request, CountActiveOffers, ReadOfferForOrder, ReadOrderForConfirm,
       ReadOfferForCancel
  <2> QED BY <2>1, <2>2 DEF chainVars, history
<1>2. ASSUME NEW s \in Slots, HandlerStep(s) PROVE TypeOK'
  <2>0. slot[s] \in Requests
    OBVIOUS
  <2>1. ASSUME NEW f \in Offers, NEW w \in Wallets, NEW a \in OfferAmounts, CreateOffer(s, f, w, a)
        PROVE  TypeOK'
    <3>1. slot' \in [Slots -> Requests]
      BY <2>1, FinishType DEF CreateOffer
    <3> QED BY <2>1, <3>1, <1>a DEF CreateOffer, chainVars, history, OfferRow, OfferStatus,
                                    WalletStatus
  <2>2. ASSUME NEW o \in Orders, CreateOrder(s, o) PROVE TypeOK'
    <3>1. slot' \in [Slots -> Requests]
      BY <2>2, FinishType DEF CreateOrder
    <3>2. slot[s].offer \in Offers /\ slot[s].amount \in Nat
      BY <2>0, <2>2, RequestFields DEF CreateOrder
    <3>3. offers' \in [Offers -> OfferRow]
      <4> DEFINE f == slot[s].offer
                 left == offers[f].available - slot[s].amount
      <4>1. offers[f].available >= slot[s].amount /\ offers' = [offers EXCEPT ![f].available = @ - slot[s].amount]
        BY <2>2 DEF CreateOrder, Reserve
      <4>2. left \in Nat /\ offers[f] \in OfferRow /\ offers[f].status \in OfferStatus
        BY <3>2, <4>1, <1>b DEF OfferRow
      <4>3. offers' = [offers EXCEPT ![f] = [offers[f] EXCEPT !.available = left]]
        BY <4>1
      <4> HIDE DEF left
      <4>4. [offers[f] EXCEPT !.available = left] \in OfferRow
        BY <4>2, OfferRowUpdates
      <4> QED BY <3>2, <4>3, <4>4
    <3>4. orders' \in [Orders -> OrderRow]
      BY <2>2, <3>2 DEF CreateOrder, OrderRow, OrderStatus
    <3> QED BY <2>2, <3>1, <3>3, <3>4 DEF CreateOrder, chainVars, history
  <2>3. CASE BuyerConfirm(s)
    <3>1. slot' \in [Slots -> Requests]
      BY <2>3, FinishType DEF BuyerConfirm
    <3>2. slot[s].order \in Orders
      BY <2>0, <2>3, RequestFields DEF BuyerConfirm, OrderOps
    <3>3. orders' \in [Orders -> OrderRow]
      <4> DEFINE o == slot[s].order
      <4>1. orders' = [orders EXCEPT ![o] = [orders[o] EXCEPT
                          !.status = "PENDING", !.previous = orders[o].status]]
        BY <2>3, <3>2 DEF BuyerConfirm
      <4>2. [orders[o] EXCEPT !.status = "PENDING", !.previous = orders[o].status] \in OrderRow
        BY <3>2, <1>c, OrderRowUpdates DEF OrderStatus
      <4> QED BY <3>2, <4>1, <4>2, OrdersUpdate
    <3>4. disturbed' \subseteq Offers
      BY <2>3, <3>2, <1>c DEF BuyerConfirm, Disturb
    <3> QED BY <2>3, <3>1, <3>3, <3>4 DEF BuyerConfirm, chainVars
  <2>4. CASE SellerTransfer(s)
    <3>2. slot[s].order \in Orders
      BY <2>0, <2>4, RequestFields DEF SellerTransfer, OrderOps
    <3> DEFINE o == slot[s].order
               w == offers[orders[o].offer].wallet
    <3>3. w \in Wallets /\ orders[o].amount \in Nat
      BY <3>2, <1>b, <1>c
    <3>4. PICK r \in Outcomes(w, orders[o].amount) :
             /\ Debit(w, r)
             /\ paid' = [paid EXCEPT ![o] = @ + IF r.moved > 0 THEN 1 ELSE 0]
             /\ slot' = [slot EXCEPT ![s] =
                    IF r.err THEN Idle ELSE [op |-> "paid", order |-> o]]
      BY <2>4 DEF SellerTransfer
    <3>5. balance' \in [Wallets -> Nat]
      BY <3>3, <3>4, DebitType
    <3>6. slot' \in [Slots -> Requests]
      BY <3>2, <3>4, RequestIntro DEF OrderOps
    <3>7. paid' \in [Orders -> Nat]
      BY <3>2, <3>4
    <3> QED BY <2>4, <3>5, <3>6, <3>7 DEF SellerTransfer, history
  <2>5. CASE SellerComplete(s)
    <3>1. slot' \in [Slots -> Requests]
      BY <2>5, FinishType DEF SellerComplete
    <3>2. slot[s].order \in Orders
      BY <2>0, <2>5, RequestFields DEF SellerComplete, OrderOps
    <3>3. orders' \in [Orders -> OrderRow]
      <4> DEFINE o == slot[s].order
      <4>1. orders' = [orders EXCEPT ![o] = [orders[o] EXCEPT
                          !.status = "COMPLETED", !.previous = "CONFIRMED"]]
        BY <2>5, <3>2 DEF SellerComplete
      <4>2. [orders[o] EXCEPT !.status = "COMPLETED", !.previous = "CONFIRMED"] \in OrderRow
        BY <3>2, <1>c, OrderRowUpdates DEF OrderStatus
      <4> QED BY <3>2, <4>1, <4>2, OrdersUpdate
    <3>4. offers' \in [Offers -> OfferRow]
      BY <2>5, <3>2, <1>c DEF SellerComplete, OfferRow, OfferStatus
    <3>5. wallets' \in [Wallets -> WalletStatus]
      BY <2>5, <3>2, <1>c, <1>b DEF SellerComplete, ReleaseIfSoldOut, WalletStatus
    <3>6. disturbed' \subseteq Offers
      BY <2>5, <3>2, <1>c DEF SellerComplete, Disturb
    <3> QED BY <2>5, <3>1, <3>3, <3>4, <3>5, <3>6 DEF SellerComplete, chainVars
  <2>6. CASE SellerLosesCommit(s)
    <3>1. slot' \in [Slots -> Requests]
      BY <2>6, FinishType DEF SellerLosesCommit
    <3>2. slot[s].order \in Orders
      BY <2>0, <2>6, RequestFields DEF SellerLosesCommit, OrderOps
    <3>5. wallets' \in [Wallets -> WalletStatus]
      BY <2>6, <3>2, <1>c, <1>b DEF SellerLosesCommit, ReleaseIfSoldOut, WalletStatus
    <3> QED BY <2>6, <3>1, <3>5 DEF SellerLosesCommit, chainVars, history
  <2>7. CASE CheckDisputes(s) \/ CheckActive(s)
    <3>1. PICK q \in CancelOps : slot' = [slot EXCEPT ![s] = [slot[s] EXCEPT !.op = q]]
      BY <2>7 DEF CheckDisputes, CheckActive, CancelOps
    <3>2. slot[s].op \in CancelOps
      BY <2>7 DEF CheckDisputes, CheckActive, CancelOps
    <3>3. [slot[s] EXCEPT !.op = q] \in Requests
      BY <2>0, <3>2, RequestMoves
    <3>4. slot' \in [Slots -> Requests]
      BY <3>1, <3>3
    <3> QED BY <2>7, <3>4 DEF CheckDisputes, CheckActive, chainVars, history
  <2>8. CASE RefundOffer(s)
    <3> DEFINE w == offers[slot[s].offer].wallet
               a == slot[s].amount
               next == [slot[s] EXCEPT !.op = "refunded"]
    <3>1. slot[s].op \in CancelOps /\ "refunded" \in CancelOps
      BY <2>8 DEF RefundOffer, CancelOps
    <3>2. w \in Wallets /\ a \in Nat
      BY <2>0, <3>1, <1>b, RequestFields DEF OfferRow
    <3>3. PICK r \in Outcomes(w, a) :
             /\ Debit(w, r)
             /\ slot' = [slot EXCEPT ![s] = IF r.err THEN Idle ELSE next]
      BY <2>8 DEF RefundOffer
    <3>4. balance' \in [Wallets -> Nat]
      BY <3>2, <3>3, <1>b, DebitType
    <3>5. slot' \in [Slots -> Requests]
      <4>1. next \in Requests /\ Idle \in Requests
        BY <2>0, <3>1, RequestMoves, RequestIntro
      <4> HIDE DEF next
      <4> QED BY <3>3, <4>1
    <3> QED BY <2>8, <3>4, <3>5 DEF RefundOffer, history
  <2>9. ASSUME NEW committed \in BOOLEAN, CancelCommit(s, committed) PROVE TypeOK'
    <3>1. slot' \in [Slots -> Requests]
      BY <2>9, FinishType DEF CancelCommit
    <3>2. slot[s].offer \in Offers
      BY <2>0, <2>9, RequestFields DEF CancelCommit, CancelOps
    <3>3. offers' \in [Offers -> OfferRow]
      BY <2>9, <3>2 DEF CancelCommit, OfferRow, OfferStatus
    <3>4. wallets' \in [Wallets -> WalletStatus]
      BY <2>9, <3>2, <1>b DEF CancelCommit, WalletStatus
    <3> QED BY <2>9, <3>1, <3>3, <3>4 DEF CancelCommit, chainVars, history
  <2>10. CASE Abandon(s)
    BY <2>10, FinishType DEF Abandon, chainVars, history
  <2> QED BY <1>2, <2>1, <2>2, <2>3, <2>4, <2>5, <2>6, <2>7, <2>8, <2>9, <2>10
             DEF HandlerStep
<1>3. ASSUME Users PROVE TypeOK'
  <2>1. ASSUME NEW o \in Orders, ReopenOrder(o) PROVE TypeOK'
    <3>1. offers' \in [Offers -> OfferRow]
      BY <2>1, <1>c, <1>b DEF ReopenOrder, Reserve, OfferRow
    <3>3. orders' \in [Orders -> OrderRow]
      <4> DEFINE st == IF orders[o].previous # "NONE" THEN orders[o].previous ELSE "OPEN"
      <4>1. orders' = [orders EXCEPT ![o] = [orders[o] EXCEPT !.status = st, !.due = FALSE]]
        BY <2>1 DEF ReopenOrder
      <4>2. st \in OrderStatus
        BY DEF OrderRow, OrderStatus
      <4> HIDE DEF st
      <4>3. [orders[o] EXCEPT !.status = st, !.due = FALSE] \in OrderRow
        BY <4>2, OrderRowUpdates
      <4> QED BY <4>1, <4>3, OrdersUpdate
    <3> QED BY <2>1, <3>1, <3>3 DEF ReopenOrder, chainVars, history
  <2>2. ASSUME NEW o \in Orders, Lapse(o) PROVE TypeOK'
    <3>1. orders' \in [Orders -> OrderRow]
      BY <2>2 DEF Lapse, OrderRow
    <3> QED BY <2>2, <3>1 DEF Lapse, chainVars, history
  <2>3. ASSUME NEW i \in Offers \cup Orders, NEW a \in OfferAmounts \cup OrderAmounts,
               NEW ok \in BOOLEAN, SendDeposit(i, a, ok)
        PROVE  TypeOK'
    <3>1. OfferOf(i) \in Offers
      BY <1>c DEF OfferOf
    <3>2. balance' \in [Wallets -> Nat]
      BY <2>3, <3>1, <1>a, <1>b DEF SendDeposit
    <3>3. pool' \subseteq Deposit
      BY <2>3, <1>a DEF SendDeposit, Deposit
    <3>4. IsFiniteSet(pool')
      BY <2>3, FS_AddElement DEF SendDeposit
    <3> QED BY <2>3, <3>2, <3>3, <3>4 DEF SendDeposit, history
  <2> QED BY <1>3, <2>1, <2>2, <2>3 DEF Users
<1>4. CASE CancelExpiredOrders
  <2> DEFINE from == {orders[o].offer : o \in OverdueOrders}
  <2>1. PICK restored \in SUBSET OverdueOrders :
          /\ \A f \in from : \E o \in restored : orders[o].offer = f
          /\ offers' = [f \in Offers |->
                 IF f \in from
                 THEN [offers[f] EXCEPT !.available =
                          @ + orders[CHOOSE o \in restored : orders[o].offer = f].amount]
                 ELSE offers[f]]
          /\ refunding' = {o \in restored : Refundable(o)}
          /\ lost' = [o \in Orders |->
                 IF o \in OverdueOrders \ restored THEN lost[o] + 1 ELSE lost[o]]
    BY <1>4 DEF CancelExpiredOrders
  <2>2. offers' \in [Offers -> OfferRow]
    <3> SUFFICES ASSUME NEW f \in Offers PROVE offers'[f] \in OfferRow
      BY <2>1
    <3>1. CASE f \in from
      <4> DEFINE o == CHOOSE o \in restored : orders[o].offer = f
      <4>1. o \in Orders
        BY <2>1, <3>1 DEF OverdueOrders
      <4> HIDE DEF o
      <4>2. offers'[f] = [offers[f] EXCEPT !.available = @ + orders[o].amount]
        BY <2>1, <3>1 DEF o
      <4> QED BY <4>1, <4>2, <1>c DEF OfferRow
    <3>2. CASE f \notin from
      BY <2>1, <3>2
    <3> QED BY <3>1, <3>2
  <2>3. orders' \in [Orders -> OrderRow]
    <3>1. orders' = [o \in Orders |->
             IF o \in OverdueOrders
             THEN [orders[o] EXCEPT !.status = "EXPIRED", !.previous = orders[o].status,
                                    !.in_dispute = (orders[o].status = "PENDING")]
             ELSE orders[o]]
      BY <1>4 DEF CancelExpiredOrders
    <3>2. ASSUME NEW o \in Orders
          PROVE  [orders[o] EXCEPT !.status = "EXPIRED", !.previous = orders[o].status,
                                   !.in_dispute = (orders[o].status = "PENDING")] \in OrderRow
      BY <1>c, OrderRowUpdates DEF OrderStatus
    <3> QED BY <3>1, <3>2
  <2>4. refunding' \subseteq Orders /\ lost' \in [Orders -> Nat]
    BY <2>1 DEF OverdueOrders
  <2> QED BY <1>4, <2>2, <2>3, <2>4 DEF CancelExpiredOrders, chainVars
<1>5. ASSUME NEW o \in Orders, RefundExpiredOrder(o) PROVE TypeOK'
  <2>1. balance' \in [Wallets -> Nat]
    BY <1>5, <1>b, <1>c, DebitType DEF RefundExpiredOrder
  <2> QED BY <1>5, <2>1 DEF RefundExpiredOrder, history
<1>6. ASSUME NEW block \in SUBSET pool, IndexBlock(block) PROVE TypeOK'
  <2>1. offers' \in [Offers -> OfferRow]
    <3> DEFINE release == ReleaseByOffer(block)
               releasing == {orders[o].offer : o \in {t.id : t \in FailedOrderTxs(block)}}
    <3>1. release \in [Offers -> Nat]
      BY <1>6, ReleaseType
    <3>2. offers' = [f \in Offers |->
             [offers[f] EXCEPT
                 !.status = IF f \in ConfirmedOffers(block) THEN "CONFIRMED"
                            ELSE IF f \in FailedOffers(block) THEN "FAILED" ELSE @,
                 !.available = IF f \in releasing THEN @ + release[f] ELSE @]]
      BY <1>6 DEF IndexBlock, release
    <3> SUFFICES ASSUME NEW f \in Offers PROVE offers'[f] \in OfferRow
      BY <3>2
    <3> DEFINE st == IF f \in ConfirmedOffers(block) THEN "CONFIRMED"
                     ELSE IF f \in FailedOffers(block) THEN "FAILED" ELSE offers[f].status
    <3>3. st \in OfferStatus
      BY DEF OfferRow, OfferStatus
    <3> DEFINE av == IF f \in releasing THEN offers[f].available + release[f]
                     ELSE offers[f].available
    <3> HIDE DEF release, releasing
    <3>4. av \in Nat
      BY <3>1, <1>b
    <3>5. offers'[f] = [offers[f] EXCEPT !.status = st, !.available = av]
      BY <3>2 DEF release, releasing
    <3> HIDE DEF st, av
    <3>6. offers[f] \in OfferRow /\ av \in Nat
      BY <3>4
    <3>7. [offers[f] EXCEPT !.status = st, !.available = av] \in OfferRow
      BY ONLY <3>3, <3>6, OfferRowUpdates
    <3> QED BY <3>5, <3>7
  <2>2. orders' \in [Orders -> OrderRow]
    <3> DEFINE failed == {t.id : t \in FailedOrderTxs(block)}
    <3>1. orders' = [o \in Orders |->
             [orders[o] EXCEPT !.status = IF o \in OpenedOrders(block) THEN "OPEN"
                                          ELSE IF o \in failed THEN "FAILED" ELSE @]]
      BY <1>6 DEF IndexBlock
    <3> SUFFICES ASSUME NEW o \in Orders PROVE orders'[o] \in OrderRow
      BY <3>1
    <3> DEFINE st == IF o \in OpenedOrders(block) THEN "OPEN"
                     ELSE IF o \in failed THEN "FAILED" ELSE orders[o].status
    <3>2. st \in OrderStatus
      BY <1>c DEF OrderStatus
    <3>3. orders'[o] = [orders[o] EXCEPT !.status = st]
      BY <3>1
    <3> HIDE DEF st
    <3>4. orders[o] \in OrderRow
      OBVIOUS
    <3>5. [orders[o] EXCEPT !.status = st] \in OrderRow
      BY ONLY <3>2, <3>4, OrderRowUpdates
    <3> QED BY <3>3, <3>5
  <2>3. wallets' \in [Wallets -> WalletStatus]
    BY <1>6 DEF IndexBlock, WalletStatus
  <2>4. pool' \subseteq Deposit /\ IsFiniteSet(pool')
    BY <1>6, FS_Subset DEF IndexBlock
  <2>5. disturbed' \subseteq Offers
    <3>1. \A t \in FailedOrderTxs(block) : orders[t.id].offer \in Offers
      BY <1>c DEF FailedOrderTxs
    <3> DEFINE twice == {u \in FailedOrderTxs(block) : \E v \in FailedOrderTxs(block) : v # u /\ v.id = u.id}
    <3>2. disturbed' = disturbed \cup {orders[t.id].offer : t \in twice}
      BY <1>6 DEF IndexBlock
    <3>3. twice \subseteq FailedOrderTxs(block) /\ disturbed \subseteq Offers
      BY DEF TypeOK
    <3> HIDE DEF twice
    <3> QED BY <3>1, <3>2, <3>3
  <2> QED BY <1>6, <2>1, <2>2, <2>3, <2>4, <2>5 DEF IndexBlock
<1>7. CASE Crash
  BY <1>7, RequestIntro DEF Crash, chainVars, history
<1>8. CASE UNCHANGED vars
  BY <1>8 DEF vars
<1> QED BY <1>1, <1>2, <1>3, <1>4, <1>5, <1>6, <1>7, <1>8 DEF Next

(* The rows of offers, orders and wallets, the balances and the requests keep
   their types in every behaviour of the service.                           *)
THEOREM TypeCorrect == Spec => []TypeOK
<1>1. Init => TypeOK
  <2> SUFFICES ASSUME Init PROVE TypeOK
    OBVIOUS
  <2>1. (CHOOSE w \in Wallets : TRUE) \in Wallets /\ (CHOOSE f \in Offers : TRUE) \in Offers
    BY P2PAssumption DEF P2PAssumption
  <2>2. offers \in [Offers -> OfferRow]
    BY <2>1 DEF Init, OfferRow, OfferStatus
  <2>3. orders \in [Orders -> OrderRow]
    <3>1. NoRow \in OrderRow
      BY <2>1 DEF NoRow, OrderRow, OrderStatus
    <3> QED BY <3>1 DEF Init
  <2> QED BY <2>2, <2>3, RequestIntro, FS_EmptySet DEF Init, TypeOK, WalletStatus
<1> QED BY <1>1, TypeStep, PTL DEF Spec

-----------------------------------------------------------------------------
(* The inductive invariant behind SpendingWasFunded and
   CompletedOrdersWerePaid, and what follows from it.                       *)

(* What no step takes back: offers and orders that exist keep their totals,
   offers and amounts, a trading offer never waits for its escrow again, and
   deposits and payouts have happened for good.                             *)
Grows ==
    /\ deposited \subseteq deposited'
    /\ \A f \in Offers : offers[f].status # "NONE" =>
          offers'[f].status # "NONE" /\ offers'[f].total = offers[f].total
    /\ \A f \in Offers : Trades(f) => Trades(f)'
    /\ \A o \in Orders : Placed(o) =>
          /\ Placed(o)'
          /\ orders'[o].offer = orders[o].offer
          /\ orders'[o].amount = orders[o].amount
    /\ \A o \in Orders : paid[o] > 0 => paid'[o] > 0

(* The fields an update of a row leaves alone, and those it writes.          *)
LEMMA OrderFields ==
    ASSUME NEW r \in OrderRow, NEW st, NEW pr, NEW b
    PROVE  /\ [r EXCEPT !.status = st].status = st
           /\ [r EXCEPT !.status = st].offer = r.offer
           /\ [r EXCEPT !.status = st].amount = r.amount
           /\ [r EXCEPT !.status = st].previous = r.previous
           /\ [r EXCEPT !.status = st, !.previous = pr].status = st
           /\ [r EXCEPT !.status = st, !.previous = pr].offer = r.offer
           /\ [r EXCEPT !.status = st, !.previous = pr].amount = r.amount
           /\ [r EXCEPT !.status = st, !.previous = pr].previous = pr
           /\ [r EXCEPT !.status = st, !.due = b].status = st
           /\ [r EXCEPT !.status = st, !.due = b].offer = r.offer
           /\ [r EXCEPT !.status = st, !.due = b].amount = r.amount
           /\ [r EXCEPT !.status = st, !.due = b].previous = r.previous
           /\ [r EXCEPT !.status = st, !.previous = pr, !.in_dispute = b].status = st
           /\ [r EXCEPT !.status = st, !.previous = pr, !.in_dispute = b].offer = r.offer
           /\ [r EXCEPT !.status = st, !.previous = pr, !.in_dispute = b].amount = r.amount
           /\ [r EXCEPT !.status = st, !.previous = pr, !.in_dispute = b].previous = pr
           /\ [r EXCEPT !.due = b].status = r.status
           /\ [r EXCEPT !.due = b].offer = r.offer
           /\ [r EXCEPT !.due = b].amount = r.amount
           /\ [r EXCEPT !.due = b].previous = r.previous
BY DEF OrderRow

LEMMA OfferFields ==
    ASSUME NEW r \in OfferRow, NEW st, NEW a
    PROVE  /\ [r EXCEPT !.status = st].status = st
           /\ [r EXCEPT !.status = st].total = r.total
           /\ [r EXCEPT !.status = st].available = r.available
           /\ [r EXCEPT !.available = a].status = r.status
           /\ [r EXCEPT !.available = a].total = r.total
           /\ [r EXCEPT !.available = a].available = a
           /\ [r EXCEPT !.status = st, !.available = a].status = st
           /\ [r EXCEPT !.status = st, !.available = a].total = r.total
           /\ [r EXCEPT !.status = st, !.available = a].available = a
BY DEF OfferRow

(* A step writes the status, and perhaps the previous status, of one order.  *)
WritesOrder(o, st, pr) ==
    /\ \A p \in Orders \ {o} : orders'[p] = orders[p]
    /\ orders'[o].status = st
    /\ orders'[o].previous = pr
    /\ orders'[o].offer = orders[o].offer
    /\ orders'[o].amount = orders[o].amount

(* A step leaves status, total and wallet of an offer alone, or sets its
   status to st.                                                            *)
WritesOffer(f, st) ==
    /\ \A g \in Offers \ {f} : offers'[g] = offers[g]
    /\ offers'[f].status = st
    /\ offers'[f].total = offers[f].total

LEMMA WritesOrderIntro ==
    ASSUME TypeOK, NEW o \in Orders, NEW r, orders' = [orders EXCEPT ![o] = r],
           r.offer = orders[o].offer, r.amount = orders[o].amount
    PROVE  WritesOrder(o, r.status, r.previous)
BY DEF TypeOK, WritesOrder

LEMMA WritesStatus ==
    ASSUME TypeOK, NEW f \in Offers, NEW st,
           offers' = offers \/ offers' = [offers EXCEPT ![f] = [offers[f] EXCEPT !.status = st]]
    PROVE  WritesOffer(f, offers[f].status) \/ WritesOffer(f, st)
<1>1. offers[f] \in OfferRow
  BY DEF TypeOK
<1>2. CASE offers' = offers
  BY <1>2 DEF WritesOffer
<1>3. CASE offers' = [offers EXCEPT ![f] = [offers[f] EXCEPT !.status = st]]
  <2>1. offers'[f] = [offers[f] EXCEPT !.status = st]
    BY <1>3 DEF TypeOK
  <2>2. offers'[f].status = st /\ offers'[f].total = offers[f].total
    BY ONLY <1>1, <2>1, OfferFields
  <2> QED BY <1>3, <2>2 DEF WritesOffer, TypeOK
<1> QED BY <1>2, <1>3

LEMMA CreateOfferWrites ==
    ASSUME TypeOK, NEW s \in Slots, NEW f \in Offers, NEW w \in Wallets,
           NEW a \in OfferAmounts, CreateOffer(s, f, w, a)
    PROVE  /\ offers[f].status = "NONE"
           /\ \A g \in Offers \ {f} : offers'[g] = offers[g]
           /\ offers'[f].status = IF f \in BuyOffers THEN "CONFIRMED" ELSE "OPEN"
           /\ offers'[f].available = a /\ offers'[f].total = a
BY DEF CreateOffer, TypeOK

LEMMA CreateOrderWrites ==
    ASSUME TypeOK, NEW s \in Slots, NEW o \in Orders, CreateOrder(s, o)
    PROVE  \E f \in Offers :
              /\ f = slot[s].offer
              /\ WritesOffer(f, offers[f].status)
              /\ orders[o].status = "NONE"
              /\ \A p \in Orders \ {o} : orders'[p] = orders[p]
              /\ orders'[o].status = IF f \in BuyOffers THEN "WAITING_TRANSFER" ELSE "OPEN"
              /\ orders'[o].offer = f /\ orders'[o].amount = slot[s].amount
<1>1. slot[s].offer \in Offers /\ slot[s].amount \in Nat
  <2>1. slot[s] \in Requests /\ slot[s].op = "order"
    BY DEF TypeOK, CreateOrder
  <2> QED BY <2>1, RequestFields
<1> DEFINE f == slot[s].offer
<1>2. WritesOffer(f, offers[f].status)
  <2>1. offers' = [offers EXCEPT ![f].available = @ - slot[s].amount]
    BY DEF CreateOrder, Reserve
  <2>2. offers' = [offers EXCEPT ![f] = [offers[f] EXCEPT !.available = @ - slot[s].amount]]
    BY <2>1, <1>1 DEF TypeOK
  <2> QED BY <1>1, <2>2, OfferFields DEF TypeOK, WritesOffer
<1> QED BY <1>1, <1>2 DEF CreateOrder, TypeOK

LEMMA BuyerConfirmWrites ==
    ASSUME TypeOK, NEW s \in Slots, BuyerConfirm(s)
    PROVE  \E o \in Orders : o = slot[s].order
                             /\ WritesOrder(o, "PENDING", orders[o].status)
<1>1. slot[s].order \in Orders
  BY RequestFields DEF TypeOK, BuyerConfirm, OrderOps
<1> DEFINE o == slot[s].order
           r == [orders[o] EXCEPT !.status = "PENDING", !.previous = orders[o].status]
<1>2. orders' = [orders EXCEPT ![o] = r]
  BY <1>1 DEF TypeOK, BuyerConfirm
<1>3. orders[o] \in OrderRow
  BY <1>1 DEF TypeOK
<1>4. r.status = "PENDING" /\ r.previous = orders[o].status
      /\ r.offer = orders[o].offer /\ r.amount = orders[o].amount
  BY ONLY <1>3, OrderFields
<1> HIDE DEF r
<1> QED BY <1>1, <1>2, <1>4, WritesOrderIntro

LEMMA SellerCompleteWrites ==
    ASSUME TypeOK, NEW s \in Slots, SellerComplete(s)
    PROVE  \E o \in Orders :
              /\ o = slot[s].order
              /\ WritesOrder(o, "COMPLETED", "CONFIRMED")
              /\ \E st \in {"COMPLETED", offers[orders[o].offer].status} :
                    WritesOffer(orders[o].offer, st)
<1>1. slot[s].order \in Orders
  BY RequestFields DEF TypeOK, SellerComplete, OrderOps
<1> DEFINE o == slot[s].order
           f == orders[o].offer
           r == [orders[o] EXCEPT !.status = "COMPLETED", !.previous = "CONFIRMED"]
<1>2. orders' = [orders EXCEPT ![o] = r]
  BY <1>1 DEF TypeOK, SellerComplete
<1>3. orders[o] \in OrderRow
  BY <1>1 DEF TypeOK
<1>4. r.status = "COMPLETED" /\ r.previous = "CONFIRMED"
      /\ r.offer = orders[o].offer /\ r.amount = orders[o].amount
  BY ONLY <1>3, OrderFields
<1>5. \E st \in {"COMPLETED", offers[f].status} : WritesOffer(f, st)
  <2>1. f \in Offers /\ offers[f] \in OfferRow
    BY <1>3 DEF TypeOK, OrderRow
  <2>2. offers' = offers \/ offers' = [offers EXCEPT ![f] = [offers[f] EXCEPT !.status = "COMPLETED"]]
    BY <2>1 DEF SellerComplete, TypeOK
  <2> QED BY <2>1, <2>2, WritesStatus
<1> HIDE DEF r
<1> QED BY <1>1, <1>2, <1>4, <1>5, WritesOrderIntro

LEMMA CancelCommitWrites ==
    ASSUME TypeOK, NEW s \in Slots, NEW committed \in BOOLEAN, CancelCommit(s, committed)
    PROVE  \E f \in Offers :
              /\ f = slot[s].offer
              /\ offers' = offers \/ WritesOffer(f, "CANCELED")
<1>1. slot[s].offer \in Offers
  BY RequestFields DEF TypeOK, CancelCommit, CancelOps
<1> DEFINE f == slot[s].offer
<1>2. CASE offers' = offers
  BY <1>1, <1>2
<1>3. CASE offers' # offers
  <2>1. offers' = [offers EXCEPT ![f] = [offers[f] EXCEPT !.status = "CANCELED"]]
    BY <1>1, <1>3 DEF CancelCommit, TypeOK
  <2>2. offers[f] \in OfferRow /\ offers'[f] = [offers[f] EXCEPT !.status = "CANCELED"]
    BY <1>1, <2>1 DEF TypeOK
  <2>3. offers'[f].status = "CANCELED" /\ offers'[f].total = offers[f].total
    BY ONLY <2>2, OfferFields
  <2> QED BY <1>1, <2>1, <2>3 DEF WritesOffer, TypeOK
<1> QED BY <1>2, <1>3

LEMMA ReopenOrderWrites ==
    ASSUME TypeOK, NEW o \in Orders, ReopenOrder(o)
    PROVE  /\ orders[o].status = "EXPIRED"
           /\ offers[orders[o].offer].status = "CONFIRMED"
           /\ WritesOffer(orders[o].offer, "CONFIRMED")
           /\ WritesOrder(o, IF orders[o].previous # "NONE" THEN orders[o].previous ELSE "OPEN",
                          orders[o].previous)
<1>1. orders[o] \in OrderRow
  BY DEF TypeOK
<1> DEFINE f == orders[o].offer
           st == IF orders[o].previous # "NONE" THEN orders[o].previous ELSE "OPEN"
           r == [orders[o] EXCEPT !.status = st, !.due = FALSE]
<1>2. orders' = [orders EXCEPT ![o] = r]
  BY DEF TypeOK, ReopenOrder
<1>3. r.status = st /\ r.previous = orders[o].previous
      /\ r.offer = orders[o].offer /\ r.amount = orders[o].amount
  <2> HIDE DEF st
  <2> QED BY ONLY <1>1, OrderFields
<1>4. f \in Offers /\ offers[f] \in OfferRow /\ offers[f].status = "CONFIRMED"
  BY <1>1 DEF TypeOK, OrderRow, ReopenOrder
<1>5. WritesOffer(f, "CONFIRMED")
  <2>1. offers' = [offers EXCEPT ![f] = [offers[f] EXCEPT !.available = @ - orders[o].amount]]
    BY <1>4 DEF ReopenOrder, Reserve, TypeOK
  <2> QED BY <1>4, <2>1, OfferFields DEF WritesOffer, TypeOK
<1>6. orders[o].status = "EXPIRED"
  BY DEF ReopenOrder
<1> HIDE DEF r, st
<1>7. WritesOrder(o, st, orders[o].previous)
  BY <1>2, <1>3, WritesOrderIntro
<1> QED BY <1>4, <1>5, <1>6, <1>7 DEF st

LEMMA LapseWrites ==
    ASSUME TypeOK, NEW o \in Orders, Lapse(o)
    PROVE  WritesOrder(o, orders[o].status, orders[o].previous)
<1> DEFINE r == [orders[o] EXCEPT !.due = TRUE]
<1>1. orders' = [orders EXCEPT ![o] = r] /\ orders[o] \in OrderRow
  BY DEF TypeOK, Lapse
<1>2. r.status = orders[o].status /\ r.previous = orders[o].previous
      /\ r.offer = orders[o].offer /\ r.amount = orders[o].amount
  BY ONLY <1>1, OrderFields
<1> HIDE DEF r
<1> QED BY <1>1, <1>2, WritesOrderIntro

LEMMA CancelExpiredWrites ==
    ASSUME TypeOK, CancelExpiredOrders
    PROVE  /\ \A f \in Offers :
                 /\ offers'[f].status = offers[f].status
                 /\ offers'[f].total = offers[f].total
                 /\ (\A o \in OverdueOrders : orders[o].offer # f) => offers'[f] = offers[f]
           /\ \A o \in Orders \ OverdueOrders : orders'[o] = orders[o]
           /\ \A o \in OverdueOrders :
                 /\ orders'[o].status = "EXPIRED"
                 /\ orders'[o].previous = orders[o].status
                 /\ orders'[o].offer = orders[o].offer
                 /\ orders'[o].amount = orders[o].amount
           /\ refunding' \subseteq {o \in OverdueOrders : Refundable(o)}
<1> DEFINE from == {orders[o].offer : o \in OverdueOrders}
<1>1. PICK restored \in SUBSET OverdueOrders :
        /\ offers' = [f \in Offers |->
               IF f \in from
               THEN [offers[f] EXCEPT !.available =
                        @ + orders[CHOOSE o \in restored : orders[o].offer = f].amount]
               ELSE offers[f]]
        /\ refunding' = {o \in restored : Refundable(o)}
  BY DEF CancelExpiredOrders
<1>2. ASSUME NEW f \in Offers
      PROVE  /\ offers'[f].status = offers[f].status
             /\ offers'[f].total = offers[f].total
             /\ (\A o \in OverdueOrders : orders[o].offer # f) => offers'[f] = offers[f]
  <2> DEFINE n == offers[f].available + orders[CHOOSE o \in restored : orders[o].offer = f].amount
  <2>1. offers'[f] = IF f \in from THEN [offers[f] EXCEPT !.available = n] ELSE offers[f]
    BY <1>1
  <2>2. offers[f] \in OfferRow
    BY DEF TypeOK
  <2> HIDE DEF n
  <2> QED BY <2>1, <2>2, OfferFields
<1>3. ASSUME NEW o \in Orders
      PROVE  orders'[o] = IF o \in OverdueOrders
             THEN [orders[o] EXCEPT !.status = "EXPIRED", !.previous = orders[o].status,
                                    !.in_dispute = (orders[o].status = "PENDING")]
             ELSE orders[o]
  BY DEF CancelExpiredOrders
<1>4. ASSUME NEW o \in OverdueOrders
      PROVE  /\ orders'[o].status = "EXPIRED"
             /\ orders'[o].previous = orders[o].status
             /\ orders'[o].offer = orders[o].offer
             /\ orders'[o].amount = orders[o].amount
  <2>1. orders[o] \in OrderRow /\ o \in Orders
    BY DEF OverdueOrders, TypeOK
  <2> DEFINE b == (orders[o].status = "PENDING")
  <2>2. orders'[o] = [orders[o] EXCEPT !.status = "EXPIRED", !.previous = orders[o].status,
                                       !.in_dispute = b]
    BY <1>3, <2>1
  <2> HIDE DEF b
  <2> QED BY ONLY <2>1, <2>2, OrderFields
<1> QED BY <1>1, <1>2, <1>3, <1>4

LEMMA IndexBlockWrites ==
    ASSUME TypeOK, NEW block \in SUBSET pool, IndexBlock(block)
    PROVE  /\ \A f \in Offers :
                 /\ offers'[f].total = offers[f].total
                 /\ offers'[f].status = IF f \in ConfirmedOffers(block) THEN "CONFIRMED"
                                        ELSE IF f \in FailedOffers(block) THEN "FAILED"
                                        ELSE offers[f].status
                 /\ (\A t \in FailedOrderTxs(block) : orders[t.id].offer # f)
                       => offers'[f].available = offers[f].available
           /\ \A o \in Orders :
                 /\ orders'[o].status = IF o \in OpenedOrders(block) THEN "OPEN"
                                        ELSE IF \E t \in FailedOrderTxs(block) : t.id = o
                                        THEN "FAILED" ELSE orders[o].status
                 /\ orders'[o].previous = orders[o].previous
                 /\ orders'[o].offer = orders[o].offer
                 /\ orders'[o].amount = orders[o].amount
<1> DEFINE failed == {t.id : t \in FailedOrderTxs(block)}
           releasing == {orders[o].offer : o \in failed}
           release == ReleaseByOffer(block)
<1>1. ASSUME NEW f \in Offers
      PROVE  /\ offers'[f].total = offers[f].total
             /\ offers'[f].status = IF f \in ConfirmedOffers(block) THEN "CONFIRMED"
                                    ELSE IF f \in FailedOffers(block) THEN "FAILED"
                                    ELSE offers[f].status
             /\ (\A t \in FailedOrderTxs(block) : orders[t.id].offer # f)
                   => offers'[f].available = offers[f].available
  <2> DEFINE st == IF f \in ConfirmedOffers(block) THEN "CONFIRMED"
                   ELSE IF f \in FailedOffers(block) THEN "FAILED" ELSE offers[f].status
             av == IF f \in releasing THEN offers[f].available + release[f]
                   ELSE offers[f].available
  <2>1. offers'[f] = [offers[f] EXCEPT !.status = st, !.available = av]
    <3>1. offers' = [g \in Offers |->
             [offers[g] EXCEPT
                 !.status = IF g \in ConfirmedOffers(block) THEN "CONFIRMED"
                            ELSE IF g \in FailedOffers(block) THEN "FAILED" ELSE @,
                 !.available = IF g \in releasing THEN @ + release[g] ELSE @]]
      BY DEF IndexBlock
    <3> HIDE DEF release, releasing
    <3> QED BY <3>1
  <2>2. offers[f] \in OfferRow
    BY DEF TypeOK
  <2>3. (\A t \in FailedOrderTxs(block) : orders[t.id].offer # f) => av = offers[f].available
    OBVIOUS
  <2>4. /\ offers'[f].total = offers[f].total
        /\ offers'[f].status = st
        /\ offers'[f].available = av
    <3> HIDE DEF st, av
    <3> QED BY ONLY <2>1, <2>2, OfferFields
  <2> QED BY <2>3, <2>4
<1>2. ASSUME NEW o \in Orders
      PROVE  /\ orders'[o].status = IF o \in OpenedOrders(block) THEN "OPEN"
                                    ELSE IF \E t \in FailedOrderTxs(block) : t.id = o
                                    THEN "FAILED" ELSE orders[o].status
             /\ orders'[o].previous = orders[o].previous
             /\ orders'[o].offer = orders[o].offer
             /\ orders'[o].amount = orders[o].amount
  <2> DEFINE st == IF o \in OpenedOrders(block) THEN "OPEN"
                   ELSE IF o \in failed THEN "FAILED" ELSE orders[o].status
  <2>1. orders'[o] = [orders[o] EXCEPT !.status = st] /\ orders[o] \in OrderRow
    BY DEF IndexBlock, TypeOK
  <2>2. /\ orders'[o].status = st
        /\ orders'[o].previous = orders[o].previous
        /\ orders'[o].offer = orders[o].offer
        /\ orders'[o].amount = orders[o].amount
    <3> HIDE DEF st
    <3> QED BY ONLY <2>1, OrderFields
  <2> QED BY <2>2
<1> QED BY <1>1, <1>2

-----------------------------------------------------------------------------
(* Steps that touch none of the tables and histories Grows speaks of.        *)
LEMMA QuietGrows ==
    ASSUME UNCHANGED <<offers, orders, paid, deposited>>
    PROVE  Grows
BY DEF Grows, Trades, Placed

LEMMA GrowStep == TypeOK /\ FundedInv /\ Next => Grows
<1> SUFFICES ASSUME TypeOK, FundedInv, Next PROVE Grows
  OBVIOUS
<1>0. /\ \A o \in Orders : orders[o].offer \in Offers /\ orders[o] \in OrderRow
      /\ \A s \in Slots : slot[s] \in Requests
      /\ paid \in [Orders -> Nat]
      /\ SlotsInv /\ OrdersInv
  BY DEF TypeOK, OrderRow, FundedInv
<1>w. ASSUME NEW o \in Orders, NEW st, NEW pr, WritesOrder(o, st, pr),
             orders[o].status # "NONE" => st # "NONE"
      PROVE  \A p \in Orders : Placed(p) =>
                Placed(p)' /\ orders'[p].offer = orders[p].offer /\ orders'[p].amount = orders[p].amount
  BY <1>w DEF WritesOrder, Placed
<1>f. ASSUME NEW f \in Offers, NEW st, WritesOffer(f, st), deposited \subseteq deposited',
             offers[f].status # "NONE" => st # "NONE",
             offers[f].status \notin {"NONE", "OPEN"} => st \notin {"NONE", "OPEN"}
      PROVE  \A g \in Offers :
                /\ offers[g].status # "NONE" =>
                      offers'[g].status # "NONE" /\ offers'[g].total = offers[g].total
                /\ Trades(g) => Trades(g)'
  <2> SUFFICES ASSUME NEW g \in Offers
               PROVE  /\ offers[g].status # "NONE" =>
                            offers'[g].status # "NONE" /\ offers'[g].total = offers[g].total
                      /\ Trades(g) => Trades(g)'
    OBVIOUS
  <2>1. CASE g = f
    BY <2>1, <1>f DEF WritesOffer, Trades
  <2>2. CASE g # f
    BY <2>2, <1>f DEF WritesOffer, Trades
  <2> QED BY <2>1, <2>2
<1>1. ASSUME NEW s \in Slots, Request(s) PROVE Grows
  BY <1>1, QuietGrows DEF Request, CountActiveOffers, ReadOfferForOrder, ReadOrderForConfirm,
     ReadOfferForCancel, chainVars
<1>2. ASSUME NEW s \in Slots, HandlerStep(s) PROVE Grows
  <2>1. ASSUME NEW f \in Offers, NEW w \in Wallets, NEW a \in OfferAmounts, CreateOffer(s, f, w, a)
        PROVE  Grows
    <3>1. UNCHANGED <<orders, paid, deposited>>
      BY <2>1 DEF CreateOffer, chainVars
    <3>2. /\ offers[f].status = "NONE"
          /\ \A g \in Offers \ {f} : offers'[g] = offers[g]
      BY <2>1, CreateOfferWrites
    <3> QED BY <3>1, <3>2 DEF Grows, Trades, Placed
  <2>2. ASSUME NEW o \in Orders, CreateOrder(s, o) PROVE Grows
    <3>1. UNCHANGED <<paid, deposited>>
      BY <2>2 DEF CreateOrder, chainVars
    <3>2. PICK f \in Offers :
              /\ WritesOffer(f, offers[f].status)
              /\ orders[o].status = "NONE"
              /\ \A p \in Orders \ {o} : orders'[p] = orders[p]
      BY <2>2, CreateOrderWrites
    <3>3. \A p \in Orders : Placed(p) =>
             Placed(p)' /\ orders'[p].offer = orders[p].offer /\ orders'[p].amount = orders[p].amount
      BY <3>2 DEF Placed
    <3> QED BY <3>1, <3>2, <3>3, <1>f DEF Grows
  <2>3. CASE BuyerConfirm(s)
    <3>1. UNCHANGED <<offers, paid, deposited>>
      BY <2>3 DEF BuyerConfirm, chainVars
    <3>2. \E o \in Orders : WritesOrder(o, "PENDING", orders[o].status)
      BY <2>3, BuyerConfirmWrites
    <3> QED BY <3>1, <3>2, <1>w DEF Grows, Trades
  <2>4. CASE SellerTransfer(s)
    <3>1. UNCHANGED <<offers, orders, deposited>>
      BY <2>4 DEF SellerTransfer
    <3>2. \A o \in Orders : paid[o] > 0 => paid'[o] > 0
      BY <2>4, <1>0 DEF SellerTransfer
    <3> QED BY <3>1, <3>2 DEF Grows, Trades, Placed
  <2>5. CASE SellerComplete(s)
    <3>1. UNCHANGED <<paid, deposited>>
      BY <2>5 DEF SellerComplete, chainVars
    <3>2. PICK o \in Orders :
              /\ o = slot[s].order
              /\ WritesOrder(o, "COMPLETED", "CONFIRMED")
              /\ \E st \in {"COMPLETED", offers[orders[o].offer].status} :
                    WritesOffer(orders[o].offer, st)
      BY <2>5, SellerCompleteWrites
    <3> QED BY <3>1, <3>2, <1>w, <1>f, <1>0 DEF Grows
  <2>6. CASE SellerLosesCommit(s) \/ CheckDisputes(s) \/ CheckActive(s) \/ RefundOffer(s) \/ Abandon(s)
    BY <2>6, QuietGrows DEF SellerLosesCommit, CheckDisputes, CheckActive, RefundOffer, Abandon,
       chainVars
  <2>7. ASSUME NEW committed \in BOOLEAN, CancelCommit(s, committed) PROVE Grows
    <3>1. UNCHANGED <<orders, paid, deposited>>
      BY <2>7 DEF CancelCommit, chainVars
    <3>2. PICK f \in Offers : offers' = offers \/ WritesOffer(f, "CANCELED")
      BY <2>7, CancelCommitWrites
    <3> QED BY <3>1, <3>2, <1>f DEF Grows, Placed, Trades
  <2> QED BY <1>2, <2>1, <2>2, <2>3, <2>4, <2>5, <2>6, <2>7 DEF HandlerStep
<1>3. ASSUME Users PROVE Grows
  <2>1. ASSUME NEW o \in Orders, ReopenOrder(o) PROVE Grows
    <3>1. UNCHANGED <<paid, deposited>>
      BY <2>1 DEF ReopenOrder, chainVars
    <3>2. PICK st : WritesOrder(o, st, orders[o].previous) /\ st # "NONE"
      BY <2>1, ReopenOrderWrites
    <3>3. WritesOffer(orders[o].offer, "CONFIRMED")
      BY <2>1, ReopenOrderWrites
    <3> QED BY <3>1, <3>2, <3>3, <1>w, <1>f, <1>0 DEF Grows
  <2>2. ASSUME NEW o \in Orders, Lapse(o) PROVE Grows
    <3>1. UNCHANGED <<offers, paid, deposited>>
      BY <2>2 DEF Lapse, chainVars
    <3>2. WritesOrder(o, orders[o].status, orders[o].previous)
      BY <2>2, LapseWrites
    <3> QED BY <3>1, <3>2, <1>w DEF Grows, Trades
  <2>3. ASSUME NEW i \in Offers \cup Orders, NEW a \in OfferAmounts \cup OrderAmounts,
               NEW ok \in BOOLEAN, SendDeposit(i, a, ok)
        PROVE  Grows
    BY <2>3 DEF SendDeposit, Grows, Trades, Placed
  <2> QED BY <1>3, <2>1, <2>2, <2>3 DEF Users
<1>4. CASE CancelExpiredOrders
  <2>1. UNCHANGED <<paid, deposited>>
    BY <1>4 DEF CancelExpiredOrders, chainVars
  <2>2. \A f \in Offers : offers'[f].status = offers[f].status /\ offers'[f].total = offers[f].total
    BY <1>4, CancelExpiredWrites
  <2>3. \A o \in Orders : Placed(o) =>
           Placed(o)' /\ orders'[o].offer = orders[o].offer /\ orders'[o].amount = orders[o].amount
    BY <1>4, CancelExpiredWrites DEF Placed
  <2> QED BY <2>1, <2>2, <2>3 DEF Grows, Trades
<1>5. ASSUME NEW o \in Orders, RefundExpiredOrder(o) PROVE Grows
  BY <1>5, QuietGrows DEF RefundExpiredOrder
<1>6. ASSUME NEW block \in SUBSET pool, IndexBlock(block) PROVE Grows
  <2>1. UNCHANGED <<paid, deposited>>
    BY <1>6 DEF IndexBlock
  <2>2. ASSUME NEW f \in Offers
        PROVE  /\ offers'[f].total = offers[f].total
               /\ offers'[f].status # offers[f].status =>
                     offers[f].status = "OPEN" /\ offers'[f].status \in {"CONFIRMED", "FAILED"}
    BY <1>6, IndexBlockWrites DEF ConfirmedOffers, FailedOffers
  <2>3. \A o \in Orders : Placed(o) =>
           Placed(o)' /\ orders'[o].offer = orders[o].offer /\ orders'[o].amount = orders[o].amount
    BY <1>6, IndexBlockWrites DEF Placed
  <2> QED BY <2>1, <2>2, <2>3 DEF Grows, Trades
<1>7. CASE Crash
  BY <1>7, QuietGrows DEF Crash, chainVars
<1> QED BY <1>1, <1>2, <1>3, <1>4, <1>5, <1>6, <1>7 DEF Next

-----------------------------------------------------------------------------
(* What a step keeps of each part of the invariant when it leaves the part's
   own state alone.                                                         *)
LEMMA StaysFunded ==
    ASSUME Grows, NEW o \in Orders, Placed(o), Funded(o)
    PROVE  Funded(o)'
BY DEF Grows, Funded

LEMMA OfferKept ==
    ASSUME OffersInv, Grows, NEW f \in Offers, offers'[f] = offers[f]
    PROVE  OfferInv(f)'
BY DEF OffersInv, OfferInv, Grows, Trades

LEMMA OfferTrading ==
    ASSUME Grows, NEW f \in Offers, Trades(f)
    PROVE  OfferInv(f)'
BY DEF OfferInv, Grows, Trades

LEMMA OffersKept ==
    ASSUME OffersInv, Grows, offers' = offers
    PROVE  OffersInv'
BY OfferKept DEF OffersInv

LEMMA OrderKept ==
    ASSUME TypeOK, OrdersInv, Grows, NEW o \in Orders, orders'[o] = orders[o],
           paid'[o] = paid[o]
    PROVE  OrderInv(o)'
<1>1. OrderInv(o) /\ orders[o].offer \in Offers
  BY DEF TypeOK, OrderRow, OrdersInv
<1>2. Placed(o)' => Placed(o)
  BY DEF Placed
<1>3. Placed(o) => Trades(orders[o].offer)'
  <2>1. Placed(o) => Trades(orders[o].offer)
    BY <1>1 DEF OrderInv
  <2> QED BY <1>1, <2>1 DEF Grows, Trades
<1>4. Placed(o) /\ Funded(o) => Funded(o)'
  BY StaysFunded
<1> QED BY <1>1, <1>2, <1>3, <1>4 DEF OrderInv, Placed

(* An order that was there before, given a new status.                       *)
LEMMA OrderWritten ==
    ASSUME TypeOK, OrdersInv, Grows, NEW o \in Orders, Placed(o), paid' = paid,
           orders'[o].status \in {"OPEN", "PENDING", "COMPLETED"} => Funded(o),
           orders'[o].status = "EXPIRED" =>
              /\ orders'[o].previous \in Active
              /\ orders'[o].previous # "WAITING_TRANSFER" => Funded(o),
           orders'[o].status = "COMPLETED" => paid[o] > 0
    PROVE  OrderInv(o)'
<1>1. OrderInv(o) /\ orders[o].offer \in Offers
  BY DEF TypeOK, OrderRow, OrdersInv
<1>2. Trades(orders[o].offer)' /\ orders'[o].amount > 0
  <2>1. Trades(orders[o].offer) /\ orders[o].amount > 0
    BY <1>1 DEF OrderInv
  <2> QED BY <1>1, <2>1 DEF Grows, Trades
<1>3. Funded(o) => Funded(o)'
  BY StaysFunded
<1>4. Placed(o)'
  BY DEF Grows
<1> QED BY <1>1, <1>2, <1>3, <1>4 DEF OrderInv

LEMMA OrdersKept ==
    ASSUME TypeOK, OrdersInv, Grows, UNCHANGED <<orders, paid>>
    PROVE  OrdersInv'
<1> SUFFICES ASSUME NEW o \in Orders PROVE OrderInv(o)'
  BY DEF OrdersInv
<1> QED BY OrderKept

LEMMA RequestKept ==
    ASSUME Grows, NEW r \in Requests, RequestInv(r)
    PROVE  RequestInv(r)'
<1>1. /\ r.op = "order" => r.offer \in Offers
      /\ r.op \in OrderOps => r.order \in Orders
      /\ r.op \in CancelOps => r.offer \in Offers
  BY RequestFields
<1>2. r.op = "order" => Trades(r.offer)'
  BY <1>1 DEF RequestInv, Grows
<1>3. r.op \in OrderOps => Placed(r.order)' /\ Funded(r.order)'
  <2> SUFFICES ASSUME r.op \in OrderOps PROVE Placed(r.order)' /\ Funded(r.order)'
    OBVIOUS
  <2>1. r.order \in Orders /\ Placed(r.order) /\ Funded(r.order)
    BY <1>1 DEF RequestInv
  <2> QED BY <2>1, StaysFunded DEF Grows
<1>4. r.op = "paid" => paid'[r.order] > 0
  BY <1>1 DEF RequestInv, Grows, OrderOps
<1>5. r.op \in CancelOps => /\ offers'[r.offer].status # "NONE"
                            /\ r.amount > 0 => r.offer \in deposited'
  BY <1>1 DEF RequestInv, Grows
<1> QED BY <1>2, <1>3, <1>4, <1>5 DEF RequestInv

LEMMA SlotsKept ==
    ASSUME TypeOK, SlotsInv, Grows,
           \A s \in Slots : slot'[s] \in {slot[s], Idle}
    PROVE  SlotsInv'
<1> SUFFICES ASSUME NEW s \in Slots PROVE RequestInv(slot[s])'
  BY DEF SlotsInv
<1>1. CASE slot'[s] = slot[s]
  <2>1. PICK r \in Requests : r = slot[s] /\ RequestInv(r)
    BY DEF TypeOK, SlotsInv
  <2>2. RequestInv(r)'
    BY <2>1, RequestKept
  <2> QED BY <1>1, <2>1, <2>2 DEF RequestInv, Trades, Placed, Funded
<1>2. CASE slot'[s] = Idle
  BY <1>2 DEF RequestInv, Idle, OrderOps, CancelOps
<1> QED BY <1>1, <1>2

LEMMA SlotsAnswered ==
    ASSUME TypeOK, SlotsInv, Grows, NEW s \in Slots, Finish(s)
    PROVE  SlotsInv'
BY SlotsKept DEF Finish, TypeOK

(* One goroutine goes on with the request r; the others stay.                *)
LEMMA SlotsMoved ==
    ASSUME TypeOK, SlotsInv, Grows, NEW s \in Slots, NEW r,
           slot' = [slot EXCEPT ![s] = r], RequestInv(r)'
    PROVE  SlotsInv'
<1> SUFFICES ASSUME NEW q \in Slots PROVE RequestInv(slot[q])'
  BY DEF SlotsInv
<1>1. CASE q = s
  BY <1>1 DEF TypeOK, RequestInv, Trades, Placed, Funded
<1>2. CASE q # s
  <2>1. PICK t \in Requests : t = slot[q] /\ RequestInv(t)
    BY DEF TypeOK, SlotsInv
  <2>2. RequestInv(t)'
    BY <2>1, RequestKept
  <2>3. slot'[q] = t
    BY <1>2, <2>1 DEF TypeOK
  <2> QED BY <2>2, <2>3 DEF RequestInv, Trades, Placed, Funded
<1> QED BY <1>1, <1>2

LEMMA RefundsKept ==
    ASSUME TypeOK, RefundsInv, Grows, refunding' \subseteq refunding
    PROVE  RefundsInv'
<1> SUFFICES ASSUME NEW o \in refunding' PROVE Placed(o)' /\ Funded(o)'
  BY DEF RefundsInv
<1> QED BY StaysFunded DEF RefundsInv, Grows, TypeOK

LEMMA CreatedKept ==
    ASSUME TypeOK, Grows, NEW i \in Offers \cup Orders, Created(i)
    PROVE  Created(i)' /\ Escrow(i)' = Escrow(i)
<1>1. CASE i \in Offers
  BY <1>1 DEF Created, Escrow, Grows
<1>2. CASE i \notin Offers
  BY <1>2 DEF Created, Escrow, Grows, Placed
<1> QED BY <1>1, <1>2

LEMMA PoolKept ==
    ASSUME TypeOK, PoolInv, Grows, pool' \subseteq pool
    PROVE  PoolInv'
<1> SUFFICES ASSUME NEW t \in pool'
             PROVE  Created(t.id)' /\ (t.ok /\ t.amount = Escrow(t.id)' => t.id \in deposited')
  BY DEF PoolInv, Created, Escrow
<1>1. t \in pool /\ t.id \in Offers \cup Orders
  BY DEF TypeOK, Deposit
<1>2. Created(t.id) /\ (t.ok /\ t.amount = Escrow(t.id) => t.id \in deposited)
  BY <1>1 DEF PoolInv
<1>3. \A i \in Offers \cup Orders : Created(i) => Created(i)' /\ Escrow(i)' = Escrow(i)
  BY CreatedKept
<1> QED BY <1>1, <1>2, <1>3 DEF Grows

(* Most steps touch neither the rows nor the payouts.                        *)
LEMMA RowsKept ==
    ASSUME TypeOK, FundedInv, Grows, UNCHANGED <<offers, orders, paid>>,
           refunding' \subseteq refunding, pool' \subseteq pool, SlotsInv'
    PROVE  FundedInv'
BY OffersKept, OrdersKept, RefundsKept, PoolKept DEF FundedInv

-----------------------------------------------------------------------------
(* The invariant is inductive: one step per action, and under it the parts
   the action disturbs.                                                     *)
LEMMA RequestFunded ==
    ASSUME TypeOK, FundedInv, Grows, NEW s \in Slots, Request(s)
    PROVE  FundedInv'
<1>0. UNCHANGED <<offers, orders, refunding, pool, paid, deposited>>
  BY DEF Request, CountActiveOffers, ReadOfferForOrder, ReadOrderForConfirm,
     ReadOfferForCancel, chainVars
<1>1. SlotsInv'
  <2>1. CASE CountActiveOffers(s)
    <3>1. slot' = [slot EXCEPT ![s] = [op |-> "offer"]]
      BY <2>1 DEF CountActiveOffers, Begin
    <3>2. RequestInv([op |-> "offer"])'
      BY DEF RequestInv, OrderOps, CancelOps
    <3> QED BY <3>1, <3>2, SlotsMoved DEF FundedInv
  <2>2. ASSUME NEW f \in Offers, NEW a \in OrderAmounts, ReadOfferForOrder(s, f, a)
        PROVE  SlotsInv'
    <3> DEFINE r == [op |-> "order", offer |-> f, amount |-> a]
    <3>1. slot' = [slot EXCEPT ![s] = r]
      BY <2>2 DEF ReadOfferForOrder, Begin
    <3>2. Trades(f) /\ a > 0
      BY <2>2, P2PAssumption DEF ReadOfferForOrder, FundedInv, OffersInv, OfferInv, P2PAssumption
    <3>3. Trades(f)'
      BY <3>2 DEF Grows
    <3>4. RequestInv(r)'
      BY <3>2, <3>3 DEF RequestInv, OrderOps, CancelOps
    <3> HIDE DEF r
    <3> QED BY <3>1, <3>4, SlotsMoved DEF FundedInv
  <2>3. ASSUME NEW o \in Orders, NEW role \in {"buyer", "seller"}, ReadOrderForConfirm(s, o, role)
        PROVE  SlotsInv'
    <3> DEFINE r == [op |-> role, order |-> o]
    <3>1. slot' = [slot EXCEPT ![s] = r]
      BY <2>3 DEF ReadOrderForConfirm, Begin
    <3>2. Placed(o) /\ Funded(o)
      BY <2>3 DEF ReadOrderForConfirm, FundedInv, OrdersInv, OrderInv, Placed
    <3>3. Placed(o)' /\ Funded(o)'
      BY <3>2, StaysFunded DEF Grows
    <3>4. RequestInv(r)'
      BY <3>3 DEF RequestInv, OrderOps, CancelOps
    <3> HIDE DEF r
    <3> QED BY <3>1, <3>4, SlotsMoved DEF FundedInv
  <2>4. ASSUME NEW f \in Offers, ReadOfferForCancel(s, f) PROVE SlotsInv'
    <3>1. PICK n : n = IF offers[f].status = "CONFIRMED" /\ f \in SellOffers
                       THEN offers[f].available ELSE 0
      OBVIOUS
    <3> DEFINE r == [op |-> "cancel", offer |-> f, amount |-> n]
    <3>2. slot' = [slot EXCEPT ![s] = r]
      BY <2>4, <3>1 DEF ReadOfferForCancel, Begin
    <3>3. offers'[f].status # "NONE"
      BY <2>4, <1>0 DEF ReadOfferForCancel
    <3>4. n > 0 => f \in deposited'
      BY <3>1, <1>0 DEF FundedInv, OffersInv, OfferInv, Trades
    <3>5. RequestInv(r)'
      BY <3>3, <3>4 DEF RequestInv, OrderOps, CancelOps
    <3> HIDE DEF r
    <3> QED BY <3>2, <3>5, SlotsMoved DEF FundedInv
  <2> QED BY <2>1, <2>2, <2>3, <2>4 DEF Request
<1> QED BY <1>0, <1>1, RowsKept

LEMMA HandlerFunded ==
    ASSUME TypeOK, FundedInv, Grows, NEW s \in Slots, HandlerStep(s)
    PROVE  FundedInv'
<1>0. slot[s] \in Requests /\ RequestInv(slot[s])
  BY DEF TypeOK, FundedInv, SlotsInv
<1>p. /\ OffersInv /\ OrdersInv /\ SlotsInv /\ RefundsInv /\ PoolInv
  BY DEF FundedInv
<1>1. ASSUME NEW f \in Offers, NEW w \in Wallets, NEW a \in OfferAmounts, CreateOffer(s, f, w, a)
      PROVE  FundedInv'
  <2>1. UNCHANGED <<orders, refunding, pool, paid, deposited>> /\ Finish(s)
    BY <1>1 DEF CreateOffer, chainVars
  <2>2. OffersInv'
    <3> SUFFICES ASSUME NEW g \in Offers PROVE OfferInv(g)'
      BY DEF OffersInv
    <3>1. CASE g = f
      BY <1>1, <3>1, CreateOfferWrites, P2PAssumption DEF OfferInv, Trades, P2PAssumption, Offers
    <3>2. CASE g # f
      BY <1>1, <1>p, <3>2, CreateOfferWrites, OfferKept
    <3> QED BY <3>1, <3>2
  <2> QED BY <1>p, <2>1, <2>2, OrdersKept, SlotsAnswered, RefundsKept, PoolKept DEF FundedInv
<1>2. ASSUME NEW o \in Orders, CreateOrder(s, o) PROVE FundedInv'
  <2>1. UNCHANGED <<refunding, pool, paid, deposited>> /\ Finish(s) /\ slot[s].op = "order"
    BY <1>2 DEF CreateOrder, chainVars
  <2>2. PICK f \in Offers :
              /\ f = slot[s].offer
              /\ WritesOffer(f, offers[f].status)
              /\ orders[o].status = "NONE"
              /\ \A p \in Orders \ {o} : orders'[p] = orders[p]
              /\ orders'[o].status = IF f \in BuyOffers THEN "WAITING_TRANSFER" ELSE "OPEN"
              /\ orders'[o].offer = f /\ orders'[o].amount = slot[s].amount
    BY <1>2, CreateOrderWrites
  <2>3. Trades(f) /\ Trades(f)' /\ orders'[o].amount > 0
    BY <1>0, <2>1, <2>2 DEF RequestInv, Grows
  <2>4. OffersInv'
    BY <1>p, <2>2, <2>3, OfferKept, OfferTrading DEF OffersInv, WritesOffer
  <2>5. OrderInv(o)'
    <3>1. paid'[o] > 0 => FALSE
      BY <1>p, <2>1, <2>2 DEF OrdersInv, OrderInv, Placed
    <3>2. orders'[o].status = "OPEN" => Funded(o)'
      BY <2>2, <2>3 DEF Funded, Trades, Offers
    <3> QED BY <2>2, <2>3, <3>1, <3>2 DEF OrderInv, Placed
  <2>6. OrdersInv'
    BY <1>p, <2>1, <2>2, <2>5, OrderKept DEF OrdersInv
  <2> QED BY <1>p, <2>1, <2>4, <2>6, SlotsAnswered, RefundsKept, PoolKept DEF FundedInv
<1>3. CASE BuyerConfirm(s)
  <2>1. UNCHANGED <<offers, refunding, pool, paid, deposited>> /\ Finish(s) /\ slot[s].op = "buyer"
    BY <1>3 DEF BuyerConfirm, chainVars
  <2>2. PICK o \in Orders : o = slot[s].order /\ WritesOrder(o, "PENDING", orders[o].status)
    BY <1>3, BuyerConfirmWrites
  <2>3. Placed(o) /\ Funded(o)
    BY <1>0, <2>1, <2>2 DEF RequestInv, OrderOps
  <2>4. OrderInv(o)'
    BY <1>p, <2>1, <2>2, <2>3, OrderWritten DEF WritesOrder
  <2>5. OrdersInv'
    BY <1>p, <2>1, <2>2, <2>4, OrderKept DEF OrdersInv, WritesOrder
  <2> QED BY <1>p, <2>1, <2>5, OffersKept, SlotsAnswered, RefundsKept, PoolKept DEF FundedInv
<1>4. CASE SellerTransfer(s)
  <2>1. UNCHANGED <<offers, orders, refunding, pool, deposited>> /\ slot[s].op = "seller"
    BY <1>4 DEF SellerTransfer
  <2>2. PICK o \in Orders : o = slot[s].order
    BY <1>0, <2>1, RequestFields DEF OrderOps
  <2>3. Placed(o) /\ Funded(o) /\ Placed(o)' /\ Funded(o)' /\ orders[o].amount > 0
    BY <1>0, <1>p, <2>1, <2>2, StaysFunded DEF RequestInv, OrderOps, Grows, OrdersInv, OrderInv
  <2>4. PICK r \in Outcomes(offers[orders[o].offer].wallet, orders[o].amount) :
             /\ paid' = [paid EXCEPT ![o] = @ + IF r.moved > 0 THEN 1 ELSE 0]
             /\ slot' = [slot EXCEPT ![s] =
                    IF r.err THEN Idle ELSE [op |-> "paid", order |-> o]]
    BY <1>4, <2>2 DEF SellerTransfer
  <2>5. r.err \/ paid'[o] > 0
    BY <2>3, <2>4 DEF Outcomes, TypeOK
  <2>6. SlotsInv'
    <3>1. CASE r.err
      BY <1>p, <2>4, <3>1, SlotsKept DEF TypeOK
    <3>2. CASE ~r.err
      <4> DEFINE q == [op |-> "paid", order |-> o]
      <4>1. slot' = [slot EXCEPT ![s] = q]
        BY <2>4, <3>2
      <4>2. RequestInv(q)'
        BY <2>3, <2>5, <3>2 DEF RequestInv, OrderOps, CancelOps
      <4> HIDE DEF q
      <4> QED BY <1>p, <4>1, <4>2, SlotsMoved
    <3> QED BY <3>1, <3>2
  <2>7. OrdersInv'
    <3> SUFFICES ASSUME NEW p \in Orders PROVE OrderInv(p)'
      BY DEF OrdersInv
    <3>1. CASE p # o
      BY <1>p, <2>1, <2>4, <3>1, OrderKept DEF TypeOK
    <3>2. CASE p = o
      <4>1. OrderInv(o) /\ orders[o].offer \in Offers
        BY <1>p DEF OrdersInv, TypeOK, OrderRow
      <4>2. Trades(orders[o].offer)'
        BY <2>1, <2>3, <4>1 DEF OrderInv, Grows, Trades
      <4> QED BY <2>1, <2>3, <4>1, <4>2, <3>2 DEF OrderInv, Grows
    <3> QED BY <3>1, <3>2
  <2> QED BY <1>p, <2>1, <2>6, <2>7, OffersKept, RefundsKept, PoolKept DEF FundedInv
<1>5. CASE SellerComplete(s)
  <2>1. UNCHANGED <<refunding, pool, paid, deposited>> /\ Finish(s) /\ slot[s].op = "paid"
    BY <1>5 DEF SellerComplete, chainVars
  <2>2. PICK o \in Orders :
              /\ o = slot[s].order
              /\ WritesOrder(o, "COMPLETED", "CONFIRMED")
              /\ \E st : WritesOffer(orders[o].offer, st)
    BY <1>5, SellerCompleteWrites
  <2>3. Placed(o) /\ Funded(o) /\ paid[o] > 0
    BY <1>0, <2>1, <2>2 DEF RequestInv, OrderOps
  <2>4. OrderInv(o)'
    BY <1>p, <2>1, <2>2, <2>3, OrderWritten DEF WritesOrder
  <2>5. OrdersInv'
    BY <1>p, <2>1, <2>2, <2>4, OrderKept DEF OrdersInv, WritesOrder
  <2>6. orders[o].offer \in Offers /\ Trades(orders[o].offer)
    BY <1>p, <2>3 DEF TypeOK, OrderRow, OrdersInv, OrderInv
  <2>7. OffersInv'
    BY <1>p, <2>2, <2>6, OfferKept, OfferTrading DEF OffersInv, WritesOffer
  <2> QED BY <1>p, <2>1, <2>5, <2>7, SlotsAnswered, RefundsKept, PoolKept DEF FundedInv
<1>6. CASE SellerLosesCommit(s) \/ Abandon(s)
  <2>1. UNCHANGED <<offers, orders, refunding, pool, paid, deposited>> /\ Finish(s)
    BY <1>6 DEF SellerLosesCommit, Abandon, chainVars
  <2> QED BY <1>p, <2>1, SlotsAnswered, RowsKept
<1>7. CASE CheckDisputes(s) \/ CheckActive(s)
  <2>1. UNCHANGED <<offers, orders, refunding, pool, paid, deposited>> /\ slot[s].op \in CancelOps
    BY <1>7 DEF CheckDisputes, CheckActive, chainVars, CancelOps
  <2>2. PICK q \in CancelOps : slot' = [slot EXCEPT ![s] = [slot[s] EXCEPT !.op = q]]
    BY <1>7 DEF CheckDisputes, CheckActive, CancelOps
  <2>3. PICK r : r = [slot[s] EXCEPT !.op = q]
    OBVIOUS
  <2>4. slot' = [slot EXCEPT ![s] = r]
    BY <2>2, <2>3
  <2>5. r.op \in CancelOps /\ r.offer = slot[s].offer /\ r.amount = slot[s].amount
    BY <1>0, <2>1, <2>3, RequestMoves
  <2>6. RequestInv(r)'
    BY <1>0, <2>1, <2>5 DEF RequestInv, OrderOps, CancelOps
  <2>7. SlotsInv'
    BY <1>p, <2>4, <2>6, SlotsMoved
  <2> QED BY <2>1, <2>7, RowsKept
<1>8. CASE RefundOffer(s)
  <2>1. /\ UNCHANGED <<offers, orders, refunding, pool, paid, deposited>>
        /\ slot[s].op \in CancelOps /\ "refunded" \in CancelOps
    BY <1>8 DEF RefundOffer, CancelOps
  <2>2. PICK r : r = [slot[s] EXCEPT !.op = "refunded"]
    OBVIOUS
  <2>3. slot' = [slot EXCEPT ![s] = r] \/ slot' = [slot EXCEPT ![s] = Idle]
    BY <1>8, <2>2 DEF RefundOffer
  <2>4. r.op \in CancelOps /\ r.offer = slot[s].offer /\ r.amount = slot[s].amount
    BY <1>0, <2>1, <2>2, RequestMoves
  <2>5. RequestInv(r)'
    BY <1>0, <2>1, <2>4 DEF RequestInv, OrderOps, CancelOps
  <2>6. SlotsInv'
    <3>1. CASE slot' = [slot EXCEPT ![s] = r]
      BY <1>p, <3>1, <2>5, SlotsMoved
    <3>2. CASE slot' = [slot EXCEPT ![s] = Idle]
      BY <1>p, <3>2, SlotsAnswered DEF Finish
    <3> QED BY <2>3, <3>1, <3>2
  <2> QED BY <2>1, <2>6, RowsKept
<1>9. ASSUME NEW committed \in BOOLEAN, CancelCommit(s, committed) PROVE FundedInv'
  <2>1. UNCHANGED <<orders, refunding, pool, paid, deposited>> /\ Finish(s)
    BY <1>9 DEF CancelCommit, chainVars
  <2>2. PICK f \in Offers : offers' = offers \/ WritesOffer(f, "CANCELED")
    BY <1>9, CancelCommitWrites
  <2>3. OffersInv'
    <3> SUFFICES ASSUME NEW g \in Offers PROVE OfferInv(g)'
      BY DEF OffersInv
    <3>1. CASE offers'[g] = offers[g]
      BY <1>p, <3>1, OfferKept
    <3>2. CASE offers'[g].status = "CANCELED"
      BY <3>2 DEF OfferInv
    <3> QED BY <2>2, <3>1, <3>2 DEF WritesOffer
  <2> QED BY <1>p, <2>1, <2>3, OrdersKept, SlotsAnswered, RefundsKept, PoolKept DEF FundedInv
<1> QED BY <1>1, <1>2, <1>3, <1>4, <1>5, <1>6, <1>7, <1>8, <1>9 DEF HandlerStep

LEMMA UsersFunded ==
    ASSUME TypeOK, FundedInv, Grows, Users
    PROVE  FundedInv'
<1>p. /\ OffersInv /\ OrdersInv /\ SlotsInv /\ RefundsInv /\ PoolInv
  BY DEF FundedInv
<1>1. ASSUME NEW o \in Orders, ReopenOrder(o) PROVE FundedInv'
  <2>1. UNCHANGED <<slot, refunding, pool, paid, deposited>>
    BY <1>1 DEF ReopenOrder, chainVars
  <2>2. /\ orders[o].status = "EXPIRED"
        /\ WritesOffer(orders[o].offer, "CONFIRMED")
        /\ WritesOrder(o, IF orders[o].previous # "NONE" THEN orders[o].previous ELSE "OPEN",
                       orders[o].previous)
    BY <1>1, ReopenOrderWrites
  <2>3. Placed(o) /\ OrderInv(o)
    BY <1>p, <2>2 DEF Placed, OrdersInv
  <2>4. /\ orders'[o].status = orders[o].previous
        /\ orders[o].previous \in Active
        /\ orders[o].previous # "WAITING_TRANSFER" => Funded(o)
    BY <2>2, <2>3 DEF OrderInv, WritesOrder, Active
  <2>5. OrderInv(o)'
    BY <1>p, <2>1, <2>3, <2>4, OrderWritten DEF Active
  <2>6. OrdersInv'
    BY <1>p, <2>1, <2>2, <2>5, OrderKept DEF OrdersInv, WritesOrder
  <2>7. orders[o].offer \in Offers /\ Trades(orders[o].offer)
    BY <2>3 DEF TypeOK, OrderRow, OrderInv
  <2>8. OffersInv'
    BY <1>p, <2>2, <2>7, OfferKept, OfferTrading DEF OffersInv, WritesOffer
  <2> QED BY <1>p, <2>1, <2>6, <2>8, SlotsKept, RefundsKept, PoolKept DEF FundedInv
<1>2. ASSUME NEW o \in Orders, Lapse(o) PROVE FundedInv'
  <2>1. UNCHANGED <<offers, slot, refunding, pool, paid, deposited>> /\ Placed(o)
    BY <1>2 DEF Lapse, chainVars, Placed
  <2>2. WritesOrder(o, orders[o].status, orders[o].previous)
    BY <1>2, LapseWrites
  <2>3. OrderInv(o)'
    BY <1>p, <2>1, <2>2, OrderWritten DEF WritesOrder, OrdersInv, OrderInv
  <2>4. OrdersInv'
    BY <1>p, <2>1, <2>2, <2>3, OrderKept DEF OrdersInv, WritesOrder
  <2> QED BY <1>p, <2>1, <2>4, OffersKept, SlotsKept, RefundsKept, PoolKept DEF FundedInv
<1>3. ASSUME NEW i \in Offers \cup Orders, NEW a \in OfferAmounts \cup OrderAmounts,
             NEW ok \in BOOLEAN, SendDeposit(i, a, ok)
      PROVE  FundedInv'
  <2>1. UNCHANGED <<offers, orders, slot, refunding, paid>> /\ Created(i)
    BY <1>3 DEF SendDeposit
  <2>2. PICK d : /\ d.id = i /\ d.amount = a /\ d.ok = ok
                 /\ pool' = pool \cup {d}
    BY <1>3 DEF SendDeposit
  <2>3. Created(i)' /\ Escrow(i)' = Escrow(i)
    BY <2>1, CreatedKept
  <2>4. ok /\ a = Escrow(i) => i \in deposited'
    BY <1>3 DEF SendDeposit
  <2>5. PoolInv'
    <3> SUFFICES ASSUME NEW t \in pool'
                 PROVE  Created(t.id)' /\ (t.ok /\ t.amount = Escrow(t.id)' => t.id \in deposited')
      BY DEF PoolInv, Created, Escrow
    <3>1. CASE t = d
      BY <2>2, <2>3, <2>4, <3>1
    <3>2. CASE t \in pool
      <4>1. t.id \in Offers \cup Orders
        BY <3>2 DEF TypeOK, Deposit
      <4>2. Created(t.id) /\ (t.ok /\ t.amount = Escrow(t.id) => t.id \in deposited)
        BY <1>p, <3>2 DEF PoolInv
      <4>3. \A j \in Offers \cup Orders : Created(j) => Created(j)' /\ Escrow(j)' = Escrow(j)
        BY CreatedKept
      <4> QED BY <4>1, <4>2, <4>3 DEF Grows
    <3> QED BY <2>2, <3>1, <3>2
  <2> QED BY <1>p, <2>1, <2>5, OffersKept, OrdersKept, SlotsKept, RefundsKept DEF FundedInv
<1> QED BY <1>1, <1>2, <1>3 DEF Users

LEMMA ExpireFunded ==
    ASSUME TypeOK, FundedInv, Grows, CancelExpiredOrders
    PROVE  FundedInv'
<1>p. /\ OffersInv /\ OrdersInv /\ SlotsInv /\ RefundsInv /\ PoolInv
  BY DEF FundedInv
<1>1. UNCHANGED <<slot, pool, paid, deposited>>
  BY DEF CancelExpiredOrders, chainVars
<1>2. ASSUME NEW o \in OverdueOrders
      PROVE  /\ o \in Orders /\ Placed(o) /\ orders[o].status \in Active
             /\ orders[o].status # "WAITING_TRANSFER" => Funded(o)
             /\ orders[o].offer \in Offers /\ Trades(orders[o].offer)
  BY <1>p DEF OverdueOrders, Active, Placed, OrdersInv, OrderInv, TypeOK, OrderRow
<1>3. OffersInv'
  <2> SUFFICES ASSUME NEW f \in Offers PROVE OfferInv(f)'
    BY DEF OffersInv
  <2>1. CASE \E o \in OverdueOrders : orders[o].offer = f
    BY <2>1, <1>2, OfferTrading
  <2>2. CASE \A o \in OverdueOrders : orders[o].offer # f
    BY <2>2, <1>p, CancelExpiredWrites, OfferKept
  <2> QED BY <2>1, <2>2
<1>4. OrdersInv'
  <2> SUFFICES ASSUME NEW o \in Orders PROVE OrderInv(o)'
    BY DEF OrdersInv
  <2>1. CASE o \in OverdueOrders
    <3>1. orders'[o].status = "EXPIRED" /\ orders'[o].previous = orders[o].status
      BY <2>1, CancelExpiredWrites
    <3> QED BY <1>p, <1>1, <1>2, <2>1, <3>1, OrderWritten
  <2>2. CASE o \notin OverdueOrders
    <3>1. orders'[o] = orders[o]
      BY <2>2, CancelExpiredWrites
    <3> QED BY <1>p, <1>1, <3>1, OrderKept
  <2> QED BY <2>1, <2>2
<1>5. RefundsInv'
  <2> SUFFICES ASSUME NEW o \in refunding' PROVE Placed(o)' /\ Funded(o)'
    BY DEF RefundsInv
  <2>1. o \in OverdueOrders /\ orders[o].status = "OPEN"
    BY CancelExpiredWrites DEF Refundable
  <2>2. o \in Orders /\ Placed(o) /\ Funded(o)
    BY <1>2, <2>1
  <2> QED BY <2>2, StaysFunded DEF Grows
<1> QED BY <1>p, <1>1, <1>3, <1>4, <1>5, SlotsKept, PoolKept DEF FundedInv

LEMMA IndexFunded ==
    ASSUME TypeOK, FundedInv, Grows, NEW block \in SUBSET pool, IndexBlock(block)
    PROVE  FundedInv'
<1>p. /\ OffersInv /\ OrdersInv /\ SlotsInv /\ RefundsInv /\ PoolInv
  BY DEF FundedInv
<1>1. UNCHANGED <<slot, refunding, paid, deposited>> /\ pool' \subseteq pool
  BY DEF IndexBlock
<1>2. OffersInv'
  <2> SUFFICES ASSUME NEW f \in Offers PROVE OfferInv(f)'
    BY DEF OffersInv
  <2>0. /\ offers'[f].total = offers[f].total
        /\ offers'[f].status = IF f \in ConfirmedOffers(block) THEN "CONFIRMED"
                               ELSE IF f \in FailedOffers(block) THEN "FAILED"
                               ELSE offers[f].status
        /\ (\A t \in FailedOrderTxs(block) : orders[t.id].offer # f)
              => offers'[f].available = offers[f].available
    BY IndexBlockWrites
  <2>1. CASE f \in ConfirmedOffers(block)
    <3>1. PICK t \in pool : /\ offers[f].status = "OPEN" /\ f \in SellOffers
                            /\ t.id = f /\ t.ok /\ t.amount = offers[f].available
      BY <2>1 DEF ConfirmedOffers
    <3>2. t.amount = Escrow(t.id)
      BY <1>p, <3>1 DEF OffersInv, OfferInv, Escrow
    <3>3. f \in deposited
      BY <1>p, <3>1, <3>2 DEF PoolInv
    <3> QED BY <1>1, <2>0, <2>1, <3>3 DEF OfferInv, Trades
  <2>2. CASE f \notin ConfirmedOffers(block) /\ offers'[f].status # offers[f].status
    BY <2>0, <2>2 DEF OfferInv
  <2>3. CASE offers'[f].status = offers[f].status
    <3>1. CASE offers[f].status = "OPEN"
      <4>1. \A t \in FailedOrderTxs(block) : orders[t.id].offer # f
        BY <1>p, <3>1 DEF FailedOrderTxs, OrdersInv, OrderInv, Placed, Trades
      <4> QED BY <1>p, <2>0, <2>3, <3>1, <4>1 DEF OffersInv, OfferInv
    <3>2. CASE offers[f].status # "OPEN"
      BY <1>p, <1>1, <2>3, <3>2 DEF OffersInv, OfferInv, Trades
    <3> QED BY <3>1, <3>2
  <2> QED BY <2>1, <2>2, <2>3
<1>3. OrdersInv'
  <2> SUFFICES ASSUME NEW o \in Orders PROVE OrderInv(o)'
    BY DEF OrdersInv
  <2>0. /\ orders'[o].status = IF o \in OpenedOrders(block) THEN "OPEN"
                               ELSE IF \E t \in FailedOrderTxs(block) : t.id = o
                               THEN "FAILED" ELSE orders[o].status
        /\ orders'[o].previous = orders[o].previous
        /\ orders'[o].offer = orders[o].offer
        /\ orders'[o].amount = orders[o].amount
    BY IndexBlockWrites
  <2>1. CASE o \in OpenedOrders(block)
    <3>1. PICK t \in pool : /\ orders[o].status = "WAITING_TRANSFER"
                            /\ t.id = o /\ t.ok /\ t.amount = orders[o].amount
      BY <2>1 DEF OpenedOrders
    <3>2. o \notin Offers
      BY P2PAssumption DEF P2PAssumption
    <3>3. o \in deposited /\ orders[o].offer \in BuyOffers
      BY <1>p, <3>1, <3>2 DEF PoolInv, Escrow, Created
    <3>4. Funded(o) /\ Placed(o)
      BY <3>1, <3>3, P2PAssumption DEF Funded, Placed, P2PAssumption
    <3> QED BY <1>p, <1>1, <2>0, <2>1, <3>4, OrderWritten
  <2>2. CASE o \notin OpenedOrders(block) /\ \E t \in FailedOrderTxs(block) : t.id = o
    <3>1. Placed(o) /\ orders'[o].status = "FAILED"
      BY <2>0, <2>2 DEF FailedOrderTxs, Placed
    <3> QED BY <1>p, <1>1, <3>1, OrderWritten
  <2>3. CASE orders'[o].status = orders[o].status
    <3>1. CASE Placed(o)
      BY <1>p, <1>1, <2>0, <2>3, <3>1, OrderWritten DEF OrdersInv, OrderInv
    <3>2. CASE ~Placed(o)
      BY <1>p, <1>1, <2>3, <3>2 DEF OrdersInv, OrderInv, Placed
    <3> QED BY <3>1, <3>2
  <2> QED BY <2>0, <2>1, <2>2, <2>3
<1> QED BY <1>p, <1>1, <1>2, <1>3, SlotsKept, RefundsKept, PoolKept DEF FundedInv

LEMMA FundedStep == TypeOK /\ FundedInv /\ [Next]_vars => FundedInv'
<1> SUFFICES ASSUME TypeOK, FundedInv, [Next]_vars PROVE FundedInv'
  OBVIOUS
<1>1. CASE UNCHANGED vars
  BY <1>1 DEF vars, FundedInv, OffersInv, OfferInv, OrdersInv, OrderInv, SlotsInv, RequestInv,
     RefundsInv, PoolInv, Trades, Placed, Funded, Created, Escrow
<1>2. CASE Next
  <2>1. Grows
    BY <1>2, GrowStep
  <2>2. ASSUME NEW o \in Orders, RefundExpiredOrder(o) PROVE FundedInv'
    <3>1. UNCHANGED <<offers, orders, slot, pool, paid, deposited>> /\ refunding' \subseteq refunding
      BY <2>2 DEF RefundExpiredOrder
    <3> QED BY <2>1, <3>1, RowsKept, SlotsKept DEF FundedInv
  <2>3. CASE Crash
    <3>1. /\ UNCHANGED <<offers, orders, pool, paid, deposited>> /\ refunding' \subseteq refunding
          /\ \A s \in Slots : slot'[s] = Idle
      BY <2>3 DEF Crash, chainVars
    <3> QED BY <2>1, <3>1, RowsKept, SlotsKept DEF FundedInv
  <2> QED BY <1>2, <2>1, <2>2, <2>3, RequestFunded, HandlerFunded, UsersFunded, ExpireFunded,
             IndexFunded DEF Next
<1> QED BY <1>1, <1>2

(* Every behaviour keeps the invariant: what trades, is opened, confirmed,
   refunded or about to be paid has its own escrow on the chain.             *)
THEOREM AlwaysFunded == Spec => []FundedInv
<1>1. Init => FundedInv
  <2> SUFFICES ASSUME Init PROVE FundedInv
    OBVIOUS
  <2>1. OffersInv /\ OrdersInv /\ RefundsInv /\ PoolInv
    BY DEF Init, NoRow, OffersInv, OfferInv, OrdersInv, OrderInv, RefundsInv, PoolInv, Placed
  <2>2. SlotsInv
    BY DEF Init, SlotsInv, RequestInv, Idle, OrderOps, CancelOps
  <2> QED BY <2>1, <2>2 DEF FundedInv
<1> QED BY <1>1, FundedStep, TypeCorrect, PTL DEF Spec

(* The service never spends, for an order or a canceled offer, escrow that did
   not reach the chain (SellerTransfer, processRefunds, CancelOffer).        *)
THEOREM SpendingFunded == Spec => []SpendingWasFunded
<1>1. TypeOK /\ FundedInv => SpendingWasFunded
  <2> SUFFICES ASSUME TypeOK, FundedInv PROVE SpendingWasFunded
    OBVIOUS
  <2>1. \A o \in Orders : paid[o] > 0 => Funded(o)
    BY DEF FundedInv, OrdersInv, OrderInv
  <2>2. \A o \in refunding : Funded(o)
    BY DEF FundedInv, RefundsInv
  <2>3. \A s \in Slots : slot[s].op \in CancelOps /\ slot[s].amount > 0
                            => slot[s].offer \in deposited
    BY DEF FundedInv, SlotsInv, RequestInv
  <2> QED BY <2>1, <2>2, <2>3 DEF SpendingWasFunded
<1> QED BY <1>1, TypeCorrect, AlwaysFunded, PTL

(* An order that reads COMPLETED was paid by the chain, whatever crashed or
   was rolled back (ConfirmOrderAsSeller).                                   *)
THEOREM CompletedPaid == Spec => []CompletedOrdersWerePaid
<1>1. FundedInv => CompletedOrdersWerePaid
  BY DEF FundedInv, OrdersInv, OrderInv, CompletedOrdersWerePaid
<1> QED BY <1>1, AlwaysFunded, PTL

-----------------------------------------------------------------------------
(* An offer that was canceled, failed or sold out never trades again.         *)
LEMMA ClosedStep == TypeOK /\ [Next]_vars => \A f \in Offers : OfferClosed(f) => OfferClosed(f)'
<1> SUFFICES ASSUME TypeOK, [Next]_vars, NEW f \in Offers, OfferClosed(f) PROVE OfferClosed(f)'
  OBVIOUS
<1>0. /\ \A s \in Slots : slot[s] \in Requests
      /\ \A o \in Orders : orders[o].offer \in Offers
  BY DEF TypeOK, OrderRow
<1>k. offers'[f].status = offers[f].status => OfferClosed(f)'
  BY DEF OfferClosed
<1>1. ASSUME NEW s \in Slots, Request(s) PROVE OfferClosed(f)'
  BY <1>1, <1>k DEF Request, CountActiveOffers, ReadOfferForOrder, ReadOrderForConfirm,
     ReadOfferForCancel
<1>2. ASSUME NEW s \in Slots, HandlerStep(s) PROVE OfferClosed(f)'
  <2>1. ASSUME NEW g \in Offers, NEW w \in Wallets, NEW a \in OfferAmounts, CreateOffer(s, g, w, a)
        PROVE  OfferClosed(f)'
    BY <2>1, <1>k, CreateOfferWrites DEF OfferClosed
  <2>2. ASSUME NEW o \in Orders, CreateOrder(s, o) PROVE OfferClosed(f)'
    BY <2>2, <1>k, CreateOrderWrites DEF WritesOffer
  <2>3. CASE BuyerConfirm(s) \/ SellerTransfer(s) \/ SellerLosesCommit(s) \/ CheckDisputes(s)
             \/ CheckActive(s) \/ RefundOffer(s) \/ Abandon(s)
    BY <2>3, <1>k DEF BuyerConfirm, SellerTransfer, SellerLosesCommit, CheckDisputes,
       CheckActive, RefundOffer, Abandon
  <2>4. CASE SellerComplete(s)
    <3>1. PICK o \in Orders : \E st \in {"COMPLETED", offers[orders[o].offer].status} :
                                 WritesOffer(orders[o].offer, st)
      BY <2>4, SellerCompleteWrites
    <3> QED BY <3>1, <1>0, <1>k DEF WritesOffer, OfferClosed
  <2>5. ASSUME NEW committed \in BOOLEAN, CancelCommit(s, committed) PROVE OfferClosed(f)'
    <3>1. PICK g \in Offers : offers' = offers \/ WritesOffer(g, "CANCELED")
      BY <2>5, CancelCommitWrites
    <3> QED BY <3>1, <1>k DEF WritesOffer, OfferClosed
  <2> QED BY <1>2, <2>1, <2>2, <2>3, <2>4, <2>5 DEF HandlerStep
<1>3. ASSUME Users PROVE OfferClosed(f)'
  <2>1. ASSUME NEW o \in Orders, ReopenOrder(o) PROVE OfferClosed(f)'
    <3>1. /\ WritesOffer(orders[o].offer, "CONFIRMED")
          /\ offers[orders[o].offer].status = "CONFIRMED"
      BY <2>1, ReopenOrderWrites
    <3> QED BY <3>1, <1>0, <1>k DEF WritesOffer
  <2>2. CASE offers' = offers
    BY <2>2, <1>k
  <2> QED BY <1>3, <2>1, <2>2 DEF Users, Lapse, SendDeposit
<1>4. CASE CancelExpiredOrders
  BY <1>4, <1>k, CancelExpiredWrites
<1>5. ASSUME NEW block \in SUBSET pool, IndexBlock(block) PROVE OfferClosed(f)'
  BY <1>5, <1>k, IndexBlockWrites DEF OfferClosed, ConfirmedOffers, FailedOffers
<1>6. CASE (\E o \in Orders : RefundExpiredOrder(o)) \/ Crash \/ UNCHANGED vars
  BY <1>6, <1>k DEF RefundExpiredOrder, Crash, vars
<1> QED BY <1>1, <1>2, <1>3, <1>4, <1>5, <1>6 DEF Next

(* Deposits that land after a cancellation, stale cancellations and late
   completions move a closed offer between closed statuses only
   (updateOfferStatus, CancelOffer, CheckAndCompleteIfEmpty).                *)
THEOREM ClosedForGood == Spec => ClosedOffersStayClosed
BY TypeCorrect, ClosedStep, PTL DEF Spec, ClosedOffersStayClosed

-----------------------------------------------------------------------------
(* Trading implements the abstract life of an order's escrow.                *)
LEMMA PhaseKept ==
    ASSUME NEW o \in Orders, Placed(o)' = Placed(o), Placed(o) => orders'[o].offer = orders[o].offer,
           paid'[o] = paid[o], Placed(o) => Funded(o)' = Funded(o)
    PROVE  EscrowPhase'[o] = EscrowPhase[o]
BY DEF EscrowPhase, Placed, Funded

LEMMA PhasesKept ==
    ASSUME \A o \in Orders : EscrowPhase'[o] = EscrowPhase[o]
    PROVE  EscrowPhase' = EscrowPhase
BY DEF EscrowPhase

(* One order's escrow moves on, and no other's.                              *)
LEMMA PhaseMoves ==
    ASSUME NEW o \in Orders, NEW p, EscrowPhase'[o] = p,
           \A q \in Orders \ {o} : EscrowPhase'[q] = EscrowPhase[q]
    PROVE  EscrowPhase' = [EscrowPhase EXCEPT ![o] = p]
BY DEF EscrowPhase

LEMMA EscrowStep == TypeOK /\ FundedInv /\ [Next]_vars => [Escrowed!Next]_EscrowPhase
<1> SUFFICES ASSUME TypeOK, FundedInv, [Next]_vars PROVE [Escrowed!Next]_EscrowPhase
  OBVIOUS
<1>p. OrdersInv /\ SlotsInv /\ PoolInv /\ \A s \in Slots : slot[s] \in Requests
  BY DEF FundedInv, TypeOK
<1>k. ASSUME UNCHANGED <<paid, deposited>>, NEW o \in Orders, Placed(o)' = Placed(o),
             Placed(o) => orders'[o].offer = orders[o].offer
      PROVE  EscrowPhase'[o] = EscrowPhase[o]
  BY <1>k, PhaseKept DEF Funded
<1>u. CASE UNCHANGED <<orders, paid, deposited>>
  BY <1>u, <1>k, PhasesKept DEF Placed
<1>1. ASSUME NEW s \in Slots, NEW o \in Orders, CreateOrder(s, o)
      PROVE  Escrowed!Next
  <2>1. UNCHANGED <<paid, deposited>>
    BY <1>1 DEF CreateOrder, chainVars
  <2>2. /\ orders[o].status = "NONE" /\ orders'[o].status # "NONE"
        /\ \A q \in Orders \ {o} : orders'[q] = orders[q]
    BY <1>1, CreateOrderWrites
  <2>3. \A q \in Orders \ {o} : EscrowPhase'[q] = EscrowPhase[q]
    BY <1>k, <2>1, <2>2 DEF Placed
  <2>4. ~(paid'[o] > 0)
    BY <1>p, <2>1, <2>2 DEF OrdersInv, OrderInv, Placed
  <2>5. PICK p \in {"unfunded", "funded"} : EscrowPhase'[o] = p
    BY <2>2, <2>4 DEF EscrowPhase
  <2>6. EscrowPhase[o] = "absent" /\ EscrowPhase' = [EscrowPhase EXCEPT ![o] = p]
    BY <2>2, <2>3, <2>5, PhaseMoves DEF EscrowPhase
  <2> QED BY <2>6 DEF Escrowed!Next, Escrowed!Place
<1>2. ASSUME NEW s \in Slots, SellerTransfer(s) PROVE [Escrowed!Next]_EscrowPhase
  <2>1. UNCHANGED <<orders, deposited>> /\ slot[s].op = "seller"
    BY <1>2 DEF SellerTransfer
  <2>2. PICK o \in Orders : o = slot[s].order
    BY <1>p, <2>1, RequestFields DEF OrderOps
  <2>3. Placed(o) /\ Funded(o)
    BY <1>p, <2>1, <2>2 DEF SlotsInv, RequestInv, OrderOps
  <2>4. PICK n \in {0, 1} : paid' = [paid EXCEPT ![o] = @ + n]
    BY <1>2, <2>2 DEF SellerTransfer
  <2>5. \A q \in Orders \ {o} : EscrowPhase'[q] = EscrowPhase[q]
    BY <2>1, <2>4, PhaseKept DEF Placed, Funded, TypeOK
  <2>6. CASE n = 0 \/ paid[o] > 0
    <3>1. paid'[o] > 0 <=> paid[o] > 0
      BY <2>4, <2>6 DEF TypeOK
    <3>2. EscrowPhase'[o] = EscrowPhase[o]
      BY <2>1, <3>1 DEF EscrowPhase, Funded
    <3> QED BY <2>5, <3>2, PhasesKept
  <2>7. CASE n = 1 /\ ~(paid[o] > 0)
    <3>1. paid'[o] > 0
      BY <2>4, <2>7 DEF TypeOK
    <3>2. EscrowPhase'[o] = "paid" /\ EscrowPhase[o] = "funded"
      BY <2>1, <2>3, <2>7, <3>1 DEF EscrowPhase, Placed
    <3> QED BY <2>5, <3>2, PhaseMoves DEF Escrowed!Next, Escrowed!Pay
  <2> QED BY <2>4, <2>6, <2>7
<1>3. ASSUME NEW i \in Offers \cup Orders, NEW a \in OfferAmounts \cup OrderAmounts,
             NEW ok \in BOOLEAN, SendDeposit(i, a, ok)
      PROVE  [Escrowed!Next]_EscrowPhase
  <2>1. UNCHANGED <<orders, paid>> /\ Created(i) /\ deposited' \in {deposited, deposited \cup {i}}
    BY <1>3 DEF SendDeposit
  <2>2. ASSUME NEW q \in Orders, q # i PROVE EscrowPhase'[q] = EscrowPhase[q]
    <3>1. Placed(q) => Funded(q)' = Funded(q)
      <4>1. CASE Placed(q) /\ orders[q].offer \in SellOffers
        <5>1. orders[q].offer \in deposited
          BY <1>p, <4>1 DEF OrdersInv, OrderInv, Trades
        <5> QED BY <2>1, <4>1, <5>1 DEF Funded
      <4>2. CASE orders[q].offer \notin SellOffers
        BY <2>1, <2>2, <4>2 DEF Funded
      <4> QED BY <4>1, <4>2
    <3> QED BY <2>1, <3>1, PhaseKept DEF Placed
  <2>3. CASE i \in Orders
    <3>1. i \notin Offers
      BY <2>3, P2PAssumption DEF P2PAssumption
    <3>2. Placed(i) /\ orders[i].offer \in BuyOffers
      BY <2>1, <3>1 DEF Created, Placed
    <3>3. (Funded(i) <=> i \in deposited) /\ (Funded(i)' <=> i \in deposited')
      BY <2>1, <3>2, P2PAssumption DEF Funded, P2PAssumption
    <3>4. CASE EscrowPhase[i] = "unfunded" /\ i \in deposited'
      <4>1. EscrowPhase'[i] = "funded"
        BY <2>1, <2>3, <3>2, <3>3, <3>4 DEF EscrowPhase, Placed
      <4> QED BY <2>2, <2>3, <3>4, <4>1, PhaseMoves DEF Escrowed!Next, Escrowed!Fund
    <3>5. CASE ~(EscrowPhase[i] = "unfunded" /\ i \in deposited')
      <4>1. EscrowPhase'[i] = EscrowPhase[i]
        BY <2>1, <2>3, <3>2, <3>3, <3>5 DEF EscrowPhase, Placed
      <4> QED BY <2>2, <4>1, PhasesKept
    <3> QED BY <3>4, <3>5
  <2>4. CASE i \notin Orders
    BY <2>2, <2>4, PhasesKept
  <2> QED BY <2>3, <2>4
<1>4. ASSUME NEW s \in Slots, BuyerConfirm(s) \/ SellerComplete(s)
      PROVE  EscrowPhase' = EscrowPhase
  <2>1. UNCHANGED <<paid, deposited>> /\ slot[s].op \in OrderOps
    BY <1>4 DEF BuyerConfirm, SellerComplete, chainVars, OrderOps
  <2>2. PICK o \in Orders : /\ o = slot[s].order
                            /\ \E st \in {"PENDING", "COMPLETED"} : \E pr : WritesOrder(o, st, pr)
    BY <1>4, BuyerConfirmWrites, SellerCompleteWrites
  <2>3. Placed(o)
    BY <1>p, <2>1, <2>2 DEF SlotsInv, RequestInv
  <2> QED BY <1>k, <2>1, <2>2, <2>3, PhasesKept DEF WritesOrder, Placed
<1>5. ASSUME NEW o \in Orders, ReopenOrder(o) \/ Lapse(o) PROVE EscrowPhase' = EscrowPhase
  <2>1. UNCHANGED <<paid, deposited>>
    BY <1>5 DEF ReopenOrder, Lapse, chainVars
  <2>2. Placed(o) /\ \E st, pr : st # "NONE" /\ WritesOrder(o, st, pr)
    <3>1. CASE ReopenOrder(o)
      BY <3>1, ReopenOrderWrites DEF Placed
    <3>2. CASE Lapse(o)
      BY <3>2, LapseWrites DEF Lapse, Placed
    <3> QED BY <1>5, <3>1, <3>2
  <2> QED BY <1>k, <2>1, <2>2, PhasesKept DEF WritesOrder, Placed
<1>6. CASE CancelExpiredOrders
  <2>1. UNCHANGED <<paid, deposited>>
    BY <1>6 DEF CancelExpiredOrders, chainVars
  <2>2. \A o \in Orders : Placed(o)' = Placed(o) /\ orders'[o].offer = orders[o].offer
    BY <1>6, CancelExpiredWrites DEF Placed, OverdueOrders, Active
  <2> QED BY <1>k, <2>1, <2>2, PhasesKept
<1>7. ASSUME NEW block \in SUBSET pool, IndexBlock(block) PROVE EscrowPhase' = EscrowPhase
  <2>1. UNCHANGED <<paid, deposited>>
    BY <1>7 DEF IndexBlock
  <2>2. \A o \in Orders : Placed(o)' = Placed(o) /\ orders'[o].offer = orders[o].offer
    BY <1>7, IndexBlockWrites DEF Placed, OpenedOrders, FailedOrderTxs
  <2> QED BY <1>k, <2>1, <2>2, PhasesKept
<1>8. ASSUME NEW s \in Slots, Request(s) PROVE UNCHANGED <<orders, paid, deposited>>
  BY <1>8 DEF Request, CountActiveOffers, ReadOfferForOrder, ReadOrderForConfirm,
     ReadOfferForCancel, chainVars
<1>9. ASSUME NEW s \in Slots, HandlerStep(s) PROVE [Escrowed!Next]_EscrowPhase
  <2>1. ASSUME NEW f \in Offers, NEW w \in Wallets, NEW a \in OfferAmounts, CreateOffer(s, f, w, a)
        PROVE  UNCHANGED <<orders, paid, deposited>>
    BY <2>1 DEF CreateOffer, chainVars
  <2>2. ASSUME NEW committed \in BOOLEAN, CancelCommit(s, committed)
        PROVE  UNCHANGED <<orders, paid, deposited>>
    BY <2>2 DEF CancelCommit, chainVars
  <2>3. ASSUME \/ SellerLosesCommit(s) \/ CheckDisputes(s) \/ CheckActive(s)
               \/ RefundOffer(s) \/ Abandon(s)
        PROVE  UNCHANGED <<orders, paid, deposited>>
    BY <2>3 DEF SellerLosesCommit, CheckDisputes, CheckActive, RefundOffer, Abandon, chainVars
  <2> QED BY <1>9, <1>u, <1>1, <1>2, <1>4, <2>1, <2>2, <2>3 DEF HandlerStep
<1>10. ASSUME (\E o \in Orders : RefundExpiredOrder(o)) \/ Crash \/ UNCHANGED vars
       PROVE  UNCHANGED <<orders, paid, deposited>>
  BY <1>10 DEF RefundExpiredOrder, Crash, vars, chainVars
<1> QED BY <1>u, <1>3, <1>5, <1>6, <1>7, <1>8, <1>9, <1>10 DEF Next, Users

(* Whatever requests, jobs, blocks and crashes do, an order's escrow arrives at
   most once, and pays only after it has arrived.                            *)
THEOREM TradingImplementsOrderEscrow == Spec => ImplementsOrderEscrow
<1>1. Init => Escrowed!Init
  BY DEF Init, NoRow, Escrowed!Init, EscrowPhase
<1> QED BY <1>1, EscrowStep, TypeCorrect, AlwaysFunded, PTL
        DEF Spec, ImplementsOrderEscrow, Escrowed!Spec

-----------------------------------------------------------------------------
(* The books of the offers.                                                 *)

(* The amounts a step leaves alone.                                          *)
SameBooks(f) == /\ offers'[f].available = offers[f].available
                /\ offers'[f].total = offers[f].total
SameCharge(o) == /\ Placed(o)' = Placed(o)
                 /\ orders'[o].offer = orders[o].offer
                 /\ Charge(o)' = Charge(o)

(* What an order is charged is an amount.                                    *)
LEMMA ChargeType == TypeOK => \A o \in Orders : Charge(o) \in Nat
<1> SUFFICES ASSUME TypeOK, NEW o \in Orders PROVE Charge(o) \in Nat
  OBVIOUS
<1>1. orders[o].amount \in Nat /\ lost[o] \in Nat
  BY DEF TypeOK, OrderRow
<1>2. lost[o] * orders[o].amount \in Nat
  BY <1>1
<1> QED BY <1>1, <1>2 DEF Charge

(* And stays one.                                                            *)
LEMMA ChargeTypeNext == TypeOK' => \A o \in Orders : Charge(o)' \in Nat
<1> SUFFICES ASSUME TypeOK', NEW o \in Orders PROVE Charge(o)' \in Nat
  OBVIOUS
<1>1. orders'[o].amount \in Nat /\ lost'[o] \in Nat
  BY DEF TypeOK, OrderRow
<1>2. lost'[o] * orders'[o].amount \in Nat
  BY <1>1
<1> QED BY <1>1, <1>2 DEF Charge

(* The orders of an offer are finitely many.                                 *)
LEMMA OrdersOfFinite ==
    ASSUME BooksInv, NEW f
    PROVE  IsFiniteSet(OrdersOf(f)) /\ OrdersOf(f) \subseteq Orders
<1>1. OrdersOf(f) \subseteq {o \in Orders : Placed(o)}
  BY DEF OrdersOf, Placed
<1>2. IsFiniteSet({o \in Orders : Placed(o)})
  BY DEF BooksInv
<1> QED BY <1>1, <1>2, FS_Subset

(* An offer's orders are charged as before when each of them is.             *)
LEMMA ChargedKept ==
    ASSUME TypeOK, BooksInv, NEW f, \A o \in OrdersOf(f) : SameCharge(o), OrdersOf(f)' = OrdersOf(f)
    PROVE  Charged(f)' = Charged(f)
<1> DEFINE S == OrdersOf(f)
           before == [o \in Orders |-> Charge(o)]
           after == [o \in Orders |-> Charge(o)']
<1>1. IsFiniteSet(S) /\ S \subseteq Orders
  BY OrdersOfFinite
<1>2. \A o \in S : before[o] \in Int /\ before[o] = after[o]
  BY <1>1, ChargeType DEF SameCharge
<1>3. Charged(f) = SumFunctionOnSet(before, S) /\ Charged(f)' = SumFunctionOnSet(after, S)
  BY DEF Charged
<1> HIDE DEF S, before, after
<1> QED BY <1>1, <1>2, <1>3, SumSame

(* A step that leaves the amounts of offers alone, and changes at most what
   orders of disturbed offers are charged, keeps the books.                  *)
LEMMA BooksKept ==
    ASSUME TypeOK, BooksInv, disturbed \subseteq disturbed', lost' = lost,
           \A f \in Offers : SameBooks(f),
           \A o \in Orders : /\ Placed(o)' = Placed(o)
                             /\ orders'[o].status # "CONFIRMED"
                             /\ Placed(o) => orders'[o].offer = orders[o].offer
                             /\ Placed(o) /\ orders[o].offer \notin disturbed' => SameCharge(o)
    PROVE  BooksInv'
<1>1. BooksBalance'
  <2> SUFFICES ASSUME NEW f \in Offers \ disturbed'
               PROVE  (offers[f].available + Charged(f) = offers[f].total)'
    BY DEF BooksBalance
  <2>1. OrdersOf(f)' = OrdersOf(f)
    BY DEF OrdersOf, Placed
  <2>2. \A o \in OrdersOf(f) : SameCharge(o)
    BY DEF OrdersOf, Placed
  <2>3. Charged(f)' = Charged(f)
    BY <2>1, <2>2, ChargedKept
  <2>4. offers[f].available + Charged(f) = offers[f].total
    BY DEF BooksInv, BooksBalance
  <2> QED BY <2>3, <2>4 DEF SameBooks
<1>2. {o \in Orders : Placed(o)}' = {o \in Orders : Placed(o)}
  OBVIOUS
<1> QED BY <1>1, <1>2 DEF BooksInv

(* Steps of the first kind: nothing of the books is written.                 *)
LEMMA BooksQuiet ==
    ASSUME TypeOK, BooksInv, UNCHANGED <<offers, orders, disturbed, lost>>
    PROVE  BooksInv'
<1>1. /\ \A f \in Offers : SameBooks(f)
      /\ \A o \in Orders : SameCharge(o)
  BY DEF SameBooks, SameCharge, Charge, Placed
<1>2. \A o \in Orders : orders'[o].status # "CONFIRMED"
  BY DEF BooksInv
<1> QED BY <1>1, <1>2, BooksKept DEF SameCharge

(* Writing the status of an offer leaves its amounts alone.                  *)
LEMMA StatusKeepsBooks ==
    ASSUME TypeOK, NEW f, NEW st,
           offers' = offers \/ offers' = [offers EXCEPT ![f].status = st]
    PROVE  \A g \in Offers : SameBooks(g)
BY DEF TypeOK, OfferRow, SameBooks

(* One order is written, and stays as much charged or has its offer disturbed. *)
LEMMA BooksOneOrder ==
    ASSUME TypeOK, BooksInv, NEW o \in Orders, NEW st, NEW pr, WritesOrder(o, st, pr),
           Placed(o), st \notin {"NONE", "CONFIRMED"}, lost' = lost, disturbed \subseteq disturbed',
           \A f \in Offers : SameBooks(f),
           \/ orders[o].offer \in disturbed'
           \/ st \in Active \cup {"COMPLETED"} <=> orders[o].status \in Active \cup {"COMPLETED"}
    PROVE  BooksInv'
<1>1. \A p \in Orders \ {o} : SameCharge(p)
  BY DEF WritesOrder, SameCharge, Charge, Placed
<1>2. Placed(o)' /\ orders'[o].offer = orders[o].offer
  BY DEF WritesOrder, Placed
<1>3. orders[o].offer \notin disturbed' => SameCharge(o)
  <2>1. /\ orders'[o].status = st /\ orders'[o].amount = orders[o].amount
        /\ lost'[o] = lost[o]
    BY DEF WritesOrder
  <2> SUFFICES ASSUME orders[o].offer \notin disturbed' PROVE SameCharge(o)
    OBVIOUS
  <2> DEFINE C == Active \cup {"COMPLETED"}
  <2>2. st \in C <=> orders[o].status \in C
    OBVIOUS
  <2> HIDE DEF C
  <2>3. Charge(o)' = Charge(o)
    BY <2>1, <2>2 DEF Charge, C
  <2> QED BY <1>2, <2>3 DEF SameCharge
<1>4. \A p \in Orders : orders'[p].status # "CONFIRMED"
  BY DEF BooksInv, WritesOrder
<1>5. ASSUME NEW p \in Orders
      PROVE  /\ Placed(p)' = Placed(p)
             /\ Placed(p) => orders'[p].offer = orders[p].offer
             /\ Placed(p) /\ orders[p].offer \notin disturbed' => SameCharge(p)
  <2>1. CASE p = o
    <3>1. Placed(p)' = Placed(p)
      BY <2>1, <1>2
    <3> QED BY <2>1, <3>1, <1>2, <1>3
  <2>2. CASE p # o
    BY <2>2, <1>1 DEF SameCharge
  <2> QED BY <2>1, <2>2
<1> QED BY <1>4, <1>5, BooksKept

(* The order a disturbance is recorded for.                                  *)
LEMMA DisturbKeeps ==
    ASSUME TypeOK, BooksInv, NEW o \in Orders, Placed(o), Disturb(o)
    PROVE  /\ disturbed \subseteq disturbed'
           /\ \/ orders[o].offer \in disturbed'
              \/ orders[o].status \in Active \cup {"COMPLETED"}
<1>1. orders[o].status \in OrderStatus \ {"NONE", "CONFIRMED"}
  BY DEF TypeOK, OrderRow, Placed, BooksInv
<1>2. CASE orders[o].status \in Returned
  BY <1>2 DEF Disturb
<1>3. CASE orders[o].status \notin Returned
  BY <1>1, <1>3 DEF Disturb, OrderStatus, Active, Returned
<1> QED BY <1>2, <1>3

-----------------------------------------------------------------------------
(* The steps that do change the books.                                       *)

(* A new offer has no orders, and everything left.                           *)
LEMMA BooksCreateOffer ==
    ASSUME TypeOK, FundedInv, BooksInv, NEW s \in Slots, NEW f \in Offers, NEW w \in Wallets,
           NEW a \in OfferAmounts, CreateOffer(s, f, w, a)
    PROVE  BooksInv'
<1>1. /\ orders' = orders /\ lost' = lost /\ disturbed' = disturbed
      /\ offers[f].status = "NONE"
      /\ \A g \in Offers \ {f} : offers'[g] = offers[g]
      /\ offers'[f].available = a /\ offers'[f].total = a
  <2>1. orders' = orders /\ lost' = lost /\ disturbed' = disturbed
    BY DEF CreateOffer, history
  <2> QED BY <2>1, CreateOfferWrites
<1>2. \A o \in Orders : SameCharge(o)
  BY <1>1 DEF SameCharge, Charge, Placed
<1>3. \A g \in Offers : OrdersOf(g)' = OrdersOf(g)
  BY <1>1 DEF OrdersOf
<1>4. \A g \in Offers : Charged(g)' = Charged(g)
  BY <1>2, <1>3, ChargedKept, OrdersOfFinite
<1>5. OrdersOf(f) = {}
  BY <1>1 DEF FundedInv, OrdersInv, OrderInv, OrdersOf, Placed, Trades
<1>6. Charged(f) = 0
  BY <1>5, SumEmpty DEF Charged
<1>7. a \in Nat
  BY P2PAssumption DEF P2PAssumption
<1>8. BooksBalance'
  <2> SUFFICES ASSUME NEW g \in Offers \ disturbed'
               PROVE  offers'[g].available + Charged(g)' = offers'[g].total
    BY DEF BooksBalance
  <2>1. CASE g = f
    BY <2>1, <1>1, <1>4, <1>6, <1>7
  <2>2. CASE g # f
    <3>1. offers[g].available + Charged(g) = offers[g].total
      BY <1>1 DEF BooksInv, BooksBalance
    <3> QED BY <2>2, <3>1, <1>1, <1>4
  <2> QED BY <2>1, <2>2
<1> QED BY <1>1, <1>8 DEF BooksInv, Placed

(* What a reservation does to the amounts of offers.                         *)
LEMMA ReserveWrites ==
    ASSUME TypeOK, NEW f \in Offers, NEW a \in Nat, Reserve(f, a)
    PROVE  /\ offers'[f].available = offers[f].available - a
           /\ offers'[f].total = offers[f].total
           /\ \A g \in Offers \ {f} : SameBooks(g)
BY DEF TypeOK, OfferRow, Reserve, SameBooks

(* One order comes to be charged its amount, which its offer has set aside.  *)
LEMMA BooksCharge ==
    ASSUME TypeOK, TypeOK', BooksInv, NEW o \in Orders, NEW f \in Offers,
           lost' = lost, disturbed' = disturbed,
           \A p \in Orders \ {o} : orders'[p] = orders[p],
           Placed(o) => orders[o].offer = f /\ orders[o].amount = orders'[o].amount
                        /\ orders[o].status \notin Active \cup {"COMPLETED"},
           orders'[o].offer = f, orders'[o].status \in Active,
           offers'[f].available = offers[f].available - orders'[o].amount,
           offers'[f].total = offers[f].total,
           \A g \in Offers \ {f} : SameBooks(g)
    PROVE  BooksInv'
<1>1. /\ orders[o].amount \in Nat /\ orders'[o].amount \in Nat /\ lost[o] \in Nat
      /\ \A p \in Orders : orders[p].offer \in Offers
      /\ \A g \in Offers : offers[g].available \in Nat /\ offers[g].total \in Nat
  BY DEF TypeOK, OrderRow, OfferRow
<1>2. Placed(o)' /\ orders'[o].status \notin {"NONE", "CONFIRMED"}
  BY DEF Placed, Active
<1>3. /\ Charge(o)' = orders'[o].amount + lost[o] * orders'[o].amount
      /\ Placed(o) => Charge(o) = lost[o] * orders'[o].amount
      /\ ~Placed(o) => lost[o] = 0
  <2>1. Charge(o)' = orders'[o].amount + lost[o] * orders'[o].amount
    BY DEF Charge
  <2>2. ASSUME Placed(o) PROVE Charge(o) = lost[o] * orders'[o].amount
    <3>1. lost[o] * orders'[o].amount \in Nat
      BY <1>1
    <3> QED BY <2>2, <3>1, <1>1 DEF Charge
  <2> QED BY <2>1, <2>2 DEF BooksInv
<1>4. \A p \in Orders \ {o} : SameCharge(p)
  BY DEF SameCharge, Charge, Placed
<1>5. ASSUME NEW g \in Offers \ {f} PROVE Charged(g)' = Charged(g)
  <2>1. OrdersOf(g)' = OrdersOf(g) /\ o \notin OrdersOf(g)
    BY DEF OrdersOf, Placed
  <2>2. \A p \in OrdersOf(g) : SameCharge(p)
    BY <2>1, <1>4 DEF OrdersOf
  <2> QED BY <2>1, <2>2, ChargedKept
<1>6. Charged(f)' = Charged(f) + orders'[o].amount /\ Charged(f) \in Int
  <2> DEFINE S == OrdersOf(f)
             before == [p \in Orders |-> Charge(p)]
             after == [p \in Orders |-> Charge(p)']
  <2>1. IsFiniteSet(S) /\ S \subseteq Orders
    BY OrdersOfFinite
  <2>2. \A p \in Orders : before[p] \in Int /\ after[p] \in Int
    <3>1. \A p \in Orders : Charge(p) \in Nat
      BY ChargeType
    <3>2. Charge(o)' \in Nat
      <4>1. lost[o] * orders'[o].amount \in Nat
        BY <1>1
      <4> QED BY <4>1, <1>1, <1>3
    <3> QED BY <3>1, <3>2, <1>4 DEF SameCharge
  <2>3. Charged(f) = SumFunctionOnSet(before, S)
    BY DEF Charged
  <2>4. Charged(f)' = SumFunctionOnSet(after, OrdersOf(f)')
    BY DEF Charged
  <2>5. \A p \in Orders \ {o} : before[p] = after[p]
    BY <1>4 DEF SameCharge
  <2>6. after[o] = Charge(o)' /\ before[o] = Charge(o)
    OBVIOUS
  <2>7. OrdersOf(f)' = S \cup {o}
    BY <1>2 DEF OrdersOf, Placed
  <2>8. Placed(o) <=> o \in S
    BY DEF OrdersOf, Placed
  <2>0. SumFunctionOnSet(before, S) \in Int
    <3> HIDE DEF before, S
    <3> QED BY <2>1, <2>2, SumTakeOut
  <2>9. lost[o] * orders'[o].amount \in Nat
    BY <1>1
  <2> HIDE DEF S, before, after
  <2>10. CASE Placed(o)
    <3>1. SumFunctionOnSet(after, S) = SumFunctionOnSet(before, S) - before[o] + after[o]
      BY <2>1, <2>2, <2>5, <2>8, <2>10, SumUpdate
    <3>2. OrdersOf(f)' = S
      BY <2>7, <2>8, <2>10
    <3> QED BY <3>1, <3>2, <2>0, <2>3, <2>4, <2>6, <2>9, <2>10, <1>1, <1>3
  <2>11. CASE ~Placed(o)
    <3>1. o \notin S /\ \A p \in S \cup {o} : after[p] \in Int
      BY <2>1, <2>2, <2>8, <2>11
    <3>2. SumFunctionOnSet(after, S \cup {o}) = after[o] + SumFunctionOnSet(after, S)
      BY <2>1, <3>1, SumAdd
    <3>3. SumFunctionOnSet(after, S) = SumFunctionOnSet(before, S)
      BY <2>1, <2>2, <2>5, <3>1, SumSame
    <3>4. after[o] = orders'[o].amount
      BY <2>6, <2>11, <1>1, <1>3
    <3> QED BY <3>2, <3>3, <3>4, <2>0, <2>3, <2>4, <2>7, <1>1
  <2> QED BY <2>10, <2>11
<1>7. BooksBalance'
  <2> SUFFICES ASSUME NEW g \in Offers \ disturbed'
               PROVE  (offers[g].available + Charged(g) = offers[g].total)'
    BY DEF BooksBalance
  <2>1. offers[g].available + Charged(g) = offers[g].total
    BY DEF BooksInv, BooksBalance
  <2>2. CASE g = f
    BY <2>1, <2>2, <1>1, <1>6
  <2>3. CASE g # f
    BY <2>1, <2>3, <1>5 DEF SameBooks
  <2> QED BY <2>2, <2>3
<1>8. IsFiniteSet({p \in Orders : Placed(p)}')
  <2>1. {p \in Orders : Placed(p)}' = {p \in Orders : Placed(p)} \cup {o}
    BY <1>2 DEF Placed
  <2> QED BY <2>1, FS_AddElement DEF BooksInv
<1>9. /\ \A p \in Orders : ~Placed(p)' => lost'[p] = 0
      /\ \A p \in Orders : orders'[p].status # "CONFIRMED"
  BY <1>2 DEF BooksInv, Placed
<1> QED BY <1>7, <1>8, <1>9 DEF BooksInv

(* CreateOrder: a new order is charged what its offer has set aside.         *)
LEMMA BooksCreateOrder ==
    ASSUME TypeOK, TypeOK', BooksInv, NEW s \in Slots, NEW o \in Orders, CreateOrder(s, o)
    PROVE  BooksInv'
<1>1. lost' = lost /\ disturbed' = disturbed /\ Reserve(slot[s].offer, slot[s].amount)
  BY DEF CreateOrder, history
<1>2. PICK f \in Offers :
         /\ f = slot[s].offer
         /\ orders[o].status = "NONE"
         /\ \A p \in Orders \ {o} : orders'[p] = orders[p]
         /\ orders'[o].status \in Active
         /\ orders'[o].offer = f /\ orders'[o].amount = slot[s].amount
  BY CreateOrderWrites DEF Active
<1>3. slot[s].amount \in Nat
  BY <1>2 DEF TypeOK, OrderRow
<1>4. /\ offers'[f].available = offers[f].available - slot[s].amount
      /\ offers'[f].total = offers[f].total
      /\ \A g \in Offers \ {f} : SameBooks(g)
  BY <1>1, <1>2, <1>3, ReserveWrites
<1> QED BY <1>1, <1>2, <1>4, BooksCharge DEF Placed

(* ReopenOrder: the same, for an order that had expired.                     *)
LEMMA BooksReopenOrder ==
    ASSUME TypeOK, TypeOK', FundedInv, BooksInv, NEW o \in Orders, ReopenOrder(o)
    PROVE  BooksInv'
<1> DEFINE f == orders[o].offer
<1>1. lost' = lost /\ disturbed' = disturbed /\ Reserve(f, orders[o].amount)
  BY DEF ReopenOrder, history
<1>2. /\ orders[o].status = "EXPIRED"
      /\ WritesOrder(o, IF orders[o].previous # "NONE" THEN orders[o].previous ELSE "OPEN",
                     orders[o].previous)
  BY ReopenOrderWrites
<1>3. f \in Offers /\ orders[o].amount \in Nat
  BY DEF TypeOK, OrderRow
<1>4. orders[o].previous \in Active
  BY <1>2 DEF FundedInv, OrdersInv, OrderInv
<1>5. /\ \A p \in Orders \ {o} : orders'[p] = orders[p]
      /\ orders'[o].status \in Active
      /\ orders'[o].offer = f /\ orders'[o].amount = orders[o].amount
  BY <1>2, <1>4 DEF WritesOrder, Active
<1>6. /\ offers'[f].available = offers[f].available - orders[o].amount
      /\ offers'[f].total = offers[f].total
      /\ \A g \in Offers \ {f} : SameBooks(g)
  BY <1>1, <1>3, ReserveWrites
<1>7. orders[o].status \notin Active \cup {"COMPLETED"}
  BY <1>2 DEF Active
<1> HIDE DEF f
<1>8. f = orders[o].offer
  BY DEF f
<1> QED BY <1>1, <1>3, <1>5, <1>6, <1>7, <1>8, BooksCharge

(* CancelExpiredOrders: of an offer's expired orders one gives its amount back
   to the offer, and the others leave theirs among what is lost.             *)
LEMMA BooksExpire ==
    ASSUME TypeOK, TypeOK', BooksInv, CancelExpiredOrders
    PROVE  BooksInv'
<1> DEFINE from == {orders[o].offer : o \in OverdueOrders}
<1>1. PICK restored \in SUBSET OverdueOrders :
        /\ \A f \in from : \E o \in restored : orders[o].offer = f
        /\ \A o, p \in restored : orders[o].offer = orders[p].offer => o = p
        /\ offers' = [f \in Offers |->
               IF f \in from
               THEN [offers[f] EXCEPT !.available =
                        @ + orders[CHOOSE o \in restored : orders[o].offer = f].amount]
               ELSE offers[f]]
        /\ lost' = [o \in Orders |->
               IF o \in OverdueOrders \ restored THEN lost[o] + 1 ELSE lost[o]]
  BY DEF CancelExpiredOrders
<1>2. /\ \A o \in Orders \ OverdueOrders : orders'[o] = orders[o]
      /\ \A o \in OverdueOrders :
            /\ orders'[o].status = "EXPIRED"
            /\ orders'[o].offer = orders[o].offer
            /\ orders'[o].amount = orders[o].amount
  BY CancelExpiredWrites
<1>3. OverdueOrders \subseteq Orders /\ \A o \in OverdueOrders : orders[o].status \in Active
  BY DEF OverdueOrders
<1>4. /\ \A o \in Orders : /\ orders[o].amount \in Nat /\ orders[o].offer \in Offers
                           /\ lost[o] \in Nat
      /\ \A f \in Offers : offers[f].available \in Nat /\ offers[f] \in OfferRow
  BY DEF TypeOK, OrderRow, OfferRow
<1>5. \A o \in Orders : /\ Placed(o)' = Placed(o)
                        /\ Placed(o) => orders'[o].offer = orders[o].offer
                        /\ orders'[o].status # "CONFIRMED"
  BY <1>2, <1>3 DEF Placed, Active, BooksInv
<1>6. ASSUME NEW o \in Orders
      PROVE  /\ o \notin restored => Charge(o)' = Charge(o)
             /\ o \in restored => Charge(o) = Charge(o)' + orders[o].amount
  <2>1. CASE o \notin OverdueOrders
    <3>1. lost'[o] = lost[o] /\ orders'[o] = orders[o] /\ o \notin restored
      BY <2>1, <1>1, <1>2
    <3> QED BY <3>1 DEF Charge
  <2>2. CASE o \in OverdueOrders
    <3>1. lost'[o] = IF o \in restored THEN lost[o] ELSE lost[o] + 1
      BY <2>2, <1>1
    <3>2. Charge(o) = orders[o].amount + lost[o] * orders[o].amount
      BY <2>2, <1>3 DEF Charge
    <3>3. Charge(o)' = 0 + lost'[o] * orders[o].amount
      BY <2>2, <1>2 DEF Charge, Active
    <3>4. (lost[o] + 1) * orders[o].amount = lost[o] * orders[o].amount + orders[o].amount
      BY <1>4
    <3>5. lost[o] * orders[o].amount \in Nat
      BY <1>4
    <3>6. CASE o \in restored
      <4>1. lost'[o] = lost[o]
        BY <3>6, <3>1
      <4>2. Charge(o)' = lost[o] * orders[o].amount
        BY <4>1, <3>3, <3>5
      <4> QED BY <3>6, <4>2, <3>2, <3>5, <1>4
    <3>7. CASE o \notin restored
      <4>1. lost'[o] = lost[o] + 1
        BY <3>7, <3>1
      <4>2. Charge(o)' = lost[o] * orders[o].amount + orders[o].amount
        BY <4>1, <3>3, <3>4, <3>5, <1>4
      <4> QED BY <3>7, <4>2, <3>2, <3>5, <1>4
    <3> QED BY <3>6, <3>7
  <2> QED BY <2>1, <2>2
<1>7. ASSUME NEW f \in Offers PROVE OrdersOf(f)' = OrdersOf(f)
  BY <1>5 DEF OrdersOf, Placed
<1>8. ASSUME NEW f \in Offers
      PROVE  /\ offers'[f].total = offers[f].total
             /\ offers'[f].available + Charged(f)' = offers[f].available + Charged(f)
  <2>1. CASE f \notin from
    <3>1. offers'[f] = offers[f]
      BY <2>1, <1>1
    <3>2. \A o \in OrdersOf(f) : o \notin restored
      BY <2>1, <1>1 DEF OrdersOf
    <3>3. \A o \in OrdersOf(f) : SameCharge(o)
      BY <3>2, <1>5, <1>6 DEF SameCharge, OrdersOf, Placed
    <3>4. Charged(f)' = Charged(f)
      BY <3>3, <1>7, ChargedKept
    <3> QED BY <3>1, <3>4
  <2>2. CASE f \in from
    <3> DEFINE r == CHOOSE o \in restored : orders[o].offer = f
               S == OrdersOf(f)
               before == [o \in Orders |-> Charge(o)]
               after == [o \in Orders |-> Charge(o)']
    <3>1. r \in restored /\ r \in Orders /\ r \in OverdueOrders /\ orders[r].offer = f
      BY <2>2, <1>1, <1>3
    <3> HIDE DEF r
    <3>2. /\ offers'[f].total = offers[f].total
          /\ offers'[f].available = offers[f].available + orders[r].amount
      <4>1. offers'[f] = [offers[f] EXCEPT !.available = @ + orders[r].amount]
        BY <2>2, <1>1 DEF r
      <4> QED BY <4>1, <1>4, OfferFields
    <3>3. r \in S /\ IsFiniteSet(S) /\ S \subseteq Orders
      <4>1. orders[r].status # "NONE"
        BY <3>1, <1>3 DEF Active
      <4>2. r \in S
        BY <3>1, <4>1 DEF OrdersOf
      <4> QED BY <4>2, OrdersOfFinite
    <3>4. \A o \in Orders : before[o] \in Int /\ after[o] \in Int
      <4>1. \A o \in Orders : Charge(o) \in Nat
        BY ChargeType
      <4>2. \A o \in Orders : Charge(o)' \in Nat
        BY ChargeTypeNext
      <4> QED BY <4>1, <4>2
    <3>5. \A o \in S : o # r => before[o] = after[o]
      <4> SUFFICES ASSUME NEW o \in S, o # r PROVE before[o] = after[o]
        OBVIOUS
      <4>1. o \in Orders /\ orders[o].offer = f
        BY DEF OrdersOf
      <4>2. o \notin restored
        BY <4>1, <3>1, <1>1
      <4> QED BY <4>1, <4>2, <1>6
    <3>6. before[r] = after[r] + orders[r].amount
      BY <3>1, <1>6
    <3>7. Charged(f) = SumFunctionOnSet(before, S) /\ Charged(f)' = SumFunctionOnSet(after, S)
      BY <1>7 DEF Charged
    <3> HIDE DEF S, before, after
    <3>8. SumFunctionOnSet(after, S) = SumFunctionOnSet(before, S) - before[r] + after[r]
      BY <3>3, <3>4, <3>5, SumUpdate
    <3>9. SumFunctionOnSet(before, S) \in Int /\ before[r] \in Int /\ after[r] \in Int
      BY <3>3, <3>4, SumTakeOut
    <3> QED BY <3>1, <3>2, <3>6, <3>7, <3>8, <3>9, <1>4
  <2> QED BY <2>1, <2>2
<1>9. BooksBalance'
  <2> SUFFICES ASSUME NEW f \in Offers \ disturbed'
               PROVE  offers'[f].available + Charged(f)' = offers'[f].total
    BY DEF BooksBalance
  <2>1. disturbed' = disturbed
    BY DEF CancelExpiredOrders
  <2>2. offers[f].available + Charged(f) = offers[f].total
    BY <2>1 DEF BooksInv, BooksBalance
  <2> QED BY <2>2, <1>8
<1>10. {o \in Orders : Placed(o)}' = {o \in Orders : Placed(o)}
  BY <1>5
<1>11. \A o \in Orders : ~Placed(o)' => lost'[o] = 0
  BY <1>1, <1>3, <1>5 DEF BooksInv, Placed, Active
<1> QED BY <1>5, <1>9, <1>10, <1>11 DEF BooksInv

(* IndexBlock: what a block releases to an undisturbed offer is what the orders
   it fails were charged.                                                    *)
LEMMA BooksIndexBlock ==
    ASSUME TypeOK, TypeOK', BooksInv, NEW block \in SUBSET pool, IndexBlock(block)
    PROVE  BooksInv'
<1> DEFINE F == FailedOrderTxs(block)
           failed == {t.id : t \in F}
<1>1. /\ \A f \in Offers : offers'[f].total = offers[f].total
      /\ \A f \in Offers : (\A t \in F : orders[t.id].offer # f)
                              => offers'[f].available = offers[f].available
      /\ \A o \in Orders :
            /\ orders'[o].status = IF o \in OpenedOrders(block) THEN "OPEN"
                                   ELSE IF \E t \in F : t.id = o
                                   THEN "FAILED" ELSE orders[o].status
            /\ orders'[o].offer = orders[o].offer
            /\ orders'[o].amount = orders[o].amount
  BY IndexBlockWrites
<1>2. lost' = lost /\ disturbed' = disturbed \cup
               {orders[t.id].offer : t \in {u \in F : \E v \in F : v # u /\ v.id = u.id}}
  BY DEF IndexBlock
<1>3. /\ \A t \in F : /\ t \in block /\ t.id \in Orders /\ t.id \notin OpenedOrders(block)
                       /\ orders[t.id].status = "WAITING_TRANSFER"
      /\ \A o \in OpenedOrders(block) : o \in Orders /\ orders[o].status = "WAITING_TRANSFER"
      /\ IsFiniteSet(block)
  BY FS_Subset DEF FailedOrderTxs, OpenedOrders, TypeOK
<1>4. \A o \in Orders : /\ orders[o].amount \in Nat /\ orders[o].offer \in Offers
                        /\ lost[o] \in Nat
  BY DEF TypeOK, OrderRow
<1>5. \A o \in Orders : /\ Placed(o)' = Placed(o)
                        /\ orders'[o].status # "CONFIRMED"
  BY <1>1, <1>3 DEF Placed, BooksInv
<1>6. ASSUME NEW o \in Orders
      PROVE  /\ o \notin failed => Charge(o)' = Charge(o)
             /\ o \in failed => Charge(o) = Charge(o)' + orders[o].amount
  <2>0. lost[o] * orders[o].amount \in Nat
    BY <1>4
  <2>1. CASE o \in OpenedOrders(block)
    <3>1. o \notin failed
      BY <2>1, <1>3
    <3>2. /\ orders[o].status \in Active /\ orders'[o].status \in Active
          /\ orders'[o].amount = orders[o].amount
      BY <2>1, <1>1, <1>3 DEF Active
    <3> QED BY <3>1, <3>2, <1>2 DEF Charge
  <2>2. CASE o \in failed
    <3>1. o \notin OpenedOrders(block) /\ orders[o].status = "WAITING_TRANSFER"
          /\ \E t \in F : t.id = o
      BY <2>2, <1>3
    <3>2. orders'[o].status = "FAILED" /\ orders'[o].amount = orders[o].amount
      BY <3>1, <1>1
    <3>3. Charge(o) = orders[o].amount + lost[o] * orders[o].amount
      BY <3>1 DEF Charge, Active
    <3>4. Charge(o)' = 0 + lost[o] * orders[o].amount
      BY <3>2, <1>2 DEF Charge, Active
    <3> QED BY <2>0, <2>2, <3>3, <3>4, <1>4
  <2>3. CASE o \notin OpenedOrders(block) /\ o \notin failed
    <3>1. ~ \E t \in F : t.id = o
      BY <2>3
    <3>2. orders'[o].status = orders[o].status /\ orders'[o].amount = orders[o].amount
      BY <2>3, <3>1, <1>1
    <3> QED BY <2>3, <3>2, <1>2 DEF Charge
  <2> QED BY <2>1, <2>2, <2>3
<1>7. ASSUME NEW f \in Offers PROVE OrdersOf(f)' = OrdersOf(f)
  BY <1>1, <1>5 DEF OrdersOf, Placed
<1>8. ASSUME NEW f \in Offers \ disturbed'
      PROVE  offers'[f].available + Charged(f)' = offers[f].available + Charged(f)
  <2> DEFINE Tx == FailedOrderTxsOf(f, block)
             T == {o \in failed : orders[o].offer = f}
             S == OrdersOf(f)
             amountOf == [t \in block |-> orders[t.id].amount]
             amounts == [o \in Orders |-> orders[o].amount]
             before == [o \in Orders |-> Charge(o)]
             after == [o \in Orders |-> Charge(o)']
             h == [t \in block |-> t.id]
  <2>1. Tx \subseteq block /\ IsFiniteSet(Tx) /\ Tx = {t \in F : orders[t.id].offer = f}
    BY <1>3, FS_Subset DEF FailedOrderTxsOf
  <2>2. \A t, u \in Tx : h[t] = h[u] => t = u
    <3> SUFFICES ASSUME NEW t \in Tx, NEW u \in Tx, t.id = u.id, t # u PROVE FALSE
      BY <2>1
    <3>1. orders[t.id].offer \in disturbed'
      BY <2>1, <1>2
    <3> QED BY <2>1, <3>1
  <2>3. /\ \A t \in Tx : amountOf[t] \in Int /\ amounts[h[t]] = amountOf[t] /\ h[t] \in T
        /\ \A o \in T : \E t \in Tx : h[t] = o
    BY <2>1, <1>3, <1>4
  <2>4. SumFunctionOnSet(amounts, T) = SumFunctionOnSet(amountOf, Tx)
    <3> HIDE DEF Tx, T, amountOf, amounts, h
    <3> QED BY <2>1, <2>2, <2>3, SumRenamed
  <2>5. IsFiniteSet(S) /\ S \subseteq Orders /\ T \in SUBSET S
    <3>1. IsFiniteSet(S) /\ S \subseteq Orders
      BY OrdersOfFinite
    <3>2. ASSUME NEW o \in T PROVE o \in S
      <4>1. PICK t \in F : t.id = o
        OBVIOUS
      <4>2. o \in Orders /\ orders[o].status # "NONE" /\ orders[o].offer = f
        BY <4>1, <1>3
      <4> HIDE DEF T
      <4> QED BY <4>2 DEF OrdersOf
    <3> QED BY <3>1, <3>2
  <2>6. \A o \in S : before[o] \in Int /\ after[o] \in Int
    <3>1. \A o \in Orders : Charge(o) \in Nat
      BY ChargeType
    <3>2. \A o \in Orders : Charge(o)' \in Nat
      BY ChargeTypeNext
    <3> QED BY <3>1, <3>2, <2>5
  <2>7. /\ \A o \in T : amounts[o] \in Int /\ before[o] = after[o] + amounts[o]
        /\ \A o \in S \ T : before[o] = after[o]
    <3>1. \A o \in T : o \in failed /\ o \in Orders
      BY <2>5
    <3>2. \A o \in S \ T : o \notin failed /\ o \in Orders
      BY <2>5 DEF OrdersOf
    <3> QED BY <3>1, <3>2, <1>4, <1>6
  <2>8. Charged(f) = SumFunctionOnSet(before, S) /\ Charged(f)' = SumFunctionOnSet(after, S)
    BY <1>7 DEF Charged
  <2>9. offers'[f].available = offers[f].available + SumFunctionOnSet(amountOf, Tx)
    <3>1. CASE Tx = {}
      <4>1. SumFunctionOnSet(amountOf, Tx) = 0
        BY <3>1, SumEmpty
      <4>2. \A t \in F : orders[t.id].offer # f
        BY <2>1, <3>1
      <4>3. offers[f].available \in Nat
        BY DEF TypeOK, OfferRow
      <4> QED BY <4>1, <4>2, <4>3, <1>1
    <3>2. CASE Tx # {}
      <4> DEFINE releasing == {orders[o].offer : o \in failed}
                 release == ReleaseByOffer(block)
                 st == IF f \in ConfirmedOffers(block) THEN "CONFIRMED"
                       ELSE IF f \in FailedOffers(block) THEN "FAILED" ELSE offers[f].status
                 av == offers[f].available + release[f]
      <4>1. f \in releasing
        BY <2>1, <3>2
      <4>2. offers' = [g \in Offers |->
               [offers[g] EXCEPT
                   !.status = IF g \in ConfirmedOffers(block) THEN "CONFIRMED"
                              ELSE IF g \in FailedOffers(block) THEN "FAILED" ELSE @,
                   !.available = IF g \in releasing THEN @ + release[g] ELSE @]]
        BY DEF IndexBlock
      <4>3. offers'[f] = [offers[f] EXCEPT !.status = st, !.available = av]
        <5> HIDE DEF releasing, release
        <5> QED BY <4>1, <4>2
      <4>4. offers'[f].available = av
        <5>1. offers[f] \in OfferRow
          BY DEF TypeOK
        <5> HIDE DEF st, av
        <5> QED BY ONLY <4>3, <5>1, OfferFields
      <4>5. release[f] = SumFunctionOnSet(amountOf, Tx)
        BY DEF ReleaseByOffer
      <4> QED BY <4>4, <4>5
    <3> QED BY <3>1, <3>2
  <2>10. offers[f].available \in Nat
    BY DEF TypeOK, OfferRow
  <2> HIDE DEF Tx, T, S, amountOf, amounts, before, after
  <2>11. /\ SumFunctionOnSet(before, S) = SumFunctionOnSet(after, S) + SumFunctionOnSet(amounts, T)
         /\ SumFunctionOnSet(before, S) \in Int /\ SumFunctionOnSet(after, S) \in Int
         /\ SumFunctionOnSet(amounts, T) \in Int
    BY <2>5, <2>6, <2>7, SumTaken
  <2> QED BY <2>4, <2>8, <2>9, <2>10, <2>11
<1>9. BooksBalance'
  <2> SUFFICES ASSUME NEW f \in Offers \ disturbed'
               PROVE  offers'[f].available + Charged(f)' = offers'[f].total
    BY DEF BooksBalance
  <2>1. disturbed \subseteq disturbed'
    BY <1>2
  <2>2. offers[f].available + Charged(f) = offers[f].total
    BY <2>1 DEF BooksInv, BooksBalance
  <2> QED BY <2>2, <1>1, <1>8
<1>10. {o \in Orders : Placed(o)}' = {o \in Orders : Placed(o)}
  BY <1>5
<1>11. \A o \in Orders : ~Placed(o)' => lost'[o] = 0
  BY <1>2, <1>5 DEF BooksInv
<1> QED BY <1>5, <1>9, <1>10, <1>11 DEF BooksInv

-----------------------------------------------------------------------------
(* Every step keeps the books.                                               *)
LEMMA BooksStep == TypeOK /\ TypeOK' /\ FundedInv /\ BooksInv /\ [Next]_vars => BooksInv'
<1> SUFFICES ASSUME TypeOK, TypeOK', FundedInv, BooksInv, [Next]_vars PROVE BooksInv'
  OBVIOUS
<1>1. ASSUME NEW s \in Slots, Request(s) PROVE BooksInv'
  <2>1. UNCHANGED <<offers, orders, disturbed, lost>>
    BY <1>1 DEF Request, CountActiveOffers, ReadOfferForOrder, ReadOrderForConfirm,
       ReadOfferForCancel, history
  <2> QED BY <2>1, BooksQuiet
<1>2. ASSUME NEW s \in Slots, HandlerStep(s) PROVE BooksInv'
  <2>0. /\ slot[s].op \in OrderOps => Placed(slot[s].order)
        /\ slot[s] \in Requests
    BY DEF FundedInv, SlotsInv, RequestInv, TypeOK
  <2>1. ASSUME NEW f \in Offers, NEW w \in Wallets, NEW a \in OfferAmounts, CreateOffer(s, f, w, a)
        PROVE  BooksInv'
    BY <2>1, BooksCreateOffer
  <2>2. ASSUME NEW o \in Orders, CreateOrder(s, o) PROVE BooksInv'
    BY <2>2, BooksCreateOrder
  <2>3. CASE BuyerConfirm(s)
    <3>1. PICK o \in Orders : o = slot[s].order /\ WritesOrder(o, "PENDING", orders[o].status)
      BY <2>3, BuyerConfirmWrites
    <3>2. Placed(o)
      BY <2>0, <2>3, <3>1 DEF BuyerConfirm, OrderOps
    <3>3. Disturb(o) /\ lost' = lost /\ offers' = offers
      BY <2>3, <3>1 DEF BuyerConfirm
    <3>4. \A f \in Offers : SameBooks(f)
      BY <3>3 DEF SameBooks
    <3>5. "PENDING" \in Active \cup {"COMPLETED"}
      BY DEF Active
    <3> QED BY <3>1, <3>2, <3>3, <3>4, <3>5, DisturbKeeps, BooksOneOrder
  <2>4. CASE SellerComplete(s)
    <3>1. PICK o \in Orders : o = slot[s].order /\ WritesOrder(o, "COMPLETED", "CONFIRMED")
      BY <2>4, SellerCompleteWrites
    <3>2. Placed(o)
      BY <2>0, <2>4, <3>1 DEF SellerComplete, OrderOps
    <3>3. /\ Disturb(o) /\ lost' = lost
          /\ \/ offers' = offers
             \/ offers' = [offers EXCEPT ![orders[o].offer].status = "COMPLETED"]
      BY <2>4, <3>1 DEF SellerComplete
    <3>4. \A f \in Offers : SameBooks(f)
      BY <3>3, StatusKeepsBooks
    <3> QED BY <3>1, <3>2, <3>3, <3>4, DisturbKeeps, BooksOneOrder
  <2>5. ASSUME NEW committed \in BOOLEAN, CancelCommit(s, committed) PROVE BooksInv'
    <3>1. /\ UNCHANGED <<orders, disturbed, lost>>
          /\ \/ offers' = offers
             \/ offers' = [offers EXCEPT ![slot[s].offer].status = "CANCELED"]
      BY <2>5 DEF CancelCommit, history
    <3>2. \A f \in Offers : SameBooks(f)
      BY <3>1, StatusKeepsBooks
    <3>3. \A o \in Orders : SameCharge(o) /\ orders'[o].status # "CONFIRMED"
      BY <3>1 DEF SameCharge, Charge, Placed, BooksInv
    <3> QED BY <3>1, <3>2, <3>3, BooksKept DEF SameCharge
  <2>6. ASSUME \/ SellerTransfer(s) \/ SellerLosesCommit(s) \/ CheckDisputes(s)
               \/ CheckActive(s) \/ RefundOffer(s) \/ Abandon(s)
        PROVE  UNCHANGED <<offers, orders, disturbed, lost>>
    BY <2>6 DEF SellerTransfer, SellerLosesCommit, CheckDisputes, CheckActive, RefundOffer, Abandon,
       history
  <2> QED BY <1>2, <2>1, <2>2, <2>3, <2>4, <2>5, <2>6, BooksQuiet DEF HandlerStep
<1>3. ASSUME NEW o \in Orders, ReopenOrder(o) PROVE BooksInv'
  BY <1>3, BooksReopenOrder
<1>4. ASSUME NEW o \in Orders, Lapse(o) PROVE BooksInv'
  <2>1. /\ Placed(o) /\ UNCHANGED <<offers, disturbed, lost>>
        /\ orders[o].status \notin {"NONE", "CONFIRMED"}
    BY <1>4 DEF Lapse, Placed, history, BooksInv
  <2>2. WritesOrder(o, orders[o].status, orders[o].previous)
    BY <1>4, LapseWrites
  <2>3. \A f \in Offers : SameBooks(f)
    BY <2>1 DEF SameBooks
  <2> QED BY <2>1, <2>2, <2>3, BooksOneOrder
<1>5. ASSUME NEW i \in Offers \cup Orders, NEW a \in OfferAmounts \cup OrderAmounts,
             NEW ok \in BOOLEAN, SendDeposit(i, a, ok)
      PROVE  BooksInv'
  BY <1>5, BooksQuiet DEF SendDeposit, history
<1>6. CASE CancelExpiredOrders
  BY <1>6, BooksExpire
<1>7. ASSUME NEW block \in SUBSET pool, IndexBlock(block) PROVE BooksInv'
  BY <1>7, BooksIndexBlock
<1>8. ASSUME (\E o \in Orders : RefundExpiredOrder(o)) \/ Crash \/ UNCHANGED vars
      PROVE  BooksInv'
  <2>1. UNCHANGED <<offers, orders, disturbed, lost>>
    BY <1>8 DEF RefundExpiredOrder, Crash, vars, history
  <2> QED BY <2>1, BooksQuiet
<1> QED BY <1>1, <1>2, <1>3, <1>4, <1>5, <1>6, <1>7, <1>8 DEF Next, Users

(* In every behaviour, what an offer has left, what its orders hold and what the
   expiry job kept back add up to its total, unless a confirmation or a block
   disturbed it (ReserveQuantity, ReopenOrder, CancelExpiredOrders,
   failOrderStatus).                                                         *)
THEOREM BooksAlwaysBalance == Spec => []BooksBalance
<1>1. Init => BooksInv
  <2> SUFFICES ASSUME Init PROVE BooksInv
    OBVIOUS
  <2>1. \A o \in Orders : orders[o].status = "NONE" /\ lost[o] = 0
    BY DEF Init, NoRow
  <2>2. {o \in Orders : Placed(o)} = {} /\ \A f \in Offers : OrdersOf(f) = {}
    BY <2>1 DEF Placed, OrdersOf
  <2>3. \A f \in Offers : Charged(f) = 0
    BY <2>2, SumEmpty DEF Charged
  <2>4. BooksBalance
    BY <2>3 DEF Init, BooksBalance
  <2> QED BY <2>1, <2>2, <2>4, FS_EmptySet DEF BooksInv
<1>2. BooksInv => BooksBalance
  BY DEF BooksInv
<1> QED BY <1>1, <1>2, BooksStep, TypeCorrect, AlwaysFunded, PTL DEF Spec
=============================================================================
