-------------------------- MODULE EscrowTransfers --------------------------
(***************************************************************************)
(* The two forms that promise dong to the escrow: a new offer              *)
(* (CreateOfferModal) and an order on an offer (BuyAmountSection and       *)
(* handleConfirmBuy).  A submission first creates the offer or the order   *)
(* at the dong-service and then, when the user is the one who sells, sends *)
(* the amount to the escrow wallet (useTransfer).  The forms are blocked   *)
(* by the first request only: another submission may overlap the transfer. *)
(***************************************************************************)
EXTENDS Naturals, FiniteSets

CONSTANTS
    MaxAmount,      \* amounts are 0..MaxAmount
    MaxSubmissions  \* the submissions of a run

ASSUME EscrowConstants == MaxAmount \in Nat \ {0} /\ MaxSubmissions \in Nat \ {0}

VARIABLES
    deal,       \* the form, who sells, the rows of the offer and the balance shown
    entry,      \* amount and limits typed, the two dialogs
    submission, \* the submissions: their step, amount, nonce
    rows,       \* the offers or orders created: the amount of each, by submission
    ledger,     \* the transfers the chain has taken
    nonceUsed,  \* the last nonce in a block, and the one in the pool
    told        \* the submissions that the page has announced as done

escrowVars == <<deal, entry, submission, rows, ledger, nonceUsed, told>>

SubmissionIds == 1..MaxSubmissions
AmountsTo(n) == 0..n
NoEntry == [amount |-> 0, min |-> 0, max |-> 0, open |-> TRUE, confirm |-> FALSE, data |-> 0]
NoSubmission == [st |-> "none", amount |-> 0, nonce |-> 0]

EscrowInit ==
    /\ deal \in [form : {"offer", "order"}, sells : BOOLEAN, min : {1}, max : {MaxAmount},
                 available : {MaxAmount}, balance : {MaxAmount - 1}]
    /\ entry = NoEntry
    /\ submission = [s \in SubmissionIds |-> NoSubmission]
    /\ rows = {} /\ ledger = {} /\ told = {}
    /\ nonceUsed = [block |-> 0, pool |-> 0]

\* isPending of the mutation, isLoading of useCreateOrder.
Posting == \E s \in SubmissionIds : submission[s].st = "posting"
Free == {s \in SubmissionIds : submission[s].st = "none"}
Min2(a, b) == IF a < b THEN a ELSE b

----------------------------------------------------------------------------
(* The form of an offer *)

\* CurrencyInput and AmountSection: an amount typed sets both limits.
TypeOfferAmount(a) ==
    /\ deal.form = "offer" /\ entry.open /\ ~entry.confirm
    /\ entry' = [entry EXCEPT !.amount = a, !.min = 1, !.max = a]
    /\ UNCHANGED <<deal, submission, rows, ledger, nonceUsed, told>>

\* The slider of a seller takes a part of the balance; at its ends none or all of it.
SliderChanged(a) ==
    /\ deal.form = "offer" /\ deal.sells /\ entry.open /\ ~entry.confirm /\ a <= deal.balance
    /\ entry' = [entry EXCEPT !.amount = a, !.min = IF a = 0 THEN 0 ELSE 1, !.max = a]
    /\ UNCHANGED <<deal, submission, rows, ledger, nonceUsed, told>>

\* TradeTypeSection: the limits by themselves.
TypeLimits(low, high) ==
    /\ deal.form = "offer" /\ entry.open /\ ~entry.confirm
    /\ entry' = [entry EXCEPT !.min = low, !.max = high]
    /\ UNCHANGED <<deal, submission, rows, ledger, nonceUsed, told>>

\* A variant that leaves the balance to the chain.
SchemaWithoutBalance(e) == e.amount > 0 /\ 0 < e.min /\ e.min <= e.max /\ e.max <= e.amount

\* createOfferSchema, and the balance of a seller.
OfferSchema(e) ==
    /\ e.amount > 0 /\ 0 < e.min /\ e.min <= e.max /\ e.max <= e.amount
    /\ deal.sells => e.amount <= deal.balance

\* onPreSubmit of the modal keeps the data for the confirmation (the account of a
\* seller is checked as well).
PreSubmit ==
    /\ deal.form = "offer" /\ entry.open /\ ~entry.confirm /\ OfferSchema(entry)
    /\ entry' = [entry EXCEPT !.confirm = TRUE, !.data = entry.amount]
    /\ UNCHANGED <<deal, submission, rows, ledger, nonceUsed, told>>

\* The dialogs can be closed at any time; a form that opens starts over.
CloseModal ==
    /\ deal.form = "offer" /\ entry.open
    /\ entry' = [entry EXCEPT !.open = FALSE, !.confirm = FALSE]
    /\ UNCHANGED <<deal, submission, rows, ledger, nonceUsed, told>>

ReopenModal ==
    /\ deal.form = "offer" /\ ~entry.open
    /\ entry' = NoEntry
    /\ UNCHANGED <<deal, submission, rows, ledger, nonceUsed, told>>

----------------------------------------------------------------------------
(* The form of an order *)

\* effectiveMax
EffectiveMax == IF deal.sells THEN Min2(Min2(deal.max, deal.available), deal.balance)
                ELSE Min2(deal.max, deal.available)

\* isDisabled: nothing is left, or less than an order may be.
OrderDisabled == deal.available < deal.min

\* The amount typed, or one of the two buttons.
TypeOrderAmount(a) ==
    /\ deal.form = "order" /\ ~entry.confirm /\ ~OrderDisabled
    /\ entry' = [entry EXCEPT !.amount = a]
    /\ UNCHANGED <<deal, submission, rows, ledger, nonceUsed, told>>

\* isValidAmount
IsValidAmount == entry.amount >= deal.min /\ entry.amount <= EffectiveMax /\ ~OrderDisabled

\* handleConfirm opens ConfirmPurchaseModal.
HandleConfirm ==
    /\ deal.form = "order" /\ ~entry.confirm /\ ~Posting /\ IsValidAmount
    /\ entry' = [entry EXCEPT !.confirm = TRUE, !.data = entry.amount]
    /\ UNCHANGED <<deal, submission, rows, ledger, nonceUsed, told>>

\* Both confirmations can be left again.
CancelConfirm ==
    /\ entry.confirm /\ ~Posting
    /\ entry' = [entry EXCEPT !.confirm = FALSE]
    /\ UNCHANGED <<deal, submission, rows, ledger, nonceUsed, told>>

\* Other traders take from the offer, and the page learns of it.
OfferShrinks ==
    /\ deal.form = "order" /\ deal.available > 0
    /\ deal' = [deal EXCEPT !.available = @ - 1]
    /\ UNCHANGED <<entry, submission, rows, ledger, nonceUsed, told>>

----------------------------------------------------------------------------
(* Both: the request, then the transfer *)

\* handleFinalSubmit; handleFinalConfirm and handleConfirmBuy, which has closed the
\* confirmation.  The balance of a seller is looked at again for an order only.
FinalConfirm(s) ==
    /\ entry.confirm /\ ~Posting /\ s \in Free /\ \A r \in Free : s <= r
    /\ submission' = [submission EXCEPT ![s] = [st |-> "posting", amount |-> entry.data, nonce |-> 0]]
    /\ entry' = IF deal.form = "order" THEN [entry EXCEPT !.confirm = FALSE] ELSE entry
    /\ UNCHANGED <<deal, rows, ledger, nonceUsed, told>>

\* The dialogs of the offer close when a submission ends, whichever it is.
Closed(s) == IF deal.form = "offer" THEN [entry EXCEPT !.confirm = FALSE, !.open = (s \notin told' /\ @)]
             ELSE entry

\* The service has created the row.  A buyer is done.
Created(s) ==
    /\ submission[s].st = "posting"
    /\ rows' = rows \cup {[of |-> s, amount |-> submission[s].amount]}
    /\ IF deal.sells
       THEN /\ submission' = [submission EXCEPT ![s].st = "nonce"]
            /\ UNCHANGED <<told, entry>>
       ELSE /\ submission' = [submission EXCEPT ![s].st = "done"]
            /\ told' = told \cup {s}
            /\ entry' = Closed(s)
    /\ UNCHANGED <<deal, ledger, nonceUsed>>

\* The service refuses, or its answer is lost after the row was created.
CreationFails(s) ==
    /\ submission[s].st = "posting"
    /\ submission' = [submission EXCEPT ![s].st = "failed"]
    /\ rows' \in {rows, rows \cup {[of |-> s, amount |-> submission[s].amount]}}
    /\ told' = told /\ entry' = Closed(s)
    /\ UNCHANGED <<deal, ledger, nonceUsed>>

\* transfer reads the nonce of the account ...
GetCurrentNonce(s) ==
    /\ submission[s].st = "nonce"
    /\ submission' = [submission EXCEPT ![s].st = "sending", ![s].nonce = nonceUsed.block + 1]
    /\ UNCHANGED <<deal, entry, rows, ledger, nonceUsed, told>>

\* ... and the transaction goes out with the next one, of which the chain takes one.
Taken(s) == submission[s].nonce > nonceUsed.block /\ submission[s].nonce > nonceUsed.pool

SendTransaction(s) ==
    /\ submission[s].st = "sending" /\ Taken(s)
    /\ ledger' = ledger \cup {[for |-> s, amount |-> submission[s].amount, nonce |-> submission[s].nonce]}
    /\ nonceUsed' = [nonceUsed EXCEPT !.pool = submission[s].nonce]
    /\ submission' = [submission EXCEPT ![s].st = "sent"]
    /\ UNCHANGED <<deal, entry, rows, told>>

\* A block takes in what is in the pool.
BlockMade ==
    /\ nonceUsed.pool > nonceUsed.block
    /\ nonceUsed' = [nonceUsed EXCEPT !.block = nonceUsed.pool]
    /\ UNCHANGED <<deal, entry, submission, rows, ledger, told>>

\* A variant that announces the submission before the answer.
AnnouncedAtOnce(s) ==
    /\ submission[s].st \in {"sending", "sent"}
    /\ submission' = [submission EXCEPT ![s].st = "done"]
    /\ told' = told \cup {s} /\ entry' = Closed(s)
    /\ UNCHANGED <<deal, rows, ledger, nonceUsed>>

\* The transfer was taken: "being processed", or the greeting and the room of the order.
TransferSucceeds(s) ==
    /\ submission[s].st = "sent"
    /\ submission' = [submission EXCEPT ![s].st = "done"]
    /\ told' = told \cup {s} /\ entry' = Closed(s)
    /\ UNCHANGED <<deal, rows, ledger, nonceUsed>>

\* A variant that sends a transfer again whose answer was lost.
TransferTriedAgain(s) ==
    /\ submission[s].st \in {"nonce", "sent"} \/ (submission[s].st = "sending" /\ ~Taken(s))
    /\ submission' = [submission EXCEPT ![s].st = "nonce"]
    /\ told' = told /\ entry' = Closed(s)
    /\ UNCHANGED <<deal, rows, ledger, nonceUsed>>

\* It was not, or the answer is lost: the error is shown, the row stays as it is
\* and nothing sends the amount again.
TransferFails(s) ==
    /\ submission[s].st \in {"nonce", "sent"} \/ (submission[s].st = "sending" /\ ~Taken(s))
    /\ submission' = [submission EXCEPT ![s].st = "failed"]
    /\ told' = told /\ entry' = Closed(s)
    /\ UNCHANGED <<deal, rows, ledger, nonceUsed>>

EscrowNext ==
    \/ \E a \in AmountsTo(MaxAmount) : TypeOfferAmount(a) \/ SliderChanged(a) \/ TypeOrderAmount(a)
    \/ \E low, high \in AmountsTo(MaxAmount) : TypeLimits(low, high)
    \/ PreSubmit \/ CloseModal \/ ReopenModal \/ HandleConfirm \/ CancelConfirm \/ OfferShrinks
    \/ \E s \in SubmissionIds : \/ FinalConfirm(s) \/ Created(s) \/ CreationFails(s)
                                \/ GetCurrentNonce(s) \/ SendTransaction(s)
                                \/ TransferSucceeds(s) \/ TransferFails(s)
    \/ BlockMade

EscrowSpec == EscrowInit /\ [][EscrowNext]_escrowVars

----------------------------------------------------------------------------

\* Types of the state; what was submitted is within the limits and the balance shown.
EscrowTypeOK ==
    /\ {entry.amount, entry.min, entry.max, entry.data} \subseteq AmountsTo(MaxAmount)
    /\ {entry.open, entry.confirm} \subseteq BOOLEAN
    /\ \A s \in SubmissionIds : submission[s].nonce \in 0..MaxSubmissions
    /\ told \subseteq SubmissionIds
    /\ \A r \in rows : r.amount \in 1..(IF deal.sells THEN deal.balance ELSE MaxAmount)

\* The chain takes one transfer at most for an offer or an order, of its amount,
\* and only from a seller, however submissions overlap and answers are lost.
OneTransferPerRow ==
    /\ \A x, y \in ledger : x # y => x.for # y.for /\ x.nonce # y.nonce
    /\ \A x \in ledger : deal.sells /\ [of |-> x.for, amount |-> x.amount] \in rows

\* What the page announces as done is created, and its dong is with the chain.
AnnouncedIsFunded ==
    \A s \in told : /\ \E r \in rows : r.of = s
                    /\ deal.sells => \E x \in ledger : x.for = s

\* A promise is kept once: what is announced was created and paid, and no row is
\* paid for twice.
PromisesAreTransferred == OneTransferPerRow /\ AnnouncedIsFunded
=============================================================================
