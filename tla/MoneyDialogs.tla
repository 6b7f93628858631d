------------------------------ MODULE MoneyDialogs ------------------------------
(***************************************************************************)
(* The three pages that send money and nothing else: the dialog that       *)
(* donates to a campaign, the dialog that withdraws from it with the key   *)
(* of its wallet, and the transfer page. Each reads a balance, a nonce and *)
(* then posts a transaction; the receipt is drawn from the form and the    *)
(* balance of the moment it is shown, not from the transaction.            *)
(***************************************************************************)
EXTENDS Naturals

CONSTANTS MaxFunds,    \* amounts, in tokens
          MaxPayments, \* times a page is confirmed
          MaxVisits    \* times a dialog is opened

ASSUME MoneyAssumption == {MaxFunds, MaxPayments, MaxVisits} \subseteq Nat

VARIABLES paying,  \* the page: its fields, its balance and its receipt
          payment, \* the transfer under way
          purse,   \* the account that pays, on the chain
          cut      \* history: a dialog was opened again during its transfer

moneyVars == <<paying, payment, purse, cut>>

PageKinds == {"donate", "withdraw", "transfer"}
NoPayment == [step |-> "none"]

MoneyInit ==
    /\ \E k \in PageKinds :
          paying = [kind |-> k, open |-> k = "transfer", visits |-> 0, confirms |-> 0,
                    amount |-> 0, key |-> FALSE, known |-> 0, receipt |-> FALSE]
    /\ payment = NoPayment
    /\ purse = [funds |-> MaxFunds, nonce |-> 0, sent |-> 0]
    /\ cut = FALSE

Loading == payment # NoPayment

\* The amount a transaction carries: withdrawing without one means everything.
AmountToSend(p) == IF p.kind = "withdraw" /\ p.amount = 0 THEN p.known ELSE p.amount

-----------------------------------------------------------------------------
(* The dialogs and their fields.                                           *)

\* A variant that leaves the receipt of the previous donation.
OpenWithReceipt ==
    /\ ~ paying.open /\ paying.visits < MaxVisits
    /\ paying' = [paying EXCEPT !.open = TRUE, !.visits = @ + 1,
                     !.amount = IF paying.kind = "donate" THEN 0 ELSE @]
    /\ cut' = (cut \/ (Loading /\ paying.kind = "donate"))
    /\ UNCHANGED <<payment, purse>>

\* The effect of an opening: the donation starts over, the withdrawal does not.
OpenDialog ==
    /\ ~ paying.open /\ paying.visits < MaxVisits
    /\ paying' = [paying EXCEPT !.open = TRUE, !.visits = @ + 1,
                     !.amount = IF paying.kind = "donate" THEN 0 ELSE @,
                     !.receipt = IF paying.kind = "donate" THEN FALSE ELSE @]
    /\ cut' = (cut \/ (Loading /\ paying.kind = "donate"))
    /\ UNCHANGED <<payment, purse>>

CloseDialog ==
    /\ paying.open /\ paying.kind # "transfer"
    /\ paying' = [paying EXCEPT !.open = FALSE]
    /\ UNCHANGED <<payment, purse, cut>>

\* The Close button of TransactionComplete; that of a withdrawal empties the form.
CloseReceipt ==
    /\ paying.open /\ paying.receipt
    /\ paying' = IF paying.kind = "withdraw"
                 THEN [paying EXCEPT !.open = FALSE, !.receipt = FALSE, !.amount = 0, !.key = FALSE]
                 ELSE [paying EXCEPT !.open = FALSE]
    /\ UNCHANGED <<payment, purse, cut>>

\* refreshBalance and fetchBalance: on opening, after a withdrawal, and a second
\* after a transfer.
PurseRead ==
    /\ paying.known # purse.funds
    /\ paying' = [paying EXCEPT !.known = purse.funds]
    /\ UNCHANGED <<payment, purse, cut>>

\* handleInputChange; only the transfer page leaves its inputs enabled.
TypeMoney ==
    /\ paying.open /\ ~ paying.receipt
    /\ Loading => paying.kind = "transfer"
    /\ \E a \in 0..MaxFunds : a # paying.amount /\ paying' = [paying EXCEPT !.amount = a]
    /\ UNCHANGED <<payment, purse, cut>>

TypeKey ==
    /\ paying.kind = "withdraw" /\ paying.open /\ ~ paying.receipt /\ ~ Loading /\ ~ paying.key
    /\ paying' = [paying EXCEPT !.key = TRUE]
    /\ UNCHANGED <<payment, purse, cut>>

-----------------------------------------------------------------------------
(* The transfer.                                                           *)

\* What the button and its handler ask for. The withdrawal compares tokens with
\* raw units, which excludes nothing.
CanPay(p) ==
    CASE p.kind = "withdraw" -> p.key
      [] OTHER -> p.amount > 0 /\ p.amount <= p.known

ConfirmPayment ==
    /\ paying.open /\ ~ paying.receipt /\ ~ Loading /\ CanPay(paying)
    /\ paying.confirms < MaxPayments
    /\ payment' = [step |-> "nonce", amount |-> AmountToSend(paying)]
    /\ paying' = [paying EXCEPT !.confirms = @ + 1]
    /\ UNCHANGED <<purse, cut>>

PaymentNonce ==
    /\ payment.step = "nonce"
    /\ payment' = [step |-> "post", amount |-> payment.amount, nonce |-> purse.nonce + 1]
    /\ UNCHANGED <<paying, purse, cut>>

\* A variant that shows a receipt on every page.
ReceiptForAll(p) == [p EXCEPT !.receipt = TRUE]

\* What the pages do with a success.
PaymentDone(p) ==
    IF p.kind = "transfer" THEN [p EXCEPT !.amount = 0] ELSE [p EXCEPT !.receipt = TRUE]

\* The chain takes a transaction with the next nonce that is covered; its answer
\* may be lost, which the page cannot tell from a refusal.
PaymentPosted ==
    /\ payment.step = "post"
    /\ payment' = NoPayment
    /\ IF payment.nonce = purse.nonce + 1 /\ payment.amount <= purse.funds
       THEN /\ purse' = [funds |-> purse.funds - payment.amount, nonce |-> payment.nonce,
                         sent |-> payment.amount]
            /\ paying' \in {paying, PaymentDone(paying)}
       ELSE UNCHANGED <<purse, paying>>
    /\ UNCHANGED cut

\* Another page or device of the owner spends, or someone pays in.
PurseChanges ==
    /\ purse.nonce < MaxPayments
    /\ purse' \in {[purse EXCEPT !.funds = f, !.nonce = @ + 1] : f \in 0..MaxFunds}
    /\ UNCHANGED <<paying, payment, cut>>

MoneyNext ==
    \/ OpenDialog \/ CloseDialog \/ CloseReceipt \/ PurseRead \/ TypeMoney \/ TypeKey
    \/ ConfirmPayment \/ PaymentNonce \/ PaymentPosted \/ PurseChanges

MoneySpec == MoneyInit /\ [][MoneyNext]_moneyVars

-----------------------------------------------------------------------------

\* The state of the page has its type; a key is held only by a withdrawal, and a
\* transfer page has neither dialog nor receipt (transfer.tsx).
MoneyTypeOK ==
    /\ paying.kind \in PageKinds /\ paying.amount \in 0..MaxFunds /\ paying.known \in 0..MaxFunds
    /\ paying.key => paying.kind = "withdraw"
    /\ paying.kind = "transfer" => paying.open /\ ~ paying.receipt
    /\ payment.step \in {"none", "nonce", "post"}
    /\ purse.funds \in 0..MaxFunds /\ purse.nonce \in Nat

\* A receipt names the amount that was sent, however the dialog was closed and
\* opened, except that a donation dialog opened again during its transfer shows its
\* emptied form, and a withdrawal of everything shows what is left (TransactionComplete).
ReceiptIsTrue ==
    /\ paying.receipt /\ ~ cut
    /\ paying.kind = "withdraw" => paying.amount > 0
    => AmountToSend(paying) = purse.sent
=============================================================================
