----------------------------- MODULE ClaimLedger -----------------------------
(***************************************************************************)
(* What lucky money promises about the money in an envelope, with no       *)
(* tables, Redis, blocks or requests: the owner's deposit funds it once;   *)
(* each user takes one share of it, the shares taken are no more than the  *)
(* deposit, and a share is paid once or fails for good.                    *)
(***************************************************************************)
EXTENDS Integers, Functions

CONSTANTS Envelopes, Users, Totals
VARIABLES fund,     \* the deposit of each envelope, 0 before it comes
          amount,   \* how much each user has taken
          share     \* what became of it

Init ==
    /\ fund \in [Envelopes -> Totals \cup {0}]
    /\ amount = [e \in Envelopes |-> [u \in Users |-> 0]]
    /\ share = [e \in Envelopes |-> [u \in Users |-> "none"]]

Fund(e) ==
    /\ fund[e] = 0
    /\ \E total \in Totals : fund' = [fund EXCEPT ![e] = total]
    /\ UNCHANGED <<amount, share>>

(* A share that failed stays taken: nobody else is given its amount.        *)
Claim(e, u) ==
    /\ share[e][u] = "none"
    /\ share' = [share EXCEPT ![e][u] = "pending"]
    /\ fund[e] > 0
    /\ \E a \in 0 .. fund[e] : amount' = [amount EXCEPT ![e][u] = a]
    /\ SumFunction(amount'[e]) <= fund[e]
    /\ UNCHANGED fund

Settle(e, u) ==
    /\ share[e][u] = "pending"
    /\ \E outcome \in {"paid", "failed"} : share' = [share EXCEPT ![e][u] = outcome]
    /\ UNCHANGED <<fund, amount>>

Next == \E e \in Envelopes : Fund(e) \/ \E u \in Users : Claim(e, u) \/ Settle(e, u)

Spec == Init /\ [][Next]_<<fund, amount, share>>
=============================================================================
