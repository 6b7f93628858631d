----------------------------- MODULE OrderEscrow -----------------------------
(***************************************************************************)
(* What peer-to-peer trading promises about the money behind an order,     *)
(* with no requests, jobs, blocks or tables: an order is placed with or    *)
(* without its escrow, the escrow arrives at most once, and only then is   *)
(* the order paid.                                                         *)
(***************************************************************************)
CONSTANT Orders
VARIABLE escrow

Phase == {"absent", "unfunded", "funded", "paid"}

Init == escrow = [o \in Orders |-> "absent"]

Place(o) == /\ escrow[o] = "absent"
            /\ \E p \in {"unfunded", "funded"} : escrow' = [escrow EXCEPT ![o] = p]
Fund(o) == escrow[o] = "unfunded" /\ escrow' = [escrow EXCEPT ![o] = "funded"]
Pay(o) == escrow[o] = "funded" /\ escrow' = [escrow EXCEPT ![o] = "paid"]

Next == \E o \in Orders : Place(o) \/ Fund(o) \/ Pay(o)

Spec == Init /\ [][Next]_escrow
=============================================================================
