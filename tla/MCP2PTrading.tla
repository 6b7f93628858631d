---------------------------- MODULE MCP2PTrading ----------------------------
(* Small instances of P2PTrading for TLC. *)
EXTENDS P2PTrading, TLC

Interchangeable == Permutations(Orders) \cup Permutations(Slots)

(* Starting point of the runs about trading proper: the offers exist and the
   SELL offers' escrow has been settled, as CreateOffer and IndexBlock leave
   them; WalletOf gives each offer a wallet of its own.                     *)
CONSTANT Total
WalletOf == CHOOSE g \in [Offers -> Wallets] : \A f, h \in Offers : g[f] = g[h] => f = h
Traded ==
    /\ offers = [f \in Offers |-> [status |-> "CONFIRMED", available |-> Total,
                                   total |-> Total, wallet |-> WalletOf[f]]]
    /\ orders = [o \in Orders |-> NoRow]
    /\ wallets = [w \in Wallets |-> IF \E f \in Offers : WalletOf[f] = w
                                    THEN "IN_USE" ELSE "NONE"]
    /\ balance = [w \in Wallets |-> IF \E f \in SellOffers : WalletOf[f] = w
                                    THEN Total ELSE 0]
    /\ pool = {}
    /\ sent = [i \in Offers \cup Orders |-> IF i \in SellOffers THEN 1 ELSE 0]
    /\ slot = [s \in Slots |-> Idle]
    /\ refunding = {}
    /\ paid = [o \in Orders |-> 0]
    /\ deposited = SellOffers
    /\ disturbed = {}
    /\ lost = [o \in Orders |-> 0]
TradingSpec == Traded /\ [][Next]_vars
TradingLiveSpec == TradingSpec /\ Fairness
=============================================================================
