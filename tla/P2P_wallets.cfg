\* A SELL and a BUY offer created one after the other on one wallet; a user may deposit twice.
SPECIFICATION Spec
CONSTANTS
  SellOffers = {f1}
  BuyOffers = {f2}
  Orders = {o1}
  Wallets = {w1}
  Slots = {s1}
  OfferAmounts = {1}
  OrderAmounts = {1}
  MaxDeposits = 2
  MaxActiveOffers = 2
  MaxActiveOrders = 2
  Total = 2
SYMMETRY Interchangeable
PROPERTIES ImplementsOrderEscrow
CHECK_DEADLOCK FALSE
