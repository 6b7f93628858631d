\* One SELL offer of two units, from its creation on: two orders of one unit, two requests at once.
SPECIFICATION Spec
CONSTANTS
  SellOffers = {f1}
  BuyOffers = {}
  Orders = {o1, o2}
  Wallets = {w1}
  Slots = {s1, s2}
  OfferAmounts = {2}
  OrderAmounts = {1}
  MaxDeposits = 1
  MaxActiveOffers = 2
  MaxActiveOrders = 2
  Total = 2
SYMMETRY Interchangeable
INVARIANTS TypeOK SpendingWasFunded CompletedOrdersWerePaid BooksBalance
PROPERTIES ClosedOffersStayClosed
CHECK_DEADLOCK FALSE
