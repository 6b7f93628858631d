\* A BUY offer of two units that trades, two orders that bring their escrow: liveness of the job, and the books.
SPECIFICATION TradingLiveSpec
CONSTANTS
  SellOffers = {}
  BuyOffers = {f1}
  Orders = {o1, o2}
  Wallets = {w1}
  Slots = {s1}
  OfferAmounts = {2}
  OrderAmounts = {1}
  MaxDeposits = 1
  MaxActiveOffers = 2
  MaxActiveOrders = 2
  Total = 2
INVARIANTS BooksBalance
PROPERTIES OverdueOrdersSettle
CHECK_DEADLOCK FALSE
