\* The wallet of a sold-out offer is released while another order's escrow is still in it.
SPECIFICATION TradingSpec
CONSTANTS
  SellOffers = {f1}
  BuyOffers = {}
  Orders = {o1, o2}
  Wallets = {w1}
  Slots = {s1}
  OfferAmounts = {2}
  OrderAmounts = {1}
  MaxDeposits = 1
  MaxActiveOffers = 2
  MaxActiveOrders = 2
  Total = 2
PROPERTIES ReleasedWalletsAreFree
CHECK_DEADLOCK FALSE
