\* Each of the pages outside the trading room at the bounds under which its cases happen;
\* some really end (a bound on clicks, a page that is left), so deadlock is not checked.
SPECIFICATION SitePagesSpec
CONSTANTS
  Amounts = {5}
  MaxPage = 2
  MaxChanges = 1
  MaxDialogs = 1
  TopTotal = 4
  TopCount = 3
  TopShare = 2
  UserBalance = 3
  MaxCount = 2
  MaxEnvelopes = 2
  ClaimTabs = {1, 2}
  GiftAmounts <- MCGiftAmounts
  EditTabs = {e1}
  MaxCampaigns = 2
  MaxWallets = 2
  Calls = {1, 2}
  p1 = p1
  Pictures = {p1, p2}
  OldPictures <- MCOldPictures
  MaxPictures = 2
  TxHashes = {h1, h2}
  MaxHashes = 2
  MaxBatches = 2
  MaxTyping = 2
  MaxCrossings = 2
  PageSize = 1
  MaxRows = 3
  MaxToggles = 2
  Searches = {"", "a"}
  MaxListPage = 2
  ImagesOf <- MCImagesOf
  MaxDisplayed = 2
  MaxFunds = 3
  MaxPayments = 2
  MaxVisits = 3
  MaxSteps = 4
  MaxReads = 1
  Terms = {"a", "b"}
  MaxSearches = 3
  Senders = {"x"}
  LastPage = 2
  Today = 1
  HistoryTurns = 3
INVARIANTS
  SitePagesTypeOK OffersAreCurrent FormIsHonest AnnouncedIsTrue
  CampaignsAreAsEdited FeedsAreWhole
VIEW PageFollowed
CHECK_DEADLOCK FALSE
