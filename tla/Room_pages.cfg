\* The trading room and its chat, each part at the bounds under which its cases happen;
\* some parts really end (a bound on clicks, a page that is left), so deadlock is not
\* checked.
SPECIFICATION RoomPagesSpec
CONSTANTS
  Fetches = {g1, g2}
  MaxTerms = 3
  MaxNews = 2
  MaxSends = 1
  RoomClicks = 2
  None = None
  Texts = {t1, t2}
  LongTexts = {t2}
  Files = {f1, f2, f3}
  Images = {f1, f2}
  LargeFiles = {f3}
  NoText = NoText
  ChatRuns = 2
  ChatMessages = 2
  ChatDays = 2
  MaxSockets = 3
  TabTurns = 4
  Banks = {MB, VCB}
  Numbers = {n1, n2}
  NoNumber = NoNumber
  NoBank = NoBank
  AccountTurns = 2
  MaxAmount = 2
  MaxSubmissions = 2
INVARIANTS
  RoomPagesTypeOK RoomIsHonest NothingWrittenIsLost ChatIsOfTheRoom
  SocketIsManaged AccountsAgree PromisesAreTransferred
VIEW RoomFollowed
CHECK_DEADLOCK FALSE
