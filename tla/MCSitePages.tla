----------------------------- MODULE MCSitePages -----------------------------
(***************************************************************************)
(* The pages outside the trading room, in one model: the offers and the    *)
(* lists of orders, the lucky money, the donation campaigns, the           *)
(* transfers, and the search and the wallets of the explorer. A run        *)
(* follows one of them, and the others stay as they are mounted. The       *)
(* state space is the sum of theirs.                                       *)
(***************************************************************************)
EXTENDS OfferListing, OfferDesk, EnvelopeForm, EnvelopePages, CampaignPages, CampaignUpdate,
        CampaignFeed, CampaignList, ImageViewer, MoneyDialogs, TradeOrders,
        GlobalSearch, WalletHistory

CONSTANT p1

MCGiftAmounts == <<1, 2>>
MCOldPictures == <<p1>>
MCImagesOf == <<3, 1>>

VARIABLE part   \* the part that is followed

offerVars == <<listingVars, desk, tradeVars>>
luckyVars == <<formVars, giftVars>>
givingVars == <<campaignVars, updateVars, feedVars, listVars, viewerVars>>
explorerVars == <<searchVars, historyVars>>
sitePagesVars == <<part, offerVars, luckyVars, givingVars, moneyVars, explorerVars>>

SiteParts == {"listing", "desk", "trades", "form", "gift", "campaign", "update", "feed", "list",
              "viewer", "dialogs", "search", "history"}

\* Where the parts that are not followed begin, of the places where they may.
NotTraded == market.order = "none"
PlainAddress == url.min = 0 /\ url.page = 1 /\ wide
Gift == browser = "claimer"
NewUpdate == post.existing = <<>>
NoContent == content = <<>> /\ ~ feed.creator
FirstOfLists == address = FirstPages
NoDialog == dialog = "none"
TransferPage == paying.kind = "transfer"
FirstOfHistory == place.page = 1

SitePagesInit ==
    /\ part \in SiteParts
    /\ ListingInit /\ DeskInit /\ TradesInit /\ FormInit /\ GiftInit /\ MoneyInit
    /\ CampaignInit /\ UpdateInit /\ FeedInit /\ ListInit /\ ViewerInit
    /\ SearchInit /\ HistoryInit
    /\ part # "listing" => PlainAddress
    /\ part # "desk" => NotTraded
    /\ part # "gift" => Gift
    /\ part # "update" => NewUpdate
    /\ part # "feed" => NoContent
    /\ part # "list" => FirstOfLists
    /\ part # "viewer" => NoDialog
    /\ part # "dialogs" => TransferPage
    /\ part # "history" => FirstOfHistory

OfOffers ==
    \/ part = "listing" /\ ListingNext /\ UNCHANGED <<desk, tradeVars>>
    \/ part = "desk" /\ DeskNext /\ UNCHANGED <<listingVars, tradeVars>>
    \/ part = "trades" /\ TradesNext /\ UNCHANGED <<listingVars, desk>>

OfLuckyMoney ==
    \/ part = "form" /\ FormNext /\ UNCHANGED giftVars
    \/ part = "gift" /\ GiftNext /\ UNCHANGED formVars

OfCampaigns ==
    \/ /\ part = "campaign" /\ CampaignNext
       /\ UNCHANGED <<updateVars, feedVars, listVars, viewerVars>>
    \/ /\ part = "update" /\ UpdateNext
       /\ UNCHANGED <<campaignVars, feedVars, listVars, viewerVars>>
    \/ /\ part = "feed" /\ FeedNext
       /\ UNCHANGED <<campaignVars, updateVars, listVars, viewerVars>>
    \/ /\ part = "list" /\ ListNext
       /\ UNCHANGED <<campaignVars, updateVars, feedVars, viewerVars>>
    \/ /\ part = "viewer" /\ ViewerNext
       /\ UNCHANGED <<campaignVars, updateVars, feedVars, listVars>>

OfExplorer ==
    \/ part = "search" /\ SearchNext /\ UNCHANGED historyVars
    \/ part = "history" /\ HistoryNext /\ UNCHANGED searchVars

SitePagesNext ==
    /\ UNCHANGED part
    /\ \/ OfOffers /\ UNCHANGED <<luckyVars, givingVars, moneyVars, explorerVars>>
       \/ OfLuckyMoney /\ UNCHANGED <<offerVars, givingVars, moneyVars, explorerVars>>
       \/ OfCampaigns /\ UNCHANGED <<offerVars, luckyVars, moneyVars, explorerVars>>
       \/ OfExplorer /\ UNCHANGED <<offerVars, luckyVars, givingVars, moneyVars>>
       \/ part = "dialogs" /\ MoneyNext /\ UNCHANGED <<offerVars, luckyVars, givingVars, explorerVars>>

SitePagesSpec == SitePagesInit /\ [][SitePagesNext]_sitePagesVars

\* What tells two states apart (the VIEW of the run): the part and its variables. The
\* others have the one value they begin with.
PageFollowed ==
    <<part, CASE part = "listing" -> listingVars   [] part = "desk"    -> desk
              [] part = "trades"  -> tradeVars     [] part = "form"    -> formVars
              [] part = "gift"    -> giftVars      [] part = "campaign" -> campaignVars
              [] part = "update"  -> updateVars    [] part = "feed"    -> feedVars
              [] part = "list"    -> listVars      [] part = "viewer"  -> viewerVars
              [] part = "dialogs" -> moneyVars     [] part = "search"  -> searchVars
              [] part = "history" -> historyVars>>

-----------------------------------------------------------------------------
\* Types of the state of every part.
SitePagesTypeOK ==
    /\ ListingTypeOK /\ DeskTypeOK /\ FormTypeOK /\ GiftTypeOK /\ MoneyTypeOK
    /\ CampaignTypeOK /\ UpdateTypeOK /\ FeedTypeOK /\ ListTypeOK /\ ViewerTypeOK
    /\ TradesTypeOK /\ SearchTypeOK /\ HistoryTypeOK

\* The offers and orders on the screen are those asked for, as new as what the page
\* has heard, and offer what the service accepts, while navigations replace each
\* other and answers cross events (the P2P page).
OffersAreCurrent ==
    /\ PageIsReset /\ TypedFilterIsShown /\ ShownIsHeard /\ OffersWhatIsAccepted
    /\ TradesAreHeard /\ OrdersOfTheOffer

\* What a page says was claimed, decided or received is so at the service, also
\* when events join or overtake the reads (the envelope pages and money dialogs).
AnnouncedIsTrue == ClaimedAsShown /\ StatusAsAnnounced /\ ReceiptIsTrue

\* A campaign and its updates are as their creator left them: a wallet for every
\* campaign, no published one deleted, its address free, its pictures as chosen
\* (the campaign's forms and its update form).
CampaignsAreAsEdited ==
    WalletsAreHeld /\ DeletedIsDraft /\ ChosenSlugIsFree /\ FormIsShown /\ PublishedAsShown

\* What is read page by page is neither repeated nor left out, and is what was
\* asked for last (the feed, the campaign lists, the image viewer, the search, and
\* the transactions of a wallet with their export).
FeedsAreWhole ==
    /\ NothingTwice /\ NothingLeftOut /\ ToggledIsShown
    /\ NewFiltersFirstPage /\ OpensAtTheClick /\ TapsDoNotTurn
    /\ ResultsAreAskedFor /\ SearchEnds
    /\ PageIsThere /\ FiltersAreKept /\ ExportsAsPicked
==============================================================================
