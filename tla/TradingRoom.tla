---------------------------- MODULE TradingRoom ----------------------------
(***************************************************************************)
(* The trading room of one order, as one of its two parties sees it        *)
(* (src/frontend/modules/p2p): the order held by useP2POrder, the status   *)
(* TradingRoom lays over it (localStatus), the buttons, the message the    *)
(* room hands to the chat, and the dong-service behind them.  Answers of   *)
(* the service may be late, lost and out of order; its handlers take one   *)
(* step each here, P2PTrading has their steps.                             *)
(***************************************************************************)
EXTENDS Naturals, FiniteSets

CONSTANTS
    Fetches,      \* the GETs of the order that may be under way at once
    MaxTerms,     \* how often the order is given an expiry time in a run
    MaxNews,      \* the socket events about the order that may be under way
    MaxSends,     \* the messages of a kind the chat may be sending at once
    RoomClicks,   \* how often the party clicks in a run
    None

VARIABLES
    party,    \* who looks at the room: the side of the offer, and who created the order
    order,    \* the service's order; term counts its expiry times
    paid,     \* the service has recorded the payment (history)
    room,     \* the state of TradingRoom, useP2POrder and the two buttons
    post,     \* the POSTs of the room: confirm as buyer or as seller, reopen
    get,      \* the GETs of the order
    news,     \* events about the order on their way to this browser
    talk,     \* the chat: the room's autoMessage and what became of it
    unheard,  \* an answer that said yes got lost, or its page was left (history)
    taps      \* the clicks that the bound leaves

roomVars == <<party, order, paid, room, post, get, news, talk, unheard, taps>>

OrderStatus == {"WAITING_TRANSFER", "OPEN", "PENDING", "CONFIRMED", "COMPLETED", "EXPIRED"}
Terms == 0..MaxTerms
P2POrder == [status : OrderStatus, term : Terms]
NoOrder == [status |-> None, term |-> 0]
Buttons == {"pay", "release", "reopen"}
Messages == {"greeting", "paid", "released"}

ASSUME RoomConstants ==
    /\ MaxTerms \in Nat \ {0} /\ MaxNews \in Nat /\ MaxSends \in Nat \ {0} /\ RoomClicks \in Nat
    /\ Fetches # {}
    /\ None \notin OrderStatus \cup Messages
                    \cup {"mount", "event", "reopen", "order creator", "offer creator"}

NewRoom == [view |-> NoOrder, loading |-> TRUE, local |-> None, expired |-> FALSE,
            offer |-> FALSE, modal |-> FALSE, busy |-> {}]
NoFetch == [why |-> None, st |-> "none", snap |-> NoOrder]
NewTalk(greets) == [with |-> None, auto |-> None, fresh |-> FALSE, greet |-> greets,
                    sending |-> [m \in Messages |-> 0], delivered |-> {}]
NoPost == [st |-> "none", before |-> NoOrder]

\* useP2POrder fetches the order as soon as the room is mounted; the names of fetches
\* do not matter.
FirstFetch(gets) ==
    gets = [[g \in Fetches |-> NoFetch] EXCEPT ![CHOOSE g \in Fetches : TRUE] =
               [NoFetch EXCEPT !.why = "mount", !.st = "sent"]]

RoomInit ==
    /\ party \in [side : {"SELL", "BUY"}, creator : BOOLEAN]
    /\ order = [status |-> IF party.side = "BUY" THEN "WAITING_TRANSFER" ELSE "OPEN",
                prev |-> None, term |-> 1, late |-> FALSE]
    /\ paid = FALSE /\ unheard = FALSE
    /\ room = NewRoom
    /\ post = [k \in Buttons |-> NoPost]
    /\ FirstFetch(get)
    /\ news = 0
    /\ talk = NewTalk(party.creator)
    /\ taps = RoomClicks

----------------------------------------------------------------------------
(* What the room shows *)

\* The party of an offer that pays: its creator if he buys, else the one who
\* answered with the order.
Role(side, creator) == IF (side = "BUY") = creator THEN "seller" ELSE "buyer"
TrueRole == Role(party.side, party.creator)
PeerRole == Role(party.side, ~party.creator)

\* The order of the service carries no offer_type, so that until the offer is
\* loaded the room takes it for a SELL offer.
UserRole == Role(IF room.offer THEN party.side ELSE "SELL", party.creator)

EffectiveStatus == IF room.local # None THEN room.local ELSE room.view.status
Skeleton == room.loading \/ room.view = NoOrder

\* The expiry time the page knows is over; reopening sets a new one.
Passed(o) == o.term < order.term \/ order.late

ShowsCompleted == ~Skeleton /\ EffectiveStatus \in {"CONFIRMED", "COMPLETED"}
HasButtonsOf(role) == ~Skeleton /\ UserRole = role

\* PaymentActionButton is there for an open order, SellerConfirmButton for a
\* paid one; both are disabled when the order has expired.
OffersPay == /\ HasButtonsOf("buyer") /\ EffectiveStatus = "OPEN"
             /\ ~room.expired /\ "pay" \notin room.busy

OffersRelease == /\ HasButtonsOf("seller") /\ EffectiveStatus = "PENDING"
                 /\ ~room.expired /\ "release" \notin room.busy

\* canReopen names both parties; the service lets only the order's creator.
CanReopen == EffectiveStatus = "EXPIRED" /\ (party.creator \/ room.offer)

\* The header shows the button beside the countdown.
OffersReopen == ~Skeleton /\ CanReopen /\ "reopen" \notin room.busy

\* ProgressSteps: the step of a status, of three.
GetStepIndex(status) == CASE status = "PENDING" -> 1
                          [] status \in {"CONFIRMED", "COMPLETED"} -> 2
                          [] OTHER -> 0

\* Whose bank account the room shows: a SELL offer carries that of its
\* creator, an order on a BUY offer that of the order's creator.
SellerPaymentInfo ==
    IF Skeleton THEN None
    ELSE IF party.side = "BUY" THEN "order creator"
    ELSE IF room.offer THEN "offer creator" ELSE None

\* The cards with the account, and with the VietQR code that pays to it.
BankInfoCard == SellerPaymentInfo
QrCodeCard == SellerPaymentInfo

\* OrderInfoCard goes by the side that the order itself has.
IsActualBuyer == IF party.creator THEN party.side # "BUY" ELSE party.side = "BUY"

\* A variant that goes by the role alone.
CounterpartOfRole(side, role) ==
    IF role = "seller" THEN "order creator"
    ELSE IF room.offer THEN "offer creator" ELSE None

\* Whom the chat talks to: ids of the offer are known when it is loaded.
CounterpartByRole(side, role) ==
    IF (side = "BUY") = (role = "buyer") THEN "order creator"
    ELSE IF room.offer THEN "offer creator" ELSE None
Counterpart == CounterpartByRole(IF room.offer THEN party.side ELSE "SELL", UserRole)

----------------------------------------------------------------------------
(* State updates of the page, with the effects they set off *)

\* setAutoMessage: a new object, which a chat that is connected sends at once.
Hand(t, m) ==
    IF t.with # None THEN [t EXCEPT !.auto = m, !.fresh = FALSE,
                               !.sending[m] = IF @ < MaxSends THEN @ + 1 ELSE @]
    ELSE [t EXCEPT !.auto = m, !.fresh = TRUE]

\* The order's creator greets as long as sessionStorage asks for it.
Greet(t) == IF party.creator /\ t.greet THEN Hand(t, "greeting") ELSE t

\* setOrder: the expiry is checked anew, and a new status ends localStatus.
WithOrder(r, o) ==
    [r EXCEPT !.view = o, !.expired = Passed(o),
              !.local = IF o.status # r.view.status THEN None ELSE @]

SetOrder(o, r) == room' = WithOrder(r, o) /\ talk' = Greet(talk)

\* The interval of a second in which the room checks the expiry.
CheckExpiration ==
    /\ room.view # NoOrder /\ room.expired # Passed(room.view)
    /\ room' = [room EXCEPT !.expired = ~@]
    /\ UNCHANGED <<party, order, paid, post, get, news, talk, unheard, taps>>

\* The offer arrives: a button of the wrong role is unmounted with its state.
OfferLoaded ==
    /\ ~room.offer /\ room.view # NoOrder
    /\ LET known == [room EXCEPT !.offer = TRUE]
           was == UserRole
       IN room' = IF was # TrueRole
                  THEN [known EXCEPT !.busy = @ \ {"pay", "release"}, !.modal = FALSE]
                  ELSE known
    /\ talk' = Greet(talk)
    /\ UNCHANGED <<party, order, paid, post, get, news, unheard, taps>>

----------------------------------------------------------------------------
(* The service *)

Notified == news' = IF news < MaxNews THEN news + 1 ELSE news

\* Time passes the order's expiry; the job of the scheduler expires it later.
ExpiryPasses ==
    /\ ~order.late
    /\ order' = [order EXCEPT !.late = TRUE]
    /\ UNCHANGED <<party, paid, room, post, get, news, talk, unheard, taps>>

\* A variant of the job that does not keep the status.
CancelForgetsStatus ==
    /\ order.late /\ order.status \in {"WAITING_TRANSFER", "OPEN", "PENDING"}
    /\ order' = [order EXCEPT !.status = "EXPIRED"]
    /\ UNCHANGED <<party, paid, room, post, get, news, talk, unheard, taps>>

CancelExpiredOrders ==
    /\ order.late /\ order.status \in {"WAITING_TRANSFER", "OPEN", "PENDING"}
    /\ order' = [order EXCEPT !.status = "EXPIRED", !.prev = order.status]
    /\ UNCHANGED <<party, paid, room, post, get, news, talk, unheard, taps>>

\* The indexer settles the escrow of an order on a BUY offer.
EscrowSettled ==
    /\ order.status = "WAITING_TRANSFER"
    /\ order' = [order EXCEPT !.status = "OPEN"]
    /\ UNCHANGED <<party, paid, room, post, get, news, talk, unheard, taps>>

\* ConfirmOrder goes by the caller's part in the trade; the status that the
\* page asks for is in the request and never read.
Confirmable(role) == ~order.late /\ order.status = IF role = "buyer" THEN "OPEN" ELSE "PENDING"
Confirmed(role) ==
    /\ order' = [order EXCEPT !.status = IF role = "buyer" THEN "PENDING" ELSE "COMPLETED"]
    /\ paid' = TRUE
    /\ Notified

Reopenable == order.status = "EXPIRED" /\ order.term < MaxTerms
Reopened == /\ order' = [status |-> order.prev, prev |-> order.status,
                         term |-> order.term + 1, late |-> FALSE]
            /\ UNCHANGED <<paid, news>>

\* The other party confirms or reopens from its own room.
PeerActs ==
    /\ \/ Confirmable(PeerRole) /\ Confirmed(PeerRole)
       \/ ~party.creator /\ Reopenable /\ Reopened
    /\ UNCHANGED <<party, room, post, get, talk, unheard, taps>>

Answered(k, st) == post' = [post EXCEPT ![k].st = st]

\* The service handles a POST; a release whose transfer fails is rolled back.
ConfirmOrder(k) ==
    /\ k \in {"pay", "release"} /\ post[k].st = "sent"
    /\ \/ Confirmable(TrueRole) /\ Confirmed(TrueRole) /\ Answered(k, "yes")
       \/ /\ ~Confirmable(TrueRole) \/ TrueRole = "seller"
          /\ Answered(k, "no") /\ UNCHANGED <<order, paid, news>>
    /\ UNCHANGED <<party, room, get, talk, unheard, taps>>

ReopenOrder ==
    /\ post["reopen"].st = "sent"
    /\ \/ party.creator /\ Reopenable /\ Reopened /\ Answered("reopen", "yes")
       \/ Answered("reopen", "no") /\ UNCHANGED <<order, paid, news>>
    /\ UNCHANGED <<party, room, get, talk, unheard, taps>>

\* A request or its answer is lost.
PostLost(k) ==
    /\ post[k].st \in {"sent", "yes"}
    /\ Answered(k, "no")
    /\ unheard' = (unheard \/ post[k].st = "yes")
    /\ UNCHANGED <<party, order, paid, room, get, news, talk, taps>>

----------------------------------------------------------------------------
(* Fetching the order *)

Fetch(s, why) == get[s].st = "none" /\ get' = [get EXCEPT ![s] = [NoFetch EXCEPT !.why = why, !.st = "sent"]]

GetOrderById(s) ==
    /\ get[s].st = "sent"
    /\ get' = [get EXCEPT ![s].st = "read", ![s].snap = [status |-> order.status, term |-> order.term]]
    /\ UNCHANGED <<party, order, paid, room, post, news, talk, unheard, taps>>

\* An event about this order, whatever its type: refreshOrder.
HandleStatusUpdate ==
    /\ news > 0 /\ news' = news - 1
    /\ \/ \E s \in Fetches : Fetch(s, "event")
       \/ UNCHANGED get    \* the event is lost on its way
    /\ UNCHANGED <<party, order, paid, room, post, talk, unheard, taps>>

\* fetchOrder, refreshOrder or refresh get the order.  A reopened order is
\* shown as OPEN unless the answer brings a new status, which ends localStatus.
OrderFetched(s) ==
    /\ get[s].st = "read"
    /\ LET o == get[s].snap
           r == CASE get[s].why = "mount" -> [room EXCEPT !.loading = FALSE]
                  [] get[s].why = "reopen" -> [room EXCEPT !.local = "OPEN"]
                  [] OTHER -> room
       IN SetOrder(o, r)
    /\ get' = [get EXCEPT ![s] = NoFetch]
    /\ UNCHANGED <<party, order, paid, post, news, unheard, taps>>

FetchFails(s) ==
    /\ get[s].st \in {"sent", "read"}
    /\ room' = CASE get[s].why = "mount" -> [room EXCEPT !.loading = FALSE, !.view = NoOrder]
                 [] get[s].why = "reopen" -> [room EXCEPT !.local = "OPEN"]
                 [] OTHER -> room
    /\ get' = [get EXCEPT ![s] = NoFetch]
    /\ UNCHANGED <<party, order, paid, post, news, talk, unheard, taps>>

----------------------------------------------------------------------------
(* The buttons *)

Tap == taps > 0 /\ taps' = taps - 1
Send(k, before) == /\ post[k].st \in {"none", "left"}
                   /\ post' = [post EXCEPT ![k] = [st |-> "sent", before |-> before]]

\* A variant that shows the payment before the service has answered.
PayClickedInAdvance ==
    /\ OffersPay /\ Tap
    /\ Send("pay", room.view)
    /\ room' = [room EXCEPT !.busy = @ \cup {"pay"}, !.local = "PENDING"]
    /\ UNCHANGED <<party, order, paid, get, news, talk, unheard>>

\* PaymentActionButton.handleConfirm
PayClicked ==
    /\ OffersPay /\ Tap
    /\ Send("pay", room.view)
    /\ room' = [room EXCEPT !.busy = @ \cup {"pay"}]
    /\ UNCHANGED <<party, order, paid, get, news, talk, unheard>>

\* A variant that leaves the status to the next event.
PayAnsweredQuietly ==
    /\ post["pay"].st \in {"yes", "no"}
    /\ post' = [post EXCEPT !["pay"] = NoPost]
    /\ room' = [room EXCEPT !.busy = @ \ {"pay"}]
    /\ talk' = IF post["pay"].st = "yes" THEN Hand(talk, "paid") ELSE talk
    /\ UNCHANGED <<party, order, paid, get, news, unheard, taps>>

\* handlePaymentStatusUpdated, or the toast of a failure.
PayAnswered ==
    /\ post["pay"].st \in {"yes", "no"}
    /\ post' = [post EXCEPT !["pay"] = NoPost]
    /\ LET done == [room EXCEPT !.busy = @ \ {"pay"}]
       IN \/ /\ post["pay"].st = "yes"
             /\ room' = [done EXCEPT !.local = "PENDING"]
             /\ talk' = Hand(talk, "paid")
          \/ post["pay"].st = "no" /\ room' = done /\ UNCHANGED talk
    /\ UNCHANGED <<party, order, paid, get, news, unheard, taps>>

\* SellerConfirmButton asks first; its dialog goes when the button does.
ReleaseModal ==
    /\ \/ ~room.modal /\ OffersRelease
       \/ room.modal /\ UserRole = "seller" /\ EffectiveStatus = "PENDING" /\ "release" \notin room.busy
    /\ room' = [room EXCEPT !.modal = ~@]
    /\ UNCHANGED <<party, order, paid, post, get, news, talk, unheard, taps>>

\* handleFinalConfirm: updateOrderStatus shows CONFIRMED and asks the service.
ReleaseClicked ==
    /\ OffersRelease /\ room.modal /\ Tap
    /\ Send("release", room.view)
    /\ SetOrder([room.view EXCEPT !.status = "CONFIRMED"], [room EXCEPT !.busy = @ \cup {"release"}])
    /\ UNCHANGED <<party, order, paid, get, news, unheard>>

\* A variant in which the message does not wait for the service's yes.
ReleaseAnnounced ==
    /\ post["release"].st \in {"yes", "no"}
    /\ post' = [post EXCEPT !["release"] = NoPost]
    /\ LET done == [room EXCEPT !.busy = @ \ {"release"}]
       IN room' = IF post["release"].st = "yes" THEN [done EXCEPT !.local = "CONFIRMED", !.modal = FALSE]
                  ELSE WithOrder(done, post["release"].before)
    /\ talk' = Hand(talk, "released")
    /\ UNCHANGED <<party, order, paid, get, news, unheard, taps>>

\* handleSellerConfirm: a failure puts back the order of the click.
ReleaseAnswered ==
    /\ post["release"].st \in {"yes", "no"}
    /\ post' = [post EXCEPT !["release"] = NoPost]
    /\ LET done == [room EXCEPT !.busy = @ \ {"release"}]
       IN \/ /\ post["release"].st = "yes"
             /\ room' = [done EXCEPT !.local = "CONFIRMED", !.modal = FALSE]
             /\ talk' = Hand(talk, "released")
          \/ post["release"].st = "no" /\ SetOrder(post["release"].before, done)
    /\ UNCHANGED <<party, order, paid, get, news, unheard, taps>>

ReopenClicked ==
    /\ OffersReopen /\ Tap
    /\ Send("reopen", room.view)
    /\ room' = [room EXCEPT !.busy = @ \cup {"reopen"}]
    /\ UNCHANGED <<party, order, paid, get, news, talk, unheard>>

\* A variant that forgets the button when the service refuses.
ReopenRefusedSilently ==
    /\ post["reopen"].st \in {"yes", "no"}
    /\ post' = [post EXCEPT !["reopen"] = NoPost]
    /\ IF post["reopen"].st = "yes"
       THEN room' = [room EXCEPT !.busy = @ \ {"reopen"}] /\ \E s \in Fetches : Fetch(s, "reopen")
       ELSE UNCHANGED <<room, get>>
    /\ UNCHANGED <<party, order, paid, news, talk, unheard, taps>>

\* useReopenOrder: the button is free again while the order is fetched.
ReopenAnswered ==
    /\ post["reopen"].st \in {"yes", "no"}
    /\ post' = [post EXCEPT !["reopen"] = NoPost]
    /\ room' = [room EXCEPT !.busy = @ \ {"reopen"}]
    /\ \/ post["reopen"].st = "yes" /\ \E s \in Fetches : Fetch(s, "reopen")
       \/ post["reopen"].st = "no" /\ UNCHANGED get
    /\ UNCHANGED <<party, order, paid, news, talk, unheard, taps>>

\* The page is left and opened again: sessionStorage stays, a POST that is
\* under way is served or not, and nobody waits for its answer.
Reload ==
    /\ Tap
    /\ room' = NewRoom
    /\ talk' = [NewTalk(talk.greet) EXCEPT !.delivered = talk.delivered]
    /\ FirstFetch(get')
    /\ post' = [k \in Buttons |-> IF post[k].st = "sent" THEN [NoPost EXCEPT !.st = "left"] ELSE NoPost]
    /\ unheard' = (unheard \/ \E k \in Buttons : post[k].st # "none")
    /\ UNCHANGED <<party, order, paid, news>>

\* A POST of a page that was left reaches the service late.
LeftPostServed ==
    /\ \/ /\ \E k \in {"pay", "release"} : post[k].st = "left" /\ post' = [post EXCEPT ![k] = NoPost]
          /\ Confirmable(TrueRole) /\ Confirmed(TrueRole)
       \/ /\ post["reopen"].st = "left" /\ post' = [post EXCEPT !["reopen"] = NoPost]
          /\ party.creator /\ Reopenable /\ Reopened
    /\ UNCHANGED <<party, room, get, talk, unheard, taps>>

----------------------------------------------------------------------------
(* The chat, as far as the room's messages go *)

\* initChat is through: a message that waits is sent.
ChatConnected ==
    /\ talk.with = None /\ ~Skeleton /\ Counterpart # None
    /\ LET t == [talk EXCEPT !.with = Counterpart]
       IN talk' = IF t.fresh /\ t.auto # None THEN Hand(t, t.auto) ELSE t
    /\ UNCHANGED <<party, order, paid, room, post, get, news, unheard, taps>>

\* handleMessageSent takes back the message and the greeting.
AutoMessageSent(m) ==
    /\ talk.sending[m] > 0
    /\ talk' = [talk EXCEPT !.sending[m] = @ - 1, !.delivered = @ \cup {m}, !.auto = None,
                            !.fresh = FALSE, !.greet = @ /\ ~party.creator]
    /\ UNCHANGED <<party, order, paid, room, post, get, news, unheard, taps>>

\* A variant that gives up the greeting when the message fails.
AutoMessageDropped(m) ==
    /\ talk.sending[m] > 0
    /\ talk' = [talk EXCEPT !.sending[m] = @ - 1, !.greet = FALSE]
    /\ UNCHANGED <<party, order, paid, room, post, get, news, unheard, taps>>

AutoMessageFails(m) ==
    /\ talk.sending[m] > 0
    /\ talk' = [talk EXCEPT !.sending[m] = @ - 1]
    /\ UNCHANGED <<party, order, paid, room, post, get, news, unheard, taps>>

----------------------------------------------------------------------------

RoomNext ==
    \/ CheckExpiration \/ OfferLoaded
    \/ ExpiryPasses \/ CancelExpiredOrders \/ EscrowSettled \/ PeerActs
    \/ \E k \in Buttons : ConfirmOrder(k) \/ PostLost(k)
    \/ ReopenOrder
    \/ \E s \in Fetches : GetOrderById(s) \/ OrderFetched(s) \/ FetchFails(s)
    \/ HandleStatusUpdate
    \/ PayClicked \/ PayAnswered \/ ReleaseModal \/ ReleaseClicked \/ ReleaseAnswered
    \/ ReopenClicked \/ ReopenAnswered
    \/ Reload \/ LeftPostServed
    \/ ChatConnected
    \/ \E m \in Messages : AutoMessageSent(m) \/ AutoMessageFails(m)

RoomSpec == RoomInit /\ [][RoomNext]_roomVars

----------------------------------------------------------------------------

\* Types of the state.
RoomTypeOK ==
    /\ party \in [side : {"SELL", "BUY"}, creator : BOOLEAN]
    /\ order \in [status : OrderStatus, prev : OrderStatus \cup {None}, term : Terms, late : BOOLEAN]
    /\ paid \in BOOLEAN /\ unheard \in BOOLEAN
    /\ room \in [view : P2POrder \cup {NoOrder}, loading : BOOLEAN, local : OrderStatus \cup {None},
                 expired : BOOLEAN, offer : BOOLEAN, modal : BOOLEAN, busy : SUBSET Buttons]
    /\ post \in [Buttons -> [st : {"none", "sent", "yes", "no", "left"}, before : P2POrder \cup {NoOrder}]]
    /\ get \in [Fetches -> [why : {None, "mount", "event", "reopen"}, st : {"none", "sent", "read"},
                            snap : P2POrder \cup {NoOrder}]]
    /\ news \in 0..MaxNews /\ taps \in 0..RoomClicks
    /\ talk \in [with : {None, "order creator", "offer creator"}, auto : Messages \cup {None},
                 fresh : BOOLEAN, greet : BOOLEAN, sending : [Messages -> 0..MaxSends],
                 delivered : SUBSET Messages]

\* The room may lag behind the service but never runs ahead of it: a step of
\* the trade is shown as done when the service has done it; only the seller
\* sees his release before its answer, and no longer than he waits for it.
NothingShownAhead ==
    ~Skeleton =>
        /\ GetStepIndex(EffectiveStatus) > 0 => paid
        /\ ShowsCompleted => order.status = "COMPLETED" \/ post["release"].st # "none"

\* What the room makes the chat say in the party's name has happened at the
\* service: no payment is announced that is not recorded, no release that did
\* not take place, however the answers of the service are lost or late.
MessagesAreTrue ==
    \A m \in Messages :
        talk.auto = m \/ talk.sending[m] > 0 \/ m \in talk.delivered =>
            /\ m = "paid" => paid
            /\ m = "released" => order.status = "COMPLETED"

\* A button that is disabled because it is at work has a call under way, also
\* when the call fails or the button was unmounted meanwhile.
BusyButtonsAwait == \A k \in room.busy : post[k].st \in {"sent", "yes", "no"}

\* A buyer whose payment is recorded is not asked to transfer again, unless the
\* answer that said so never reached this page, or he reopened the order: the
\* room then says OPEN whatever status the service has restored, and after a
\* second reopening the late answer to the first refresh may replace a newer one.
PaidIsNotAskedAgain ==
    TrueRole = "buyer" /\ OffersPay /\ paid => unheard \/ room.local = "OPEN" \/ room.view.term > 2

\* The greeting that the order page was opened with is given up only when the
\* chat has delivered something: a failed or replaced message leaves it asked for.
GreetingKept == party.creator /\ ~talk.greet => talk.delivered # {}

\* The room is connected to the other party's chat and shows the account of the
\* party that is to be paid, also before the offer is loaded.
RightParty ==
    /\ talk.with # None => talk.with = IF party.creator THEN "offer creator" ELSE "order creator"
    /\ \A account \in {BankInfoCard, QrCodeCard} \ {None} :
          (account = "offer creator") = (Role(party.side, FALSE) = "seller")
    /\ IsActualBuyer = (TrueRole = "buyer")

\* The room is honest: to its user, to whom it shows the order and the account to
\* pay, and to the other party, to whom it writes in the user's name, whatever
\* answers and events are lost, late or out of order.
RoomIsHonest ==
    /\ NothingShownAhead /\ MessagesAreTrue /\ BusyButtonsAwait
    /\ PaidIsNotAskedAgain /\ GreetingKept /\ RightParty
=============================================================================
