-------------------------- MODULE RoomPagesProofs ---------------------------
(***************************************************************************)
(* The trading room with the forms that lead to it, the chat beside it, its *)
(* composer and the socket of the tab, for every number of terms, requests, *)
(* clicks, banks, amounts, messages, files, runs and connections: each part *)
(* has its inductive invariant here, and what is checked of MCRoomPages     *)
(* holds for every value of the constants.                                  *)
(***************************************************************************)
EXTENDS MCRoomPages, WellFoundedInduction, FiniteSetTheorems, SequenceTheorems, TLAPS

-----------------------------------------------------------------------------
(* The inductive invariant.                                                  *)

RoomType == [view : P2POrder \cup {NoOrder}, loading : BOOLEAN, local : OrderStatus \cup {None},
             expired : BOOLEAN, offer : BOOLEAN, modal : BOOLEAN, busy : SUBSET Buttons]
PostType == [st : {"none", "sent", "yes", "no", "left"}, before : P2POrder \cup {NoOrder}]
FetchType == [why : {None, "mount", "event", "reopen"}, st : {"none", "sent", "read"},
              snap : P2POrder \cup {NoOrder}]
OrderType == [status : OrderStatus, prev : OrderStatus \cup {None}, term : Terms, late : BOOLEAN]
TalkType == [with : {None, "order creator", "offer creator"}, auto : Messages \cup {None},
             fresh : BOOLEAN, greet : BOOLEAN, sending : [Messages -> 0..MaxSends],
             delivered : SUBSET Messages]
PartyType == [side : {"SELL", "BUY"}, creator : BOOLEAN]

Working(p) == p.st \in {"sent", "yes", "no"}
Asks(g, why) == g.why = why /\ g.st # "none"
IsBuyer(par) == Role(par.side, par.creator) = "buyer"
RoleIn(par, offer) == Role(IF offer THEN par.side ELSE "SELL", par.creator)

(* The status that an expired order has behind it, and comes back to.        *)
Stage(o) == IF o.status = "EXPIRED" THEN o.prev ELSE o.status
Over(o, ord) == o.term < ord.term \/ ord.late

(* An order that has moved on.                                               *)
Later(o1, p1, o2, p2) ==
    /\ o1.term <= o2.term /\ (p1 => p2) /\ (o1.status = "COMPLETED" => o2.status = "COMPLETED")
    /\ o1.late /\ o1.term = o2.term => o2.late

(* What the service has said of the order at some time, and what the seller's
   page says after his click.                                                *)
Told(o, ord, p) ==
    /\ o \in P2POrder /\ o.status # "CONFIRMED" /\ o.term <= ord.term
    /\ o.status \in {"PENDING", "COMPLETED"} => p
    /\ o.status = "COMPLETED" => ord.status = "COMPLETED"
    /\ o.status = "EXPIRED" => Over(o, ord)
Claimed(o, p) == o \in P2POrder /\ o.status = "CONFIRMED" /\ p
Displayed(v, ord, p, releasing) ==
    \/ v = NoOrder
    \/ Told(v, ord, p)
    \/ Claimed(v, p) /\ (releasing \/ ord.status = "COMPLETED")

OrderInv ==
    /\ Stage(order) \in {"WAITING_TRANSFER", "OPEN", "PENDING", "COMPLETED"}
    /\ paid <=> Stage(order) \in {"PENDING", "COMPLETED"}
    /\ order.status = "EXPIRED" => order.prev # "COMPLETED" /\ order.late
    /\ order.term >= 1

ViewInv ==
    /\ Displayed(room.view, order, paid, Working(post["release"]))
    /\ room.view.status = "EXPIRED" => room.expired
    /\ room.local \in {None, "OPEN", "PENDING", "CONFIRMED"}
    /\ room.local = "PENDING" => paid
    /\ room.local = "CONFIRMED" => order.status = "COMPLETED"

PostInv ==
    /\ post["pay"].st = "yes" => paid
    /\ Working(post["release"]) =>
          paid /\ post["release"].before # NoOrder /\ Displayed(post["release"].before, order, paid, FALSE)
    /\ post["release"].st = "yes" => order.status = "COMPLETED"
    /\ post["reopen"].st = "yes" => party.creator /\ order.term >= 2
    /\ \A k \in Buttons : post[k].st = "left" => unheard
    /\ \A k \in Buttons : Working(post[k]) => ~room.loading

GetInv ==
    /\ \A s \in Fetches : get[s].st = "read" => Told(get[s].snap, order, paid)
    /\ \A s \in Fetches : get[s].st # "none" => get[s].why # None
    /\ \A s, t \in Fetches : Asks(get[s], "mount") /\ Asks(get[t], "mount") => s = t
    /\ \A s \in Fetches : Asks(get[s], "mount") => room.loading
    /\ \A s \in Fetches : Asks(get[s], "reopen") => ~room.loading /\ party.creator /\ order.term >= 2
    /\ \A s \in Fetches : Asks(get[s], "event") => paid
    /\ news > 0 => paid

(* Before the payment: a first reopening is fetched once, and nothing else is;
   until it is, the page knows an expired order.                             *)
ReopenInv ==
    ~paid /\ party.creator =>
        /\ order.term <= 2 =>
              /\ post["reopen"].st = "yes" => /\ room.view.status = "EXPIRED" /\ ~Working(post["pay"])
                                              /\ \A s \in Fetches : ~Asks(get[s], "reopen")
              /\ \A s \in Fetches : Asks(get[s], "reopen") =>
                    room.view.status = "EXPIRED" /\ ~Working(post["pay"])
              /\ \A s, t \in Fetches : Asks(get[s], "reopen") /\ Asks(get[t], "reopen") => s = t
        /\ order.term = 1 /\ post["reopen"].st = "sent" => room.view.status = "EXPIRED"
        /\ order.term = 1 /\ Working(post["pay"]) => room.view.status # "EXPIRED"

(* The buyer: his payment is on its way, or the page has shown it.            *)
BuyerInv ==
    IsBuyer(party) =>
        /\ Working(post["pay"]) => RoleIn(party, room.offer) = "buyer" /\ "pay" \in room.busy
        /\ room.local = "PENDING" => RoleIn(party, room.offer) = "buyer"
        /\ Working(post["release"]) => post["release"].before.status = "PENDING"
        /\ paid /\ ~unheard =>
              /\ \A s \in Fetches : get[s].st = "read" /\ get[s].snap.status = "OPEN" =>
                    get[s].snap.term > 2 \/ get[s].snap.term < order.term
              /\ post["pay"].st # "yes" /\ room.view.status = "OPEN" /\ room.local = None =>
                    room.view.term > 2 \/ (room.expired /\ Over(room.view, order))

(* The chat: its messages are true, the greeting is kept, and it is with the
   other party.                                                              *)
TalkOk(t, ord, p, par) ==
    /\ t \in TalkType
    /\ \A m \in Messages : t.auto = m \/ t.sending[m] > 0 \/ m \in t.delivered =>
          /\ m = "paid" => p
          /\ m = "released" => ord.status = "COMPLETED"
    /\ par.creator /\ ~t.greet => t.delivered # {}
    /\ t.with # None => t.with = IF par.creator THEN "offer creator" ELSE "order creator"
TalkInv == TalkOk(talk, order, paid, party)

BusyInv == \A k \in room.busy : Working(post[k])

RoomInv == /\ RoomTypeOK /\ OrderInv /\ ViewInv /\ PostInv /\ GetInv /\ ReopenInv /\ BuyerInv
           /\ TalkInv /\ BusyInv

-----------------------------------------------------------------------------
(* What the parts of the invariant say of an order that moves on.            *)

LEMMA Bounds ==
    /\ MaxTerms \in Nat /\ MaxTerms >= 1 /\ MaxNews \in Nat
    /\ MaxSends \in Nat /\ MaxSends >= 1 /\ RoomClicks \in Nat
<1>1. MaxTerms \in Nat \ {0} /\ MaxNews \in Nat /\ MaxSends \in Nat \ {0} /\ RoomClicks \in Nat
  BY RoomConstants
<1> QED BY <1>1

LEMMA Distinctions ==
    /\ None \notin OrderStatus /\ None \notin Messages
    /\ None \notin {"mount", "event", "reopen", "order creator", "offer creator"}
    /\ None \notin {"WAITING_TRANSFER", "OPEN", "PENDING", "CONFIRMED", "COMPLETED", "EXPIRED"}
    /\ Fetches # {}
    /\ NoOrder.status = None /\ NoOrder \notin P2POrder
BY RoomConstants DEF NoOrder, P2POrder, OrderStatus, Messages

LEMMA TypesAre ==
    ASSUME RoomTypeOK
    PROVE  /\ room \in RoomType /\ post \in [Buttons -> PostType] /\ get \in [Fetches -> FetchType]
           /\ order \in OrderType /\ talk \in TalkType /\ party \in PartyType
           /\ paid \in BOOLEAN /\ unheard \in BOOLEAN /\ news \in 0..MaxNews /\ taps \in 0..RoomClicks
BY DEF RoomTypeOK, RoomType, PostType, FetchType, OrderType, TalkType, PartyType

LEMMA ToldStays ==
    ASSUME NEW o, NEW o1 \in OrderType, NEW p1, NEW o2 \in OrderType, NEW p2,
           Later(o1, p1, o2, p2), Told(o, o1, p1)
    PROVE  Told(o, o2, p2) /\ (Over(o, o1) => Over(o, o2))
BY Bounds DEF Told, Later, Over, OrderType, Terms, P2POrder

LEMMA DisplayedStays ==
    ASSUME NEW o, NEW o1 \in OrderType, NEW p1, NEW o2 \in OrderType, NEW p2,
           Later(o1, p1, o2, p2), NEW r, Displayed(o, o1, p1, r)
    PROVE  Displayed(o, o2, p2, r)
BY ToldStays DEF Displayed, Claimed, Later

LEMMA TalkStays ==
    ASSUME NEW t, NEW o1, NEW p1, NEW o2, NEW p2, NEW par,
           Later(o1, p1, o2, p2), TalkOk(t, o1, p1, par)
    PROVE  TalkOk(t, o2, p2, par)
BY DEF TalkOk, Later

-----------------------------------------------------------------------------
(* Steps of the order that the page takes no part in.                        *)
LEMMA OrderMoves ==
    ASSUME RoomInv, order' \in OrderType, paid' \in BOOLEAN, OrderInv',
           Later(order, paid, order', paid'),
           news' \in 0..MaxNews, news' > 0 => paid',
           paid' => paid \/ ~IsBuyer(party) \/ unheard,
           party.creator => order'.term = order.term,
           UNCHANGED <<party, room, post, get, talk, unheard, taps>>
    PROVE  RoomInv'
<1>0. /\ room \in RoomType /\ post \in [Buttons -> PostType] /\ get \in [Fetches -> FetchType]
      /\ order \in OrderType /\ talk \in TalkType /\ party \in PartyType
      /\ paid \in BOOLEAN /\ unheard \in BOOLEAN /\ news \in 0..MaxNews /\ taps \in 0..RoomClicks
  BY TypesAre DEF RoomInv
<1>1. RoomTypeOK'
  <2>1. /\ room' \in RoomType /\ post' \in [Buttons -> PostType] /\ get' \in [Fetches -> FetchType]
        /\ order' \in OrderType /\ talk' \in TalkType /\ party' \in PartyType
        /\ paid' \in BOOLEAN /\ unheard' \in BOOLEAN /\ news' \in 0..MaxNews /\ taps' \in 0..RoomClicks
    BY <1>0
  <2> QED BY <2>1 DEF RoomTypeOK, RoomType, PostType, FetchType, OrderType, TalkType, PartyType
<1>l. /\ order.term \in Nat /\ order'.term \in Nat /\ order.term <= order'.term
      /\ order.status = "COMPLETED" => order'.status = "COMPLETED"
      /\ paid => paid'
  BY <1>0, Bounds DEF OrderType, Terms, Later
<1>2. ViewInv'
  <2>1. Displayed(room.view, order', paid', Working(post["release"]))
    BY <1>0, DisplayedStays DEF RoomInv, ViewInv
  <2> QED BY <1>l, <2>1 DEF RoomInv, ViewInv
<1>3. PostInv'
  <2>1. Working(post["release"]) => Displayed(post["release"].before, order', paid', FALSE)
    BY <1>0, DisplayedStays DEF RoomInv, PostInv
  <2> QED BY <1>l, <2>1 DEF RoomInv, PostInv
<1>4. GetInv'
  <2>1. \A s \in Fetches : get[s].st = "read" => Told(get[s].snap, order', paid')
    BY <1>0, ToldStays DEF RoomInv, GetInv
  <2> QED BY <1>l, <2>1 DEF RoomInv, GetInv
<1>5. ReopenInv'
  BY <1>l DEF RoomInv, ReopenInv
<1>6. BuyerInv'
  <2>1. ASSUME IsBuyer(party), paid', ~unheard PROVE paid
    BY <1>0, <2>1
  <2>2. ASSUME IsBuyer(party), paid, ~unheard, NEW s \in Fetches, get[s].st = "read", get[s].snap.status = "OPEN"
        PROVE  get[s].snap.term > 2 \/ get[s].snap.term < order'.term
    <3>1. get[s].snap.term > 2 \/ get[s].snap.term < order.term
      BY <2>2 DEF RoomInv, BuyerInv
    <3>2. get[s].snap.term \in Nat
      BY <2>2, Bounds DEF RoomInv, GetInv, Told, P2POrder, Terms
    <3> QED BY <1>l, <3>1, <3>2
  <2>3. ASSUME IsBuyer(party), paid, ~unheard,
               post["pay"].st # "yes", room.view.status = "OPEN", room.local = None
        PROVE  room.view.term > 2 \/ (room.expired /\ Over(room.view, order'))
    <3>1. room.view.term > 2 \/ (room.expired /\ Over(room.view, order))
      BY <2>3 DEF RoomInv, BuyerInv
    <3>2. Told(room.view, order, paid)
      BY <2>3, Distinctions DEF RoomInv, ViewInv, Displayed, Claimed
    <3> QED BY <1>0, <3>1, <3>2, ToldStays
  <2> QED BY <2>1, <2>2, <2>3 DEF RoomInv, BuyerInv
<1>7. TalkInv'
  BY TalkStays DEF RoomInv, TalkInv
<1>8. BusyInv'
  BY DEF RoomInv, BusyInv
<1> QED BY <1>1, <1>2, <1>3, <1>4, <1>5, <1>6, <1>7, <1>8 DEF RoomInv

(* What the service does to the order when it confirms or reopens it.        *)
LEMMA ServiceConfirms ==
    ASSUME order \in OrderType, OrderInv, paid \in BOOLEAN, news \in 0..MaxNews,
           NEW role, Confirmable(role), Confirmed(role)
    PROVE  /\ OrderInv' /\ Later(order, paid, order', paid') /\ paid' = TRUE
           /\ order' \in OrderType /\ order'.term = order.term /\ news' \in 0..MaxNews
           /\ role # "buyer" => paid /\ order'.status = "COMPLETED"
           /\ role = "buyer" => ~paid
<1>0. /\ order.status \in OrderStatus /\ order.prev \in OrderStatus \cup {None}
      /\ order.term \in Nat /\ order.late \in BOOLEAN
  BY Bounds DEF OrderType, Terms
<1>1. /\ ~order.late /\ order.status = (IF role = "buyer" THEN "OPEN" ELSE "PENDING")
      /\ order' = [order EXCEPT !.status = IF role = "buyer" THEN "PENDING" ELSE "COMPLETED"]
      /\ paid' = TRUE /\ Notified
  BY DEF Confirmable, Confirmed
<1>2. /\ order' \in OrderType /\ order'.status = (IF role = "buyer" THEN "PENDING" ELSE "COMPLETED")
      /\ order'.term = order.term /\ order'.late = order.late
  BY <1>0, <1>1 DEF OrderType, OrderStatus
<1>3. news' \in 0..MaxNews
  BY <1>1, Bounds DEF Notified
<1>4. OrderInv' /\ Later(order, paid, order', paid')
  BY <1>0, <1>1, <1>2 DEF OrderInv, Later, Stage
<1> QED BY <1>1, <1>2, <1>3, <1>4 DEF OrderInv, Stage

LEMMA ServiceReopens ==
    ASSUME order \in OrderType, OrderInv, Reopenable, Reopened
    PROVE  /\ OrderInv' /\ Later(order, paid, order', paid') /\ paid' = paid
           /\ order' \in OrderType /\ news' = news /\ order'.term = order.term + 1 /\ order'.term >= 2
<1>0. /\ order.status \in OrderStatus /\ order.prev \in OrderStatus \cup {None}
      /\ order.term \in Nat /\ order.late \in BOOLEAN /\ MaxTerms \in Nat /\ order.term >= 1
  BY Bounds DEF OrderType, Terms, OrderInv
<1>1. /\ order.status = "EXPIRED" /\ order.term < MaxTerms
      /\ order' = [status |-> order.prev, prev |-> order.status, term |-> order.term + 1, late |-> FALSE]
      /\ UNCHANGED <<paid, news>>
  BY DEF Reopenable, Reopened
<1>2. order.prev \in {"WAITING_TRANSFER", "OPEN", "PENDING"}
  BY <1>1 DEF OrderInv, Stage
<1>3. order' \in OrderType /\ order'.status = order.prev /\ order'.term = order.term + 1
  BY <1>0, <1>1, <1>2 DEF OrderType, OrderStatus, Terms
<1>4. OrderInv' /\ Later(order, paid, order', paid')
  BY <1>0, <1>1, <1>2, <1>3 DEF OrderInv, Later, Stage
<1> QED BY <1>0, <1>1, <1>3, <1>4

LEMMA OrderSteps ==
    ASSUME RoomInv, ExpiryPasses \/ CancelExpiredOrders \/ EscrowSettled \/ PeerActs
    PROVE  RoomInv'
<1>0. /\ order \in OrderType /\ party \in PartyType /\ paid \in BOOLEAN /\ news \in 0..MaxNews
      /\ order.status \in OrderStatus /\ order.prev \in OrderStatus \cup {None}
      /\ order.term \in Nat /\ order.term <= MaxTerms /\ order.late \in BOOLEAN
      /\ MaxTerms \in Nat /\ OrderInv /\ (news > 0 => paid)
  BY TypesAre, Bounds DEF RoomInv, OrderType, Terms, GetInv
<1>1. CASE ExpiryPasses
  <2>1. /\ order' = [order EXCEPT !.late = TRUE]
        /\ UNCHANGED <<party, paid, room, post, get, news, talk, unheard, taps>>
    BY <1>1 DEF ExpiryPasses
  <2>2. /\ order' \in OrderType /\ order'.status = order.status /\ order'.prev = order.prev
        /\ order'.term = order.term /\ order'.late = TRUE
    BY <1>0, <2>1 DEF OrderType
  <2>3. OrderInv' /\ Later(order, paid, order', paid')
    BY <1>0, <2>1, <2>2 DEF OrderInv, Later, Stage
  <2> QED BY <1>0, <2>1, <2>2, <2>3, OrderMoves
<1>2. CASE CancelExpiredOrders
  <2>1. /\ order.late /\ order.status \in {"WAITING_TRANSFER", "OPEN", "PENDING"}
        /\ order' = [order EXCEPT !.status = "EXPIRED", !.prev = order.status]
        /\ UNCHANGED <<party, paid, room, post, get, news, talk, unheard, taps>>
    BY <1>2 DEF CancelExpiredOrders
  <2>2. /\ order' \in OrderType /\ order'.status = "EXPIRED" /\ order'.prev = order.status
        /\ order'.term = order.term /\ order'.late = order.late
    BY <1>0, <2>1 DEF OrderType, OrderStatus
  <2>3. OrderInv' /\ Later(order, paid, order', paid')
    BY <1>0, <2>1, <2>2 DEF OrderInv, Later, Stage
  <2> QED BY <1>0, <2>1, <2>2, <2>3, OrderMoves
<1>3. CASE EscrowSettled
  <2>1. /\ order.status = "WAITING_TRANSFER" /\ order' = [order EXCEPT !.status = "OPEN"]
        /\ UNCHANGED <<party, paid, room, post, get, news, talk, unheard, taps>>
    BY <1>3 DEF EscrowSettled
  <2>2. /\ order' \in OrderType /\ order'.status = "OPEN" /\ order'.prev = order.prev
        /\ order'.term = order.term /\ order'.late = order.late
    BY <1>0, <2>1 DEF OrderType, OrderStatus
  <2>3. OrderInv' /\ Later(order, paid, order', paid')
    BY <1>0, <2>1, <2>2 DEF OrderInv, Later, Stage
  <2> QED BY <1>0, <2>1, <2>2, <2>3, OrderMoves
<1>4. CASE PeerActs
  <2>0. UNCHANGED <<party, room, post, get, talk, unheard, taps>>
    BY <1>4 DEF PeerActs
  <2>1. CASE Confirmable(PeerRole) /\ Confirmed(PeerRole)
    <3>1. /\ OrderInv' /\ Later(order, paid, order', paid') /\ paid' = TRUE
          /\ order' \in OrderType /\ order'.term = order.term /\ news' \in 0..MaxNews
          /\ PeerRole = "seller" => paid
      BY <1>0, <2>1, ServiceConfirms
    <3>2. IsBuyer(party) => PeerRole = "seller"
      BY <1>0 DEF IsBuyer, PeerRole, Role, PartyType
    <3> QED BY <1>0, <2>0, <3>1, <3>2, OrderMoves
  <2>2. CASE ~party.creator /\ Reopenable /\ Reopened
    <3>1. /\ OrderInv' /\ Later(order, paid, order', paid') /\ paid' = paid
          /\ order' \in OrderType /\ news' = news
      BY <1>0, <2>2, ServiceReopens
    <3> QED BY <1>0, <2>0, <2>2, <3>1, OrderMoves
  <2> QED BY <1>4, <2>1, <2>2 DEF PeerActs
<1> QED BY <1>1, <1>2, <1>3, <1>4

-----------------------------------------------------------------------------
(* Steps of the service and of the network with a POST of the room.          *)
LEMMA PostMoves ==
    ASSUME RoomInv, order' \in OrderType, paid' \in BOOLEAN, OrderInv',
           Later(order, paid, order', paid'),
           news' \in 0..MaxNews, news' > 0 => paid',
           post' \in [Buttons -> PostType], unheard' \in BOOLEAN, unheard => unheard',
           UNCHANGED <<party, room, get, talk, taps>>,
           \A k \in Buttons : /\ Working(post'[k]) <=> Working(post[k])
                              /\ Working(post[k]) => post'[k].before = post[k].before
                              /\ post'[k].st = "left" => post[k].st = "left",
           post'["pay"].st = "yes" => paid',
           post'["release"].st = "yes" => order'.status = "COMPLETED",
           post'["reopen"].st = "yes" => party.creator /\ order'.term >= 2,
           paid' => paid \/ ~IsBuyer(party) \/ unheard' \/ post'["pay"].st = "yes",
           post["pay"].st = "yes" => post'["pay"].st = "yes" \/ unheard',
           ReopenInv'
    PROVE  RoomInv'
<1>0. /\ room \in RoomType /\ get \in [Fetches -> FetchType] /\ post \in [Buttons -> PostType]
      /\ order \in OrderType /\ talk \in TalkType /\ party \in PartyType
      /\ paid \in BOOLEAN /\ unheard \in BOOLEAN /\ taps \in 0..RoomClicks
  BY TypesAre DEF RoomInv
<1>b. "pay" \in Buttons /\ "release" \in Buttons /\ "reopen" \in Buttons
  BY DEF Buttons
<1>1. RoomTypeOK'
  <2>1. /\ room' \in RoomType /\ post' \in [Buttons -> PostType] /\ get' \in [Fetches -> FetchType]
        /\ order' \in OrderType /\ talk' \in TalkType /\ party' \in PartyType
        /\ paid' \in BOOLEAN /\ unheard' \in BOOLEAN /\ news' \in 0..MaxNews /\ taps' \in 0..RoomClicks
    BY <1>0
  <2> QED BY <2>1 DEF RoomTypeOK, RoomType, PostType, FetchType, OrderType, TalkType, PartyType
<1>l. /\ order.term \in Nat /\ order'.term \in Nat /\ order.term <= order'.term
      /\ order.status = "COMPLETED" => order'.status = "COMPLETED"
      /\ paid => paid'
  BY <1>0, Bounds DEF OrderType, Terms, Later
<1>r. Working(post'["release"]) <=> Working(post["release"])
  BY <1>b
<1>2. ViewInv'
  <2>1. Displayed(room.view, order', paid', Working(post["release"]))
    BY <1>0, DisplayedStays DEF RoomInv, ViewInv
  <2>2. Displayed(room.view, order', paid', Working(post'["release"]))
    BY <1>r, <2>1 DEF Displayed
  <2> QED BY <1>l, <2>2 DEF RoomInv, ViewInv
<1>3. PostInv'
  <2>1. Working(post["release"]) => Displayed(post["release"].before, order', paid', FALSE)
    BY <1>0, DisplayedStays DEF RoomInv, PostInv
  <2>2. Working(post'["release"]) =>
            paid' /\ post'["release"].before # NoOrder /\ Displayed(post'["release"].before, order', paid', FALSE)
    <3>1. ASSUME Working(post'["release"])
          PROVE  paid' /\ post'["release"].before # NoOrder
                 /\ Displayed(post'["release"].before, order', paid', FALSE)
      <4>1. Working(post["release"]) /\ post'["release"].before = post["release"].before
        BY <1>b, <3>1
      <4> QED BY <1>l, <2>1, <4>1 DEF RoomInv, PostInv
    <3> QED BY <3>1
  <2>3. \A k \in Buttons : post'[k].st = "left" => unheard'
    BY DEF RoomInv, PostInv
  <2>4. \A k \in Buttons : Working(post'[k]) => ~room'.loading
    BY DEF RoomInv, PostInv
  <2> QED BY <2>2, <2>3, <2>4 DEF PostInv
<1>4. GetInv'
  <2>1. \A s \in Fetches : get[s].st = "read" => Told(get[s].snap, order', paid')
    BY <1>0, ToldStays DEF RoomInv, GetInv
  <2> QED BY <1>l, <2>1 DEF RoomInv, GetInv
<1>6. BuyerInv'
  <2> SUFFICES ASSUME IsBuyer(party) PROVE BuyerInv'
    BY DEF BuyerInv
  <2>1. Working(post'["pay"]) => RoleIn(party, room.offer) = "buyer" /\ "pay" \in room.busy
    BY <1>b DEF RoomInv, BuyerInv
  <2>2. room.local = "PENDING" => RoleIn(party, room.offer) = "buyer"
    BY DEF RoomInv, BuyerInv
  <2>3. Working(post'["release"]) => post'["release"].before.status = "PENDING"
    BY <1>b DEF RoomInv, BuyerInv
  <2>4. ASSUME paid', ~unheard', NEW s \in Fetches, get[s].st = "read", get[s].snap.status = "OPEN"
        PROVE  get[s].snap.term > 2 \/ get[s].snap.term < order'.term
    <3>1. /\ Told(get[s].snap, order, paid) /\ get[s].snap.term \in Nat
          /\ get[s].snap.term <= order.term
      BY <2>4, Bounds DEF RoomInv, GetInv, Told, P2POrder, Terms
    <3>2. CASE paid
      <4>1. get[s].snap.term > 2 \/ get[s].snap.term < order.term
        BY <2>4, <3>2 DEF RoomInv, BuyerInv
      <4> QED BY <1>l, <3>1, <4>1
    <3>3. CASE ~paid
      <4>1. Working(post["pay"]) /\ ~room.loading
        <5>1. post'["pay"].st = "yes"
          BY <2>4, <3>3
        <5>2. Working(post'["pay"])
          BY <5>1 DEF Working
        <5> QED BY <1>b, <5>2 DEF RoomInv, PostInv
      <4>2. get[s].why \in {"mount", "event", "reopen"} /\ get[s].st # "none"
        BY <1>0, <2>4 DEF RoomInv, GetInv, FetchType
      <4>3. Asks(get[s], "reopen")
        BY <2>4, <3>3, <4>1, <4>2 DEF RoomInv, GetInv, Asks
      <4>4. ~(order.term <= 2)
        BY <3>3, <4>1, <4>3 DEF RoomInv, ReopenInv, GetInv
      <4> QED BY <1>l, <3>1, <4>4
    <3> QED BY <3>2, <3>3
  <2>5. ASSUME paid', ~unheard', post'["pay"].st # "yes", room.view.status = "OPEN", room.local = None
        PROVE  room.view.term > 2 \/ (room.expired /\ Over(room.view, order'))
    <3>0. paid /\ ~unheard /\ post["pay"].st # "yes"
      BY <2>5
    <3>1. room.view.term > 2 \/ (room.expired /\ Over(room.view, order))
      BY <2>5, <3>0 DEF RoomInv, BuyerInv
    <3>2. Told(room.view, order, paid)
      BY <2>5, Distinctions DEF RoomInv, ViewInv, Displayed, Claimed
    <3> QED BY <1>0, <3>1, <3>2, ToldStays
  <2> QED BY <2>5, <2>1, <2>2, <2>3, <2>4 DEF BuyerInv
<1>7. TalkInv'
  BY TalkStays DEF RoomInv, TalkInv
<1>8. BusyInv'
  <2>1. room.busy \subseteq Buttons
    BY <1>0 DEF RoomType
  <2> QED BY <2>1 DEF RoomInv, BusyInv
<1> QED BY <1>1, <1>2, <1>3, <1>4, <1>6, <1>7, <1>8 DEF RoomInv

(* The answer to a POST is settled, the order keeps its term.                *)
LEMMA ReopenKept ==
    ASSUME RoomInv, order'.term = order.term, paid => paid', paid \in BOOLEAN, paid' \in BOOLEAN,
           UNCHANGED <<party, room, get>>,
           Working(post'["pay"]) <=> Working(post["pay"]),
           post'["reopen"].st = "yes" => post["reopen"].st = "yes",
           post'["reopen"].st = "sent" => post["reopen"].st = "sent"
    PROVE  ReopenInv'
BY DEF RoomInv, ReopenInv

LEMMA AnswerIs ==
    ASSUME post \in [Buttons -> PostType], NEW k \in Buttons, NEW st \in {"yes", "no"}, Answered(k, st)
    PROVE  /\ post' \in [Buttons -> PostType] /\ post'[k].st = st /\ post'[k].before = post[k].before
           /\ \A b \in Buttons \ {k} : post'[b] = post[b]
BY DEF Answered, PostType

LEMMA ConfirmStep ==
    ASSUME RoomInv, NEW k \in Buttons, ConfirmOrder(k)
    PROVE  RoomInv'
<1>0. /\ order \in OrderType /\ post \in [Buttons -> PostType] /\ party \in PartyType
      /\ paid \in BOOLEAN /\ unheard \in BOOLEAN /\ news \in 0..MaxNews /\ OrderInv
      /\ (news > 0 => paid) /\ order.term \in Nat
  BY TypesAre, Bounds DEF RoomInv, GetInv, OrderType, Terms
<1>1. k \in {"pay", "release"} /\ post[k].st = "sent" /\ UNCHANGED <<party, room, get, talk, unheard, taps>>
  BY DEF ConfirmOrder
<1>b. "pay" \in Buttons /\ "release" \in Buttons /\ "reopen" \in Buttons
  BY DEF Buttons
<1>p. post["pay"].st = "yes" => paid
  BY DEF RoomInv, PostInv
<1>q. post["release"].st = "yes" => order.status = "COMPLETED"
  BY DEF RoomInv, PostInv
<1>r. post["reopen"].st = "yes" => party.creator /\ order.term >= 2
  BY DEF RoomInv, PostInv
<1>2. CASE Confirmable(TrueRole) /\ Confirmed(TrueRole) /\ Answered(k, "yes")
  <2>1. /\ OrderInv' /\ Later(order, paid, order', paid') /\ paid' = TRUE
        /\ order' \in OrderType /\ order'.term = order.term /\ news' \in 0..MaxNews
        /\ TrueRole # "buyer" => paid /\ order'.status = "COMPLETED"
        /\ TrueRole = "buyer" => ~paid
    BY <1>0, <1>2, ServiceConfirms
  <2>2. /\ post' \in [Buttons -> PostType] /\ post'[k].st = "yes" /\ post'[k].before = post[k].before
        /\ \A b \in Buttons \ {k} : post'[b] = post[b]
    BY <1>0, <1>2, AnswerIs
  <2>3. \A b \in Buttons : /\ Working(post'[b]) <=> Working(post[b])
                           /\ Working(post[b]) => post'[b].before = post[b].before
                           /\ post'[b].st = "left" => post[b].st = "left"
    BY <1>1, <2>2 DEF Working
  <2>4. k = "release" => order'.status = "COMPLETED"
    <3>1. Working(post[k])
      BY <1>1 DEF Working
    <3>2. k = "release" => paid
      BY <3>1 DEF RoomInv, PostInv
    <3> QED BY <2>1, <3>2
  <2>5. TrueRole = "buyer" => k = "pay"
    <3>1. Working(post[k])
      BY <1>1 DEF Working
    <3>2. k = "release" => paid
      BY <3>1 DEF RoomInv, PostInv
    <3> QED BY <1>1, <2>1, <3>2
  <2>6. TrueRole = "buyer" <=> IsBuyer(party)
    BY DEF TrueRole, IsBuyer
  <2>7. /\ post'["release"].st = "yes" => order'.status = "COMPLETED"
        /\ post'["reopen"].st = "yes" => party.creator /\ order'.term >= 2
        /\ paid => paid'
        /\ paid' => paid \/ ~IsBuyer(party) \/ unheard' \/ post'["pay"].st = "yes"
        /\ post["pay"].st = "yes" => post'["pay"].st = "yes" \/ unheard'
    BY <1>1, <1>b, <1>q, <1>r, <2>1, <2>2, <2>4, <2>5, <2>6 DEF Later
  <2>8. /\ Working(post'["pay"]) <=> Working(post["pay"])
        /\ post'["reopen"].st = "yes" => post["reopen"].st = "yes"
        /\ post'["reopen"].st = "sent" => post["reopen"].st = "sent"
    BY <1>1, <1>b, <2>2, <2>3
  <2>9. ReopenInv'
    BY <1>0, <1>1, <2>1, <2>8, ReopenKept
  <2> QED BY <1>0, <1>1, <2>1, <2>2, <2>3, <2>7, <2>9, PostMoves
<1>3. CASE Answered(k, "no") /\ UNCHANGED <<order, paid, news>>
  <2>1. OrderInv' /\ Later(order, paid, order', paid')
    BY <1>0, <1>3 DEF Later, OrderInv, Stage
  <2>2. /\ post' \in [Buttons -> PostType] /\ post'[k].st = "no" /\ post'[k].before = post[k].before
        /\ \A b \in Buttons \ {k} : post'[b] = post[b]
    BY <1>0, <1>3, AnswerIs
  <2>3. \A b \in Buttons : /\ Working(post'[b]) <=> Working(post[b])
                           /\ Working(post[b]) => post'[b].before = post[b].before
                           /\ post'[b].st = "left" => post[b].st = "left"
    BY <1>1, <2>2 DEF Working
  <2>7. /\ post'["pay"].st = "yes" => paid'
        /\ post'["release"].st = "yes" => order'.status = "COMPLETED"
        /\ post'["reopen"].st = "yes" => party.creator /\ order'.term >= 2
        /\ post["pay"].st = "yes" => post'["pay"].st = "yes" \/ unheard'
    BY <1>1, <1>3, <1>b, <1>p, <1>q, <1>r, <2>2
  <2>8. /\ Working(post'["pay"]) <=> Working(post["pay"])
        /\ post'["reopen"].st = "yes" => post["reopen"].st = "yes"
        /\ post'["reopen"].st = "sent" => post["reopen"].st = "sent"
    BY <1>1, <1>b, <2>2, <2>3
  <2>9. ReopenInv'
    BY <1>0, <1>1, <1>3, <2>8, ReopenKept
  <2> QED BY <1>0, <1>1, <1>3, <2>1, <2>2, <2>3, <2>7, <2>9, PostMoves
<1> QED BY <1>2, <1>3 DEF ConfirmOrder

LEMMA ReopenStep ==
    ASSUME RoomInv, ReopenOrder
    PROVE  RoomInv'
<1>0. /\ order \in OrderType /\ post \in [Buttons -> PostType] /\ party \in PartyType
      /\ paid \in BOOLEAN /\ unheard \in BOOLEAN /\ news \in 0..MaxNews /\ OrderInv
      /\ (news > 0 => paid) /\ order.term \in Nat
  BY TypesAre, Bounds DEF RoomInv, GetInv, OrderType, Terms
<1>1. post["reopen"].st = "sent" /\ UNCHANGED <<party, room, get, talk, unheard, taps>>
  BY DEF ReopenOrder
<1>b. "pay" \in Buttons /\ "release" \in Buttons /\ "reopen" \in Buttons
  BY DEF Buttons
<1>p. /\ post["pay"].st = "yes" => paid
      /\ post["release"].st = "yes" => order.status = "COMPLETED"
  BY DEF RoomInv, PostInv
<1>2. CASE party.creator /\ Reopenable /\ Reopened /\ Answered("reopen", "yes")
  <2>1. /\ OrderInv' /\ Later(order, paid, order', paid') /\ paid' = paid
        /\ order' \in OrderType /\ news' = news /\ order'.term = order.term + 1 /\ order'.term >= 2
    BY <1>0, <1>2, ServiceReopens
  <2>2. /\ post' \in [Buttons -> PostType] /\ post'["reopen"].st = "yes"
        /\ post'["reopen"].before = post["reopen"].before
        /\ \A b \in Buttons \ {"reopen"} : post'[b] = post[b]
    BY <1>0, <1>2, <1>b, AnswerIs
  <2>3. \A b \in Buttons : /\ Working(post'[b]) <=> Working(post[b])
                           /\ Working(post[b]) => post'[b].before = post[b].before
                           /\ post'[b].st = "left" => post[b].st = "left"
    BY <1>1, <2>2 DEF Working
  <2>4. post'["pay"] = post["pay"] /\ post'["release"] = post["release"]
    BY <1>b, <2>2
  <2>5. ReopenInv'
    <3>1. ASSUME ~paid, order.term + 1 <= 2
          PROVE  /\ room.view.status = "EXPIRED" /\ ~Working(post["pay"])
                 /\ \A s \in Fetches : ~Asks(get[s], "reopen")
      <4>1. order.term = 1
        BY <1>0, <3>1 DEF OrderInv
      <4>2. room.view.status = "EXPIRED" /\ ~Working(post["pay"])
        BY <1>1, <1>2, <3>1, <4>1 DEF RoomInv, ReopenInv
      <4>3. \A s \in Fetches : ~Asks(get[s], "reopen")
        BY <4>1 DEF RoomInv, GetInv
      <4> QED BY <4>2, <4>3
    <3>2. order'.term # 1
      BY <1>0, <2>1
    <3> QED BY <1>1, <2>1, <2>4, <3>1, <3>2 DEF ReopenInv
  <2>6. order'.status = "COMPLETED" \/ order.status # "COMPLETED"
    BY <2>1 DEF Later
  <2> QED BY <1>0, <1>1, <1>2, <1>p, <2>1, <2>2, <2>3, <2>4, <2>5, <2>6, PostMoves
<1>3. CASE Answered("reopen", "no") /\ UNCHANGED <<order, paid, news>>
  <2>1. OrderInv' /\ Later(order, paid, order', paid')
    BY <1>0, <1>3 DEF Later, OrderInv, Stage
  <2>2. /\ post' \in [Buttons -> PostType] /\ post'["reopen"].st = "no"
        /\ post'["reopen"].before = post["reopen"].before
        /\ \A b \in Buttons \ {"reopen"} : post'[b] = post[b]
    BY <1>0, <1>3, <1>b, AnswerIs
  <2>3. \A b \in Buttons : /\ Working(post'[b]) <=> Working(post[b])
                           /\ Working(post[b]) => post'[b].before = post[b].before
                           /\ post'[b].st = "left" => post[b].st = "left"
    BY <1>1, <2>2 DEF Working
  <2>4. post'["pay"] = post["pay"] /\ post'["release"] = post["release"]
    BY <1>b, <2>2
  <2>5. ReopenInv'
    BY <1>0, <1>1, <1>3, <2>2, <2>4, ReopenKept
  <2> QED BY <1>0, <1>1, <1>3, <1>p, <2>1, <2>2, <2>3, <2>4, <2>5, PostMoves
<1> QED BY <1>2, <1>3 DEF ReopenOrder

LEMMA LostStep ==
    ASSUME RoomInv, NEW k \in Buttons, PostLost(k)
    PROVE  RoomInv'
<1>0. /\ order \in OrderType /\ post \in [Buttons -> PostType] /\ party \in PartyType
      /\ paid \in BOOLEAN /\ unheard \in BOOLEAN /\ news \in 0..MaxNews /\ OrderInv
      /\ (news > 0 => paid) /\ order.term \in Nat
  BY TypesAre, Bounds DEF RoomInv, GetInv, OrderType, Terms
<1>b. "pay" \in Buttons /\ "release" \in Buttons /\ "reopen" \in Buttons
  BY DEF Buttons
<1>p. /\ post["pay"].st = "yes" => paid
      /\ post["release"].st = "yes" => order.status = "COMPLETED"
      /\ post["reopen"].st = "yes" => party.creator /\ order.term >= 2
  BY DEF RoomInv, PostInv
<1>1. /\ post[k].st \in {"sent", "yes"} /\ Answered(k, "no")
      /\ unheard' = (unheard \/ post[k].st = "yes")
      /\ UNCHANGED <<party, order, paid, room, get, news, talk, taps>>
  BY DEF PostLost
<1>2. unheard' \in BOOLEAN /\ (unheard => unheard') /\ (post[k].st = "yes" => unheard')
  BY <1>0, <1>1
<1>3. /\ post' \in [Buttons -> PostType] /\ post'[k].st = "no" /\ post'[k].before = post[k].before
      /\ \A b \in Buttons \ {k} : post'[b] = post[b]
  BY <1>0, <1>1, AnswerIs
<1>4. \A b \in Buttons : /\ Working(post'[b]) <=> Working(post[b])
                         /\ Working(post[b]) => post'[b].before = post[b].before
                         /\ post'[b].st = "left" => post[b].st = "left"
                         /\ post'[b].st = "yes" => post[b].st = "yes"
                         /\ post'[b].st = "sent" => post[b].st = "sent"
                         /\ post[b].st = "yes" => post'[b].st = "yes" \/ unheard'
  BY <1>1, <1>2, <1>3 DEF Working
<1>5. OrderInv' /\ Later(order, paid, order', paid')
  BY <1>0, <1>1 DEF Later, OrderInv, Stage
<1>6. /\ Working(post'["pay"]) <=> Working(post["pay"])
      /\ post'["reopen"].st = "yes" => post["reopen"].st = "yes"
      /\ post'["reopen"].st = "sent" => post["reopen"].st = "sent"
      /\ post'["pay"].st = "yes" => post["pay"].st = "yes"
      /\ post'["release"].st = "yes" => post["release"].st = "yes"
      /\ post["pay"].st = "yes" => post'["pay"].st = "yes" \/ unheard'
  BY <1>b, <1>4
<1>7. ReopenInv'
  BY <1>0, <1>1, <1>6, ReopenKept
<1>8. \A b \in Buttons : /\ Working(post'[b]) <=> Working(post[b])
                         /\ Working(post[b]) => post'[b].before = post[b].before
                         /\ post'[b].st = "left" => post[b].st = "left"
  BY <1>4
<1> QED BY <1>0, <1>1, <1>2, <1>3, <1>5, <1>6, <1>7, <1>8, <1>p, PostMoves

LEMMA LeftServedStep ==
    ASSUME RoomInv, LeftPostServed
    PROVE  RoomInv'
<1>0. /\ order \in OrderType /\ post \in [Buttons -> PostType] /\ party \in PartyType
      /\ paid \in BOOLEAN /\ unheard \in BOOLEAN /\ news \in 0..MaxNews /\ OrderInv
      /\ (news > 0 => paid) /\ order.term \in Nat
  BY TypesAre, Bounds DEF RoomInv, GetInv, OrderType, Terms
<1>b. "pay" \in Buttons /\ "release" \in Buttons /\ "reopen" \in Buttons
  BY DEF Buttons
<1>p. /\ post["pay"].st = "yes" => paid
      /\ post["release"].st = "yes" => order.status = "COMPLETED"
      /\ post["reopen"].st = "yes" => party.creator /\ order.term >= 2
  BY DEF RoomInv, PostInv
<1>1. UNCHANGED <<party, room, get, talk, unheard, taps>>
  BY DEF LeftPostServed
<1>n. NoPost \in PostType /\ NoPost.st = "none"
  BY DEF NoPost, PostType
<1>2. ASSUME NEW k \in Buttons, post[k].st = "left", post' = [post EXCEPT ![k] = NoPost]
      PROVE  /\ post' \in [Buttons -> PostType] /\ unheard
             /\ \A b \in Buttons : /\ Working(post'[b]) <=> Working(post[b])
                                   /\ Working(post[b]) => post'[b].before = post[b].before
                                   /\ post'[b].st = "left" => post[b].st = "left"
             /\ \A b \in Buttons : /\ post'[b].st = "yes" => post[b].st = "yes"
                                   /\ post'[b].st = "sent" => post[b].st = "sent"
                                   /\ post[b].st = "yes" => post'[b].st = "yes"
  <2>1. unheard
    BY <1>2 DEF RoomInv, PostInv
  <2>2. post'[k] = NoPost /\ post' \in [Buttons -> PostType] /\ \A b \in Buttons \ {k} : post'[b] = post[b]
    BY <1>0, <1>2, <1>n
  <2> QED BY <1>2, <1>n, <2>1, <2>2 DEF Working
<1>3. CASE /\ \E k \in {"pay", "release"} : post[k].st = "left" /\ post' = [post EXCEPT ![k] = NoPost]
           /\ Confirmable(TrueRole) /\ Confirmed(TrueRole)
  <2>1. PICK k \in Buttons : post[k].st = "left" /\ post' = [post EXCEPT ![k] = NoPost]
    BY <1>3, <1>b
  <2>2. /\ post' \in [Buttons -> PostType] /\ unheard
        /\ \A b \in Buttons : /\ Working(post'[b]) <=> Working(post[b])
                              /\ Working(post[b]) => post'[b].before = post[b].before
                              /\ post'[b].st = "left" => post[b].st = "left"
        /\ \A b \in Buttons : /\ post'[b].st = "yes" => post[b].st = "yes"
                              /\ post'[b].st = "sent" => post[b].st = "sent"
                              /\ post[b].st = "yes" => post'[b].st = "yes"
    BY <1>2, <2>1
  <2>3. /\ OrderInv' /\ Later(order, paid, order', paid') /\ paid' = TRUE
        /\ order' \in OrderType /\ order'.term = order.term /\ news' \in 0..MaxNews
    BY <1>0, <1>3, ServiceConfirms
  <2>4. /\ Working(post'["pay"]) <=> Working(post["pay"])
        /\ post'["reopen"].st = "yes" => post["reopen"].st = "yes"
        /\ post'["reopen"].st = "sent" => post["reopen"].st = "sent"
        /\ post'["release"].st = "yes" => post["release"].st = "yes"
        /\ post["pay"].st = "yes" => post'["pay"].st = "yes"
    BY <1>b, <2>2
  <2>5. ReopenInv'
    BY <1>0, <1>1, <2>3, <2>4, ReopenKept
  <2>6. order.status = "COMPLETED" => order'.status = "COMPLETED"
    BY <2>3 DEF Later
  <2> QED BY <1>0, <1>1, <1>p, <2>2, <2>3, <2>4, <2>5, <2>6, PostMoves
<1>4. CASE /\ post["reopen"].st = "left" /\ post' = [post EXCEPT !["reopen"] = NoPost]
           /\ party.creator /\ Reopenable /\ Reopened
  <2>2. /\ post' \in [Buttons -> PostType] /\ unheard
        /\ \A b \in Buttons : /\ Working(post'[b]) <=> Working(post[b])
                              /\ Working(post[b]) => post'[b].before = post[b].before
                              /\ post'[b].st = "left" => post[b].st = "left"
        /\ \A b \in Buttons : /\ post'[b].st = "yes" => post[b].st = "yes"
                              /\ post'[b].st = "sent" => post[b].st = "sent"
                              /\ post[b].st = "yes" => post'[b].st = "yes"
    BY <1>2, <1>4, <1>b
  <2>3. /\ OrderInv' /\ Later(order, paid, order', paid') /\ paid' = paid
        /\ order' \in OrderType /\ news' = news /\ order'.term = order.term + 1 /\ order'.term >= 2
    BY <1>0, <1>4, ServiceReopens
  <2>4. /\ Working(post'["pay"]) <=> Working(post["pay"])
        /\ post'["pay"].st = "yes" => post["pay"].st = "yes"
        /\ post'["release"].st = "yes" => post["release"].st = "yes"
        /\ post["pay"].st = "yes" => post'["pay"].st = "yes"
    BY <1>b, <2>2
  <2>5. post'["reopen"].st = "none"
    BY <1>0, <1>4, <1>b, <1>n
  <2>6. ReopenInv'
    <3>1. \A s \in Fetches : Asks(get[s], "reopen") => order.term >= 2
      BY DEF RoomInv, GetInv
    <3>2. order'.term <= 2 => order.term < 2
      BY <1>0, <2>3
    <3>3. order'.term <= 2 => \A s \in Fetches : ~Asks(get[s], "reopen")
      BY <1>0, <3>1, <3>2
    <3>4. order'.term # 1
      BY <1>0, <2>3
    <3> QED BY <1>1, <2>5, <3>3, <3>4 DEF ReopenInv
  <2>7. order.status = "COMPLETED" => order'.status = "COMPLETED"
    BY <2>3 DEF Later
  <2> QED BY <1>0, <1>1, <1>p, <2>2, <2>3, <2>4, <2>5, <2>6, <2>7, PostMoves
<1> QED BY <1>3, <1>4 DEF LeftPostServed

-----------------------------------------------------------------------------
(* The chat.                                                                 *)
LEMMA HandKeeps ==
    ASSUME NEW t, NEW ord, NEW p, NEW par, TalkOk(t, ord, p, par), NEW m \in Messages,
           m = "paid" => p, m = "released" => ord.status = "COMPLETED"
    PROVE  TalkOk(Hand(t, m), ord, p, par)
<1> DEFINE n == IF t.sending[m] < MaxSends THEN t.sending[m] + 1 ELSE t.sending[m]
<1>0. /\ t \in TalkType /\ t.sending \in [Messages -> 0..MaxSends] /\ t.fresh \in BOOLEAN /\ t.greet \in BOOLEAN
      /\ t.with \in {None, "order creator", "offer creator"} /\ t.delivered \subseteq Messages
  BY DEF TalkOk, TalkType
<1>1. n \in 0..MaxSends
  <2>1. t.sending[m] \in 0..MaxSends
    BY <1>0
  <2> QED BY <2>1, Bounds
<1>2. CASE t.with # None
  <2>1. Hand(t, m) = [t EXCEPT !.auto = m, !.fresh = FALSE, !.sending = [t.sending EXCEPT ![m] = n]]
    BY <1>0, <1>2 DEF Hand, TalkType
  <2> HIDE DEF n
  <2>2. /\ Hand(t, m) \in TalkType /\ Hand(t, m).auto = m /\ Hand(t, m).greet = t.greet
        /\ Hand(t, m).with = t.with /\ Hand(t, m).delivered = t.delivered
        /\ \A x \in Messages \ {m} : Hand(t, m).sending[x] = t.sending[x]
    <3> DEFINE q == [t.sending EXCEPT ![m] = n]
    <3>1. q \in [Messages -> 0..MaxSends] /\ \A x \in Messages \ {m} : q[x] = t.sending[x]
      BY <1>0, <1>1
    <3>2. Hand(t, m) = [t EXCEPT !.auto = m, !.fresh = FALSE, !.sending = q]
      BY <2>1
    <3> HIDE DEF q
    <3>3. /\ [t EXCEPT !.auto = m, !.fresh = FALSE, !.sending = q] \in TalkType
          /\ Hand(t, m).auto = m /\ Hand(t, m).greet = t.greet /\ Hand(t, m).with = t.with
          /\ Hand(t, m).delivered = t.delivered /\ Hand(t, m).sending = q
      BY <1>0, <3>1, <3>2 DEF TalkType
    <3> QED BY <3>1, <3>2, <3>3
  <2> QED BY <2>2 DEF TalkOk
<1>3. CASE t.with = None
  <2>1. Hand(t, m) = [t EXCEPT !.auto = m, !.fresh = TRUE]
    BY <1>3 DEF Hand
  <2>2. /\ Hand(t, m) \in TalkType /\ Hand(t, m).auto = m /\ Hand(t, m).greet = t.greet
        /\ Hand(t, m).with = t.with /\ Hand(t, m).delivered = t.delivered
        /\ Hand(t, m).sending = t.sending
    BY <1>0, <2>1 DEF TalkType
  <2> QED BY <2>2 DEF TalkOk
<1> QED BY <1>2, <1>3

LEMMA GreetKeeps ==
    ASSUME NEW t, NEW ord, NEW p, TalkOk(t, ord, p, party)
    PROVE  TalkOk(Greet(t), ord, p, party)
<1>1. "greeting" \in Messages
  BY DEF Messages
<1> QED BY <1>1, HandKeeps DEF Greet

LEMMA TalkSteps ==
    ASSUME RoomInv, \/ ChatConnected
                    \/ \E m \in Messages : AutoMessageSent(m) \/ AutoMessageFails(m)
    PROVE  RoomInv'
<1>0. /\ room \in RoomType /\ get \in [Fetches -> FetchType] /\ post \in [Buttons -> PostType]
      /\ order \in OrderType /\ talk \in TalkType /\ party \in PartyType
      /\ paid \in BOOLEAN /\ unheard \in BOOLEAN /\ taps \in 0..RoomClicks /\ news \in 0..MaxNews
      /\ TalkOk(talk, order, paid, party)
  BY TypesAre DEF RoomInv, TalkInv
<1>t. /\ talk.with \in {None, "order creator", "offer creator"} /\ talk.auto \in Messages \cup {None}
      /\ talk.fresh \in BOOLEAN /\ talk.greet \in BOOLEAN /\ talk.delivered \subseteq Messages
      /\ talk.sending \in [Messages -> 0..MaxSends]
  BY <1>0 DEF TalkType
<1>1. UNCHANGED <<party, order, paid, room, post, get, news, unheard, taps>>
  BY DEF ChatConnected, AutoMessageSent, AutoMessageFails
<1>2. ASSUME TalkOk(talk', order, paid, party) PROVE RoomInv'
  <2>1. RoomTypeOK'
    <3>1. /\ room' \in RoomType /\ post' \in [Buttons -> PostType] /\ get' \in [Fetches -> FetchType]
          /\ order' \in OrderType /\ talk' \in TalkType /\ party' \in PartyType
          /\ paid' \in BOOLEAN /\ unheard' \in BOOLEAN /\ news' \in 0..MaxNews /\ taps' \in 0..RoomClicks
      BY <1>0, <1>1, <1>2 DEF TalkOk
    <3> QED BY <3>1 DEF RoomTypeOK, RoomType, PostType, FetchType, OrderType, TalkType, PartyType
  <2>2. OrderInv' /\ ViewInv' /\ PostInv'
    BY <1>1 DEF RoomInv, OrderInv, ViewInv, PostInv
  <2>3. GetInv' /\ ReopenInv' /\ BusyInv'
    BY <1>1 DEF RoomInv, GetInv, ReopenInv, BusyInv
  <2>4. BuyerInv'
    BY <1>1 DEF RoomInv, BuyerInv
  <2>5. TalkInv'
    BY <1>1, <1>2 DEF TalkInv
  <2> QED BY <2>5, <2>1, <2>2, <2>3, <2>4 DEF RoomInv
<1>3. CASE ChatConnected
  <2> DEFINE t == [talk EXCEPT !.with = Counterpart]
  <2>1. /\ Counterpart # None
        /\ talk' = IF t.fresh /\ t.auto # None THEN Hand(t, t.auto) ELSE t
    BY <1>3 DEF ChatConnected
  <2>2. Counterpart = IF party.creator THEN "offer creator" ELSE "order creator"
    <3>1. party.side \in {"SELL", "BUY"} /\ party.creator \in BOOLEAN /\ room.offer \in BOOLEAN
      BY <1>0 DEF PartyType, RoomType
    <3> QED BY <2>1, <3>1 DEF Counterpart, CounterpartByRole, UserRole, Role
  <2>3. /\ t \in TalkType /\ t.with = Counterpart /\ t.auto = talk.auto /\ t.sending = talk.sending
        /\ t.delivered = talk.delivered /\ t.greet = talk.greet
    BY <1>0, <1>t, <2>2 DEF TalkType
  <2> HIDE DEF t
  <2>4. TalkOk(t, order, paid, party)
    BY <1>0, <2>2, <2>3 DEF TalkOk
  <2>5. t.auto # None => TalkOk(Hand(t, t.auto), order, paid, party)
    <3>1. t.auto # None => t.auto \in Messages
      BY <1>t, <2>3
    <3>2. t.auto # None => (t.auto = "paid" => paid) /\ (t.auto = "released" => order.status = "COMPLETED")
      BY <2>4, <3>1 DEF TalkOk
    <3> QED BY <2>4, <3>1, <3>2, HandKeeps
  <2>6. TalkOk(talk', order, paid, party)
    BY <2>1, <2>4, <2>5
  <2> QED BY <1>2, <2>6
<1>4. ASSUME NEW m \in Messages, AutoMessageSent(m) PROVE RoomInv'
  <2> DEFINE n == talk.sending[m] - 1
             g == talk.greet /\ ~party.creator
  <2>1. /\ talk.sending[m] > 0
        /\ talk' = [talk EXCEPT !.sending = [talk.sending EXCEPT ![m] = n], !.delivered = talk.delivered \cup {m},
                                !.auto = None, !.fresh = FALSE, !.greet = g]
    BY <1>0, <1>t, <1>4 DEF AutoMessageSent, TalkType
  <2>2. n \in 0..MaxSends /\ g \in BOOLEAN
    <3>1. talk.sending[m] \in 0..MaxSends
      BY <1>t
    <3>2. n \in 0..MaxSends
      BY <2>1, <3>1, Bounds
    <3>3. g \in BOOLEAN
      BY <1>t
    <3> QED BY <3>2, <3>3
  <2> HIDE DEF n, g
  <2>3. /\ talk' \in TalkType /\ talk'.with = talk.with /\ talk'.auto = None
        /\ \A x \in Messages \ {m} : talk'.sending[x] = talk.sending[x]
        /\ talk'.delivered = talk.delivered \cup {m}
    BY <1>0, <1>t, <2>1, <2>2 DEF TalkType
  <2>4. \A x \in Messages : talk'.auto # x
    BY <2>3, Distinctions
  <2>5. TalkOk(talk', order, paid, party)
    BY <1>0, <2>1, <2>3, <2>4 DEF TalkOk
  <2> QED BY <1>2, <2>5
<1>5. ASSUME NEW m \in Messages, AutoMessageFails(m) PROVE RoomInv'
  <2> DEFINE n == talk.sending[m] - 1
  <2>1. /\ talk.sending[m] > 0
        /\ talk' = [talk EXCEPT !.sending = [talk.sending EXCEPT ![m] = n]]
    BY <1>0, <1>t, <1>5 DEF AutoMessageFails, TalkType
  <2>2. n \in 0..MaxSends
    <3>1. talk.sending[m] \in 0..MaxSends
      BY <1>t
    <3> QED BY <2>1, <3>1, Bounds
  <2> HIDE DEF n
  <2>3. /\ talk' \in TalkType /\ talk'.with = talk.with /\ talk'.auto = talk.auto
        /\ \A x \in Messages \ {m} : talk'.sending[x] = talk.sending[x]
        /\ talk'.delivered = talk.delivered /\ talk'.greet = talk.greet
    BY <1>0, <1>t, <2>1, <2>2 DEF TalkType
  <2>5. TalkOk(talk', order, paid, party)
    BY <1>0, <2>1, <2>3 DEF TalkOk
  <2> QED BY <1>2, <2>5
<1> QED BY <1>3, <1>4, <1>5

-----------------------------------------------------------------------------
(* A fetch is answered by the service, or started by an event.               *)
LEMMA FetchSteps ==
    ASSUME RoomInv, (\E s \in Fetches : GetOrderById(s)) \/ HandleStatusUpdate
    PROVE  RoomInv'
<1>0. /\ room \in RoomType /\ get \in [Fetches -> FetchType] /\ post \in [Buttons -> PostType]
      /\ order \in OrderType /\ talk \in TalkType /\ party \in PartyType
      /\ paid \in BOOLEAN /\ unheard \in BOOLEAN /\ taps \in 0..RoomClicks /\ news \in 0..MaxNews
      /\ order.status \in OrderStatus /\ order.term \in Terms /\ order.term \in Nat
  BY TypesAre, Bounds DEF RoomInv, OrderType, Terms
<1>1. UNCHANGED <<party, order, paid, room, post, talk, unheard, taps>>
  BY DEF GetOrderById, HandleStatusUpdate
<1>2. ASSUME get' \in [Fetches -> FetchType], news' \in 0..MaxNews, GetInv', ReopenInv',
             \A s \in Fetches : get'[s].st = "read" /\ get'[s].snap.status = "OPEN" /\ paid => get'[s] = get[s]
      PROVE  RoomInv'
  <2>1. RoomTypeOK'
    <3>1. /\ room' \in RoomType /\ post' \in [Buttons -> PostType] /\ get' \in [Fetches -> FetchType]
          /\ order' \in OrderType /\ talk' \in TalkType /\ party' \in PartyType
          /\ paid' \in BOOLEAN /\ unheard' \in BOOLEAN /\ news' \in 0..MaxNews /\ taps' \in 0..RoomClicks
      BY <1>0, <1>1, <1>2
    <3> QED BY <3>1 DEF RoomTypeOK, RoomType, PostType, FetchType, OrderType, TalkType, PartyType
  <2>2. OrderInv' /\ ViewInv' /\ PostInv'
    BY <1>1 DEF RoomInv, OrderInv, ViewInv, PostInv
  <2>3. BusyInv' /\ TalkInv'
    BY <1>1 DEF RoomInv, BusyInv, TalkInv
  <2>4. BuyerInv'
    <3> SUFFICES ASSUME IsBuyer(party) PROVE BuyerInv'
      BY <1>1 DEF BuyerInv
    <3>1. ASSUME paid, ~unheard, NEW s \in Fetches, get'[s].st = "read", get'[s].snap.status = "OPEN"
          PROVE  get'[s].snap.term > 2 \/ get'[s].snap.term < order.term
      <4>1. get'[s] = get[s]
        BY <1>2, <3>1
      <4> QED BY <3>1, <4>1 DEF RoomInv, BuyerInv
    <3> QED BY <1>1, <3>1 DEF RoomInv, BuyerInv
  <2> QED BY <1>2, <2>1, <2>2, <2>3, <2>4 DEF RoomInv
<1>3. ASSUME NEW s \in Fetches, GetOrderById(s) PROVE RoomInv'
  <2> DEFINE o == [status |-> order.status, term |-> order.term]
  <2>1. /\ get[s].st = "sent" /\ get' = [get EXCEPT ![s] = [get[s] EXCEPT !.st = "read", !.snap = o]]
        /\ UNCHANGED news
    BY <1>0, <1>3 DEF GetOrderById, FetchType
  <2>2. o \in P2POrder /\ o.status = order.status /\ o.term = order.term
    BY <1>0 DEF P2POrder
  <2> HIDE DEF o
  <2>3. /\ get' \in [Fetches -> FetchType] /\ get'[s].why = get[s].why /\ get'[s].st = "read" /\ get'[s].snap = o
        /\ \A t \in Fetches \ {s} : get'[t] = get[t]
    BY <1>0, <2>1, <2>2 DEF FetchType
  <2>4. OrderInv
    BY DEF RoomInv
  <2>5. Told(o, order, paid)
    BY <1>0, <2>2, <2>4 DEF Told, OrderInv, Stage, Over, OrderStatus
  <2>6. \A t \in Fetches : \A w : Asks(get'[t], w) <=> Asks(get[t], w)
    BY <2>1, <2>3 DEF Asks
  <2>7. GetInv'
    <3>1. \A t \in Fetches : get'[t].st = "read" => Told(get'[t].snap, order, paid)
      BY <2>3, <2>5 DEF RoomInv, GetInv
    <3>2. \A t \in Fetches : get'[t].st # "none" => get'[t].why # None
      BY <2>1, <2>3 DEF RoomInv, GetInv
    <3> QED BY <1>1, <2>1, <2>6, <3>1, <3>2 DEF RoomInv, GetInv
  <2>8. ReopenInv'
    BY <1>1, <2>6 DEF RoomInv, ReopenInv
  <2>9. \A t \in Fetches : get'[t].st = "read" /\ get'[t].snap.status = "OPEN" /\ paid => get'[t] = get[t]
    BY <2>2, <2>3, <2>4 DEF OrderInv, Stage
  <2> QED BY <1>0, <1>2, <2>1, <2>3, <2>7, <2>8, <2>9
<1>4. CASE HandleStatusUpdate
  <2>1. news > 0 /\ news' = news - 1 /\ ((\E s \in Fetches : Fetch(s, "event")) \/ UNCHANGED get)
    BY <1>4 DEF HandleStatusUpdate
  <2>2. news' \in 0..MaxNews /\ paid
    BY <1>0, <2>1, Bounds DEF RoomInv, GetInv
  <2>3. CASE UNCHANGED get
    <3>1. GetInv' /\ ReopenInv'
      BY <1>1, <2>2, <2>3 DEF RoomInv, GetInv, ReopenInv
    <3> QED BY <1>0, <1>2, <2>2, <2>3, <3>1
  <2>4. ASSUME NEW s \in Fetches, Fetch(s, "event") PROVE RoomInv'
    <3>1. get[s].st = "none" /\ get' = [get EXCEPT ![s] = [NoFetch EXCEPT !.why = "event", !.st = "sent"]]
      BY <2>4 DEF Fetch
    <3>2. /\ get' \in [Fetches -> FetchType] /\ get'[s].why = "event" /\ get'[s].st = "sent"
          /\ \A t \in Fetches \ {s} : get'[t] = get[t]
      BY <1>0, <3>1 DEF NoFetch, FetchType
    <3>a. \A t \in Fetches : \A w \in {"mount", "reopen"} : Asks(get'[t], w) => Asks(get[t], w)
      <4>1. ~ Asks(get'[s], "mount") /\ ~ Asks(get'[s], "reopen")
        BY <3>2 DEF Asks
      <4> QED BY <3>2, <4>1
    <3>b. GetInv
      BY DEF RoomInv
    <3>3. GetInv'
      <4>1. \A t \in Fetches : get'[t].st = "read" => Told(get'[t].snap, order, paid)
        BY <3>2, <3>b DEF GetInv
      <4>2. \A t \in Fetches : get'[t].st # "none" => get'[t].why # None
        BY <3>2, <3>b, Distinctions DEF GetInv
      <4>3. /\ \A t, w \in Fetches : Asks(get'[t], "mount") /\ Asks(get'[w], "mount") => t = w
            /\ \A t \in Fetches : Asks(get'[t], "mount") => room.loading
            /\ \A t \in Fetches : Asks(get'[t], "reopen") => ~ room.loading /\ party.creator /\ order.term >= 2
        BY <3>a, <3>b DEF GetInv
      <4> QED BY <1>1, <2>2, <4>1, <4>2, <4>3 DEF GetInv
    <3>4. ReopenInv'
      BY <1>1, <2>2 DEF ReopenInv
    <3>5. \A t \in Fetches : get'[t].st = "read" /\ get'[t].snap.status = "OPEN" /\ paid => get'[t] = get[t]
      BY <3>2
    <3> QED BY <1>2, <2>2, <3>2, <3>3, <3>4, <3>5
  <2> QED BY <2>1, <2>3, <2>4
<1> QED BY <1>3, <1>4

-----------------------------------------------------------------------------
(* Steps of the page: the order of the service stays.                        *)
LEMMA PageMoves ==
    ASSUME RoomInv, UNCHANGED <<party, order, paid>>,
           room' \in RoomType, post' \in [Buttons -> PostType], get' \in [Fetches -> FetchType],
           unheard' \in BOOLEAN, news' \in 0..MaxNews, taps' \in 0..RoomClicks,
           ViewInv', PostInv', GetInv', ReopenInv', BuyerInv', TalkInv', BusyInv'
    PROVE  RoomInv'
<1>0. /\ order \in OrderType /\ party \in PartyType /\ paid \in BOOLEAN /\ OrderInv
  BY TypesAre DEF RoomInv
<1>1. talk' \in TalkType
  BY DEF TalkInv, TalkOk
<1>2. order' \in OrderType /\ party' \in PartyType /\ paid' \in BOOLEAN
  BY <1>0
<1>3. RoomTypeOK'
  BY <1>1, <1>2 DEF RoomTypeOK, RoomType, PostType, FetchType, OrderType, TalkType, PartyType
<1>4. OrderInv'
  BY <1>0 DEF OrderInv
<1> QED BY <1>3, <1>4 DEF RoomInv

LEMMA WithOrderIs ==
    ASSUME NEW r \in RoomType, NEW o \in P2POrder \cup {NoOrder}, order \in OrderType
    PROVE  /\ WithOrder(r, o) \in RoomType /\ WithOrder(r, o).view = o
           /\ WithOrder(r, o).expired = Over(o, order)
           /\ WithOrder(r, o).local = (IF o.status # r.view.status THEN None ELSE r.local)
           /\ WithOrder(r, o).loading = r.loading /\ WithOrder(r, o).offer = r.offer
           /\ WithOrder(r, o).modal = r.modal /\ WithOrder(r, o).busy = r.busy
<1> DEFINE e == Over(o, order)
           l == IF o.status # r.view.status THEN None ELSE r.local
<1>1. e \in BOOLEAN
  BY DEF Over, OrderType
<1>2. l \in OrderStatus \cup {None}
  BY DEF RoomType
<1>3. WithOrder(r, o) = [r EXCEPT !.view = o, !.expired = e, !.local = l]
  <2>1. e = Passed(o)
    BY DEF Over, Passed
  <2> HIDE DEF e
  <2> QED BY <2>1 DEF WithOrder, RoomType
<1> HIDE DEF e, l
<1>4. /\ WithOrder(r, o) \in RoomType /\ WithOrder(r, o).view = o
      /\ WithOrder(r, o).expired = e /\ WithOrder(r, o).local = l
      /\ WithOrder(r, o).loading = r.loading /\ WithOrder(r, o).offer = r.offer
      /\ WithOrder(r, o).modal = r.modal /\ WithOrder(r, o).busy = r.busy
  BY <1>1, <1>2, <1>3 DEF RoomType
<1> QED BY <1>4 DEF e, l

(* A step that only moves the button's dialog or the countdown.              *)
LEMMA ShowSteps ==
    ASSUME RoomInv, CheckExpiration \/ ReleaseModal
    PROVE  RoomInv'
<1>0. /\ room \in RoomType /\ get \in [Fetches -> FetchType] /\ post \in [Buttons -> PostType]
      /\ order \in OrderType /\ talk \in TalkType /\ party \in PartyType
      /\ paid \in BOOLEAN /\ unheard \in BOOLEAN /\ taps \in 0..RoomClicks /\ news \in 0..MaxNews
  BY TypesAre DEF RoomInv
<1>1. UNCHANGED <<party, order, paid, post, get, news, talk, unheard, taps>>
  BY DEF CheckExpiration, ReleaseModal
<1>2. ASSUME room' \in RoomType, room'.view = room.view, room'.local = room.local, room'.loading = room.loading,
             room'.offer = room.offer, room'.busy = room.busy,
             room.view.status = "EXPIRED" => room'.expired,
             room.expired /\ Over(room.view, order) => room'.expired
      PROVE  RoomInv'
  <2>1. post' \in [Buttons -> PostType] /\ get' \in [Fetches -> FetchType]
        /\ unheard' \in BOOLEAN /\ news' \in 0..MaxNews /\ taps' \in 0..RoomClicks
    BY <1>0, <1>1
  <2>2. ViewInv' /\ PostInv' /\ GetInv'
    BY <1>1, <1>2 DEF RoomInv, ViewInv, PostInv, GetInv
  <2>3. ReopenInv' /\ TalkInv' /\ BusyInv'
    BY <1>1, <1>2 DEF RoomInv, ReopenInv, TalkInv, BusyInv
  <2>4. BuyerInv'
    BY <1>1, <1>2 DEF RoomInv, BuyerInv
  <2> QED BY <1>1, <1>2, <2>1, <2>2, <2>3, <2>4, PageMoves
<1>3. CASE CheckExpiration
  <2>1. /\ room.view # NoOrder /\ room.expired # Passed(room.view)
        /\ room' = [room EXCEPT !.expired = ~room.expired]
    BY <1>0, <1>3 DEF CheckExpiration, RoomType
  <2>2. room.expired \in BOOLEAN /\ Over(room.view, order) \in BOOLEAN
    BY <1>0 DEF RoomType, OrderType, Over
  <2>3. room.expired # Over(room.view, order)
    BY <2>1 DEF Over, Passed
  <2>4. room.view.status = "EXPIRED" => Over(room.view, order)
    BY <2>1 DEF RoomInv, ViewInv, Displayed, Told, Claimed
  <2>5. /\ room' \in RoomType /\ room'.view = room.view /\ room'.local = room.local
        /\ room'.loading = room.loading /\ room'.offer = room.offer /\ room'.busy = room.busy
        /\ room'.expired = ~room.expired
    <3> DEFINE e == ~room.expired
    <3>1. e \in BOOLEAN
      BY <2>2
    <3>2. room' = [room EXCEPT !.expired = e]
      BY <2>1
    <3> HIDE DEF e
    <3>3. /\ room' \in RoomType /\ room'.view = room.view /\ room'.local = room.local
          /\ room'.loading = room.loading /\ room'.offer = room.offer /\ room'.busy = room.busy
          /\ room'.expired = e
      BY <1>0, <3>1, <3>2 DEF RoomType
    <3> QED BY <3>3 DEF e
  <2>6. /\ room.view.status = "EXPIRED" => room'.expired
        /\ room.expired /\ Over(room.view, order) => room'.expired
    BY <2>2, <2>3, <2>4, <2>5, Zenon
  <2> QED BY <1>2, <2>5, <2>6
<1>4. CASE ReleaseModal
  <2> DEFINE e == ~room.modal
  <2>1. e \in BOOLEAN /\ room' = [room EXCEPT !.modal = e]
    BY <1>0, <1>4 DEF ReleaseModal, RoomType
  <2> HIDE DEF e
  <2>2. /\ room' \in RoomType /\ room'.view = room.view /\ room'.local = room.local
        /\ room'.loading = room.loading /\ room'.offer = room.offer /\ room'.busy = room.busy
        /\ room'.expired = room.expired
    BY <1>0, <2>1 DEF RoomType
  <2>3. room.view.status = "EXPIRED" => room'.expired
    BY <2>2 DEF RoomInv, ViewInv
  <2> QED BY <1>2, <2>2, <2>3
<1> QED BY <1>3, <1>4

LEMMA OfferLoadedStep ==
    ASSUME RoomInv, OfferLoaded
    PROVE  RoomInv'
<1>0. /\ room \in RoomType /\ get \in [Fetches -> FetchType] /\ post \in [Buttons -> PostType]
      /\ order \in OrderType /\ talk \in TalkType /\ party \in PartyType
      /\ paid \in BOOLEAN /\ unheard \in BOOLEAN /\ taps \in 0..RoomClicks /\ news \in 0..MaxNews
  BY TypesAre DEF RoomInv
<1>1. /\ UNCHANGED <<party, order, paid, post, get, news, unheard, taps>>
      /\ talk' = Greet(talk) /\ ~room.offer
  BY DEF OfferLoaded
<1> DEFINE b == IF UserRole # TrueRole THEN room.busy \ {"pay", "release"} ELSE room.busy
           d == IF UserRole # TrueRole THEN FALSE ELSE room.modal
<1>2. room' = [room EXCEPT !.offer = TRUE, !.busy = b, !.modal = d]
  BY <1>0 DEF OfferLoaded, RoomType
<1>3. b \in SUBSET Buttons /\ b \subseteq room.busy /\ d \in BOOLEAN
  BY <1>0 DEF RoomType
<1>4. UserRole = TrueRole => b = room.busy
  OBVIOUS
<1> HIDE DEF b, d
<1>5. /\ room' \in RoomType /\ room'.view = room.view /\ room'.local = room.local
      /\ room'.loading = room.loading /\ room'.offer = TRUE /\ room'.busy = b /\ room'.expired = room.expired
  BY <1>0, <1>2, <1>3 DEF RoomType
<1>6. post' \in [Buttons -> PostType] /\ get' \in [Fetches -> FetchType]
      /\ unheard' \in BOOLEAN /\ news' \in 0..MaxNews /\ taps' \in 0..RoomClicks
  BY <1>0, <1>1
<1>7. ViewInv' /\ PostInv' /\ GetInv'
  BY <1>1, <1>5 DEF RoomInv, ViewInv, PostInv, GetInv
<1>8. ReopenInv' /\ BusyInv'
  BY <1>1, <1>3, <1>5 DEF RoomInv, ReopenInv, BusyInv
<1>9. TalkInv'
  BY <1>1, GreetKeeps DEF RoomInv, TalkInv
<1>10. BuyerInv'
  <2> SUFFICES ASSUME IsBuyer(party) PROVE BuyerInv'
    BY <1>1 DEF BuyerInv
  <2>1. RoleIn(party, TRUE) = "buyer" /\ TrueRole = "buyer"
    BY DEF IsBuyer, RoleIn, TrueRole
  <2>2. UserRole = RoleIn(party, room.offer)
    BY DEF UserRole, RoleIn
  <2>3. Working(post["pay"]) => "pay" \in b
    BY <1>4, <2>1, <2>2 DEF RoomInv, BuyerInv
  <2> QED BY <1>1, <1>5, <2>1, <2>3 DEF RoomInv, BuyerInv
<1> QED BY <1>1, <1>5, <1>6, <1>7, <1>8, <1>9, <1>10, PageMoves

-----------------------------------------------------------------------------
(* The answer to a fetch, and its failure.                                   *)

(* What a fetch that ends leaves of the other fetches.                       *)
LEMMA FetchEnds ==
    ASSUME RoomInv, get \in [Fetches -> FetchType], NEW s \in Fetches, get[s].st # "none",
           get' = [get EXCEPT ![s] = NoFetch], UNCHANGED <<party, order, paid, news>>,
           room'.loading = IF get[s].why = "mount" THEN FALSE ELSE room.loading
    PROVE  /\ get' \in [Fetches -> FetchType] /\ GetInv'
           /\ get'[s].st = "none" /\ \A t \in Fetches \ {s} : get'[t] = get[t]
           /\ room'.loading => room.loading
<1>1. NoFetch \in FetchType /\ NoFetch.st = "none"
  BY DEF NoFetch, FetchType
<1>2. /\ get' \in [Fetches -> FetchType]
      /\ get'[s].st = "none" /\ \A t \in Fetches \ {s} : get'[t] = get[t]
  BY <1>1
<1>3. \A t \in Fetches : \A w : Asks(get'[t], w) => t # s /\ get'[t] = get[t] /\ Asks(get[t], w)
  BY <1>2 DEF Asks
<1>4. \A t \in Fetches : get'[t].st # "none" => t # s /\ get'[t] = get[t]
  BY <1>2
<1>5. ASSUME get[s].why = "mount" PROVE \A t \in Fetches : ~Asks(get'[t], "mount")
  <2>1. Asks(get[s], "mount")
    BY <1>5 DEF Asks
  <2> QED BY <1>3, <2>1 DEF RoomInv, GetInv
<1>6. room'.loading => room.loading
  BY DEF RoomInv
<1>7. GetInv'
  <2>1. \A t \in Fetches : get'[t].st = "read" => Told(get'[t].snap, order, paid)
    BY <1>4 DEF RoomInv, GetInv
  <2>2. \A t \in Fetches : get'[t].st # "none" => get'[t].why # None
    BY <1>4 DEF RoomInv, GetInv
  <2>3. \A t, u \in Fetches : Asks(get'[t], "mount") /\ Asks(get'[u], "mount") => t = u
    BY <1>3 DEF RoomInv, GetInv
  <2>4. \A t \in Fetches : Asks(get'[t], "mount") => room'.loading
    BY <1>3, <1>5 DEF RoomInv, GetInv
  <2>5. \A t \in Fetches : Asks(get'[t], "reopen") => ~room'.loading /\ party.creator /\ order.term >= 2
    BY <1>3, <1>6 DEF RoomInv, GetInv
  <2>6. \A t \in Fetches : Asks(get'[t], "event") => paid
    BY <1>3 DEF RoomInv, GetInv
  <2>7. news > 0 => paid
    BY DEF RoomInv, GetInv
  <2> QED BY <2>5, <2>1, <2>2, <2>3, <2>4, <2>6, <2>7 DEF GetInv
<1> QED BY <1>2, <1>6, <1>7

(* Before the payment the page waits for no second answer.                   *)
LEMMA FetchEndsAlone ==
    ASSUME RoomInv, NEW s \in Fetches, get[s].st # "none", get[s].why \in {None, "mount", "event", "reopen"},
           \A t \in Fetches \ {s} : get'[t] = get[t], get'[s].st = "none",
           UNCHANGED <<party, order, paid, post>>
    PROVE  ReopenInv'
<1> SUFFICES ASSUME ~paid, party.creator PROVE ReopenInv'
  BY DEF ReopenInv
<1>1. \A t \in Fetches : \A w : Asks(get'[t], w) => t # s /\ Asks(get[t], w)
  BY DEF Asks
<1>b. "pay" \in Buttons /\ "reopen" \in Buttons
  BY DEF Buttons
<1>2. CASE get[s].why = "mount"
  <2>1. room.loading
    BY <1>2 DEF RoomInv, GetInv, Asks
  <2>2. \A k \in Buttons : ~Working(post[k])
    BY <2>1 DEF RoomInv, PostInv
  <2>3. ~Working(post["pay"]) /\ post["reopen"].st # "yes" /\ post["reopen"].st # "sent"
    BY <1>b, <2>2 DEF Working
  <2>4. \A t \in Fetches : ~Asks(get'[t], "reopen")
    BY <1>1, <2>1 DEF RoomInv, GetInv
  <2> QED BY <2>3, <2>4 DEF ReopenInv
<1>3. CASE get[s].why = "event"
  <2>1. paid
    BY <1>3 DEF RoomInv, GetInv, Asks
  <2> QED BY <2>1
<1>4. CASE get[s].why = "reopen"
  <2>1. Asks(get[s], "reopen") /\ order.term >= 2
    BY <1>4 DEF RoomInv, GetInv, Asks
  <2>2. order.term # 1
    BY <2>1
  <2>3. order.term <= 2 => /\ post["reopen"].st # "yes"
                           /\ \A t \in Fetches : ~Asks(get'[t], "reopen")
    BY <1>1, <2>1 DEF RoomInv, ReopenInv
  <2> QED BY <2>2, <2>3 DEF ReopenInv
<1>5. get[s].why # None
  BY DEF RoomInv, GetInv
<1> QED BY <1>2, <1>3, <1>4, <1>5

LEMMA OrderFetchedStep ==
    ASSUME RoomInv, NEW s \in Fetches, OrderFetched(s)
    PROVE  RoomInv'
<1>0. /\ room \in RoomType /\ get \in [Fetches -> FetchType] /\ post \in [Buttons -> PostType]
      /\ order \in OrderType /\ talk \in TalkType /\ party \in PartyType
      /\ paid \in BOOLEAN /\ unheard \in BOOLEAN /\ taps \in 0..RoomClicks /\ news \in 0..MaxNews
  BY TypesAre DEF RoomInv
<1> DEFINE o == get[s].snap
           l == IF get[s].why = "reopen" THEN "OPEN" ELSE room.local
           d == IF get[s].why = "mount" THEN FALSE ELSE room.loading
           r == [room EXCEPT !.loading = d, !.local = l]
<1>1. /\ get[s].st = "read" /\ get' = [get EXCEPT ![s] = NoFetch]
      /\ UNCHANGED <<party, order, paid, post, news, unheard, taps>>
  BY DEF OrderFetched
<1>2. room' = WithOrder(r, o) /\ talk' = Greet(talk)
  <2>1. r = CASE get[s].why = "mount" -> [room EXCEPT !.loading = FALSE]
              [] get[s].why = "reopen" -> [room EXCEPT !.local = "OPEN"]
              [] OTHER -> room
    BY <1>0 DEF RoomType
  <2> QED BY <2>1 DEF OrderFetched, SetOrder
<1>3. /\ l \in OrderStatus \cup {None} /\ d \in BOOLEAN
      /\ l = "PENDING" => room.local = "PENDING"
      /\ l = "CONFIRMED" => room.local = "CONFIRMED"
      /\ l \in {room.local, "OPEN"}
  BY <1>0 DEF RoomType, OrderStatus
<1>4. d = IF get[s].why = "mount" THEN FALSE ELSE room.loading
  OBVIOUS
<1>5. o \in P2POrder \cup {NoOrder} /\ get[s].why \in {None, "mount", "event", "reopen"}
  BY <1>0 DEF FetchType
<1>6. Told(o, order, paid)
  BY <1>1 DEF RoomInv, GetInv
<1>7. IsBuyer(party) /\ paid /\ ~unheard /\ o.status = "OPEN" => o.term > 2 \/ o.term < order.term
  BY <1>1 DEF RoomInv, BuyerInv
<1> HIDE DEF o, l, d
<1>8. /\ r \in RoomType /\ r.view = room.view /\ r.loading = d /\ r.local = l /\ r.offer = room.offer
      /\ r.modal = room.modal /\ r.busy = room.busy
  BY <1>0, <1>3 DEF RoomType
<1> HIDE DEF r
<1>9. /\ room' \in RoomType /\ room'.view = o /\ room'.expired = Over(o, order)
      /\ room'.local = (IF o.status # room.view.status THEN None ELSE l)
      /\ room'.loading = d /\ room'.offer = room.offer /\ room'.busy = room.busy
  BY <1>0, <1>2, <1>5, <1>8, WithOrderIs
<1>10. /\ get' \in [Fetches -> FetchType] /\ GetInv'
       /\ get'[s].st = "none" /\ \A t \in Fetches \ {s} : get'[t] = get[t]
       /\ room'.loading => room.loading
  BY <1>0, <1>1, <1>4, <1>9, FetchEnds
<1>11. ReopenInv'
  BY <1>1, <1>5, <1>10, FetchEndsAlone
<1>12. ViewInv'
  <2>1. Displayed(o, order, paid, Working(post["release"]))
    BY <1>6 DEF Displayed
  <2>2. o.status = "EXPIRED" => Over(o, order)
    BY <1>6 DEF Told
  <2>3. /\ room.local \in {None, "OPEN", "PENDING", "CONFIRMED"}
        /\ room.local = "PENDING" => paid
        /\ room.local = "CONFIRMED" => order.status = "COMPLETED"
    BY DEF RoomInv, ViewInv
  <2>4. /\ room'.local \in {None, "OPEN", "PENDING", "CONFIRMED"}
        /\ room'.local = "PENDING" => paid
        /\ room'.local = "CONFIRMED" => order.status = "COMPLETED"
    BY <1>3, <1>9, <2>3, Distinctions
  <2> QED BY <1>1, <1>9, <2>1, <2>2, <2>4 DEF ViewInv
<1>13. PostInv'
  BY <1>1, <1>10 DEF RoomInv, PostInv
<1>14. TalkInv'
  BY <1>1, <1>2, GreetKeeps DEF RoomInv, TalkInv
<1>15. BusyInv'
  BY <1>1, <1>9 DEF RoomInv, BusyInv
<1>16. BuyerInv'
  <2> SUFFICES ASSUME IsBuyer(party) PROVE BuyerInv'
    BY <1>1 DEF BuyerInv
  <2>1. Working(post["pay"]) => RoleIn(party, room.offer) = "buyer" /\ "pay" \in room.busy
    BY DEF RoomInv, BuyerInv
  <2>2. room'.local = "PENDING" => RoleIn(party, room.offer) = "buyer"
    <3>1. room'.local = "PENDING" => room.local = "PENDING"
      BY <1>3, <1>9, Distinctions
    <3> QED BY <3>1 DEF RoomInv, BuyerInv
  <2>3. Working(post["release"]) => post["release"].before.status = "PENDING"
    BY DEF RoomInv, BuyerInv
  <2>4. ASSUME paid, ~unheard
        PROVE  \A t \in Fetches : get'[t].st = "read" /\ get'[t].snap.status = "OPEN" =>
                    get'[t].snap.term > 2 \/ get'[t].snap.term < order.term
    <3>1. \A t \in Fetches : get'[t].st = "read" => get'[t] = get[t]
      BY <1>10
    <3> QED BY <2>4, <3>1 DEF RoomInv, BuyerInv
  <2>5. paid /\ ~unheard /\ o.status = "OPEN" => o.term > 2 \/ Over(o, order)
    BY <1>7 DEF Over
  <2> QED BY <1>1, <1>9, <2>1, <2>2, <2>3, <2>4, <2>5 DEF BuyerInv
<1>17. unheard' \in BOOLEAN /\ news' \in 0..MaxNews /\ taps' \in 0..RoomClicks /\ post' \in [Buttons -> PostType]
  BY <1>0, <1>1
<1> QED BY <1>1, <1>9, <1>10, <1>11, <1>12, <1>13, <1>14, <1>15, <1>16, <1>17, PageMoves

LEMMA FetchFailsStep ==
    ASSUME RoomInv, NEW s \in Fetches, FetchFails(s)
    PROVE  RoomInv'
<1>0. /\ room \in RoomType /\ get \in [Fetches -> FetchType] /\ post \in [Buttons -> PostType]
      /\ order \in OrderType /\ talk \in TalkType /\ party \in PartyType
      /\ paid \in BOOLEAN /\ unheard \in BOOLEAN /\ taps \in 0..RoomClicks /\ news \in 0..MaxNews
  BY TypesAre DEF RoomInv
<1> DEFINE v == IF get[s].why = "mount" THEN NoOrder ELSE room.view
           l == IF get[s].why = "reopen" THEN "OPEN" ELSE room.local
           d == IF get[s].why = "mount" THEN FALSE ELSE room.loading
<1>1. /\ get[s].st \in {"sent", "read"} /\ get' = [get EXCEPT ![s] = NoFetch]
      /\ UNCHANGED <<party, order, paid, post, news, talk, unheard, taps>>
  BY DEF FetchFails
<1>2. room' = [room EXCEPT !.loading = d, !.view = v, !.local = l]
  BY <1>0 DEF FetchFails, RoomType
<1>3. /\ l \in OrderStatus \cup {None} /\ d \in BOOLEAN /\ v \in P2POrder \cup {NoOrder}
      /\ l \in {room.local, "OPEN"} /\ v \in {room.view, NoOrder}
  BY <1>0 DEF RoomType, OrderStatus
<1>4. d = IF get[s].why = "mount" THEN FALSE ELSE room.loading
  OBVIOUS
<1>5. get[s].why \in {None, "mount", "event", "reopen"} /\ get[s].st # "none"
  BY <1>0, <1>1 DEF FetchType
<1> HIDE DEF v, l, d
<1>9. /\ room' \in RoomType /\ room'.view = v /\ room'.expired = room.expired /\ room'.local = l
      /\ room'.loading = d /\ room'.offer = room.offer /\ room'.busy = room.busy
  BY <1>0, <1>2, <1>3 DEF RoomType
<1>10. /\ get' \in [Fetches -> FetchType] /\ GetInv'
       /\ get'[s].st = "none" /\ \A t \in Fetches \ {s} : get'[t] = get[t]
       /\ room'.loading => room.loading
  BY <1>0, <1>1, <1>4, <1>5, <1>9, FetchEnds
<1>11. ReopenInv'
  BY <1>1, <1>5, <1>10, FetchEndsAlone
<1>12. ViewInv'
  <2>1. Displayed(v, order, paid, Working(post["release"]))
    BY <1>3 DEF RoomInv, ViewInv, Displayed
  <2>2. v.status = "EXPIRED" => room.expired
    BY <1>3, Distinctions DEF RoomInv, ViewInv
  <2>4. /\ l \in {None, "OPEN", "PENDING", "CONFIRMED"}
        /\ l = "PENDING" => paid
        /\ l = "CONFIRMED" => order.status = "COMPLETED"
    BY <1>3 DEF RoomInv, ViewInv
  <2> QED BY <1>1, <1>9, <2>1, <2>2, <2>4 DEF ViewInv
<1>13. PostInv'
  BY <1>1, <1>10 DEF RoomInv, PostInv
<1>14. TalkInv'
  BY <1>1 DEF RoomInv, TalkInv
<1>15. BusyInv'
  BY <1>1, <1>9 DEF RoomInv, BusyInv
<1>16. BuyerInv'
  <2> SUFFICES ASSUME IsBuyer(party) PROVE BuyerInv'
    BY <1>1 DEF BuyerInv
  <2>2. l = "PENDING" => RoleIn(party, room.offer) = "buyer"
    BY <1>3 DEF RoomInv, BuyerInv
  <2>4. ASSUME paid, ~unheard
        PROVE  \A t \in Fetches : get'[t].st = "read" /\ get'[t].snap.status = "OPEN" =>
                    get'[t].snap.term > 2 \/ get'[t].snap.term < order.term
    <3>1. \A t \in Fetches : get'[t].st = "read" => get'[t] = get[t]
      BY <1>10
    <3> QED BY <2>4, <3>1 DEF RoomInv, BuyerInv
  <2>5. v.status = "OPEN" /\ l = None => v = room.view /\ l = room.local
    BY <1>3, Distinctions
  <2>6. /\ Working(post["pay"]) => RoleIn(party, room.offer) = "buyer" /\ "pay" \in room.busy
        /\ Working(post["release"]) => post["release"].before.status = "PENDING"
    BY DEF RoomInv, BuyerInv
  <2>7. paid /\ ~unheard /\ post["pay"].st # "yes" /\ v.status = "OPEN" /\ l = None =>
            v.term > 2 \/ (room.expired /\ Over(v, order))
    BY <2>5 DEF RoomInv, BuyerInv
  <2> QED BY <1>1, <1>9, <2>2, <2>4, <2>6, <2>7 DEF BuyerInv
<1>17. unheard' \in BOOLEAN /\ news' \in 0..MaxNews /\ taps' \in 0..RoomClicks /\ post' \in [Buttons -> PostType]
  BY <1>0, <1>1
<1> QED BY <1>1, <1>9, <1>10, <1>11, <1>12, <1>13, <1>14, <1>15, <1>16, <1>17, PageMoves

-----------------------------------------------------------------------------
(* The buttons.                                                              *)

(* A click sends a POST: nothing else of the service or the fetches moves.   *)
LEMMA Sent ==
    ASSUME post \in [Buttons -> PostType], NEW k \in Buttons, NEW v \in P2POrder \cup {NoOrder}, Send(k, v)
    PROVE  /\ post' \in [Buttons -> PostType] /\ post'[k].st = "sent" /\ post'[k].before = v
           /\ ~Working(post[k]) /\ Working(post'[k])
           /\ \A b \in Buttons \ {k} : post'[b] = post[b]
BY DEF Send, PostType, Working

(* An answer is taken: the POST is over.                                     *)
LEMMA TakenUp ==
    ASSUME post \in [Buttons -> PostType], NEW k \in Buttons, post' = [post EXCEPT ![k] = NoPost]
    PROVE  /\ post' \in [Buttons -> PostType] /\ post'[k].st = "none" /\ ~Working(post'[k])
           /\ \A b \in Buttons \ {k} : post'[b] = post[b]
<1>1. NoPost \in PostType /\ NoPost.st = "none"
  BY DEF NoPost, PostType
<1> QED BY <1>1 DEF Working

LEMMA TapLeft ==
    ASSUME taps \in 0..RoomClicks, Tap
    PROVE  taps' \in 0..RoomClicks
BY Bounds DEF Tap

LEMMA PayClickedStep ==
    ASSUME RoomInv, PayClicked
    PROVE  RoomInv'
<1>0. /\ room \in RoomType /\ get \in [Fetches -> FetchType] /\ post \in [Buttons -> PostType]
      /\ order \in OrderType /\ talk \in TalkType /\ party \in PartyType
      /\ paid \in BOOLEAN /\ unheard \in BOOLEAN /\ taps \in 0..RoomClicks /\ news \in 0..MaxNews
  BY TypesAre DEF RoomInv
<1>b. "pay" \in Buttons /\ "release" \in Buttons /\ "reopen" \in Buttons
  BY DEF Buttons
<1>1. /\ UserRole = "buyer" /\ ~room.expired /\ ~room.loading
      /\ Send("pay", room.view) /\ Tap
      /\ room' = [room EXCEPT !.busy = room.busy \cup {"pay"}]
      /\ UNCHANGED <<party, order, paid, get, news, talk, unheard>>
  BY <1>0 DEF PayClicked, OffersPay, HasButtonsOf, Skeleton, RoomType
<1>2. /\ room' \in RoomType /\ room'.view = room.view /\ room'.local = room.local
      /\ room'.loading = room.loading /\ room'.offer = room.offer /\ room'.busy = room.busy \cup {"pay"}
      /\ room'.expired = room.expired
  BY <1>0, <1>1, <1>b DEF RoomType
<1>3. /\ post' \in [Buttons -> PostType] /\ post'["pay"].st = "sent"
      /\ ~Working(post["pay"]) /\ Working(post'["pay"])
      /\ \A b \in Buttons \ {"pay"} : post'[b] = post[b]
  <2>1. room.view \in P2POrder \cup {NoOrder}
    BY <1>0 DEF RoomType
  <2> QED BY <1>0, <1>1, <1>b, <2>1, Sent
<1>4. post'["release"] = post["release"] /\ post'["reopen"] = post["reopen"]
  BY <1>b, <1>3
<1>5. room.view.status # "EXPIRED"
  BY <1>1 DEF RoomInv, ViewInv
<1>6. taps' \in 0..RoomClicks
  BY <1>0, <1>1, TapLeft
<1>7. ViewInv' /\ GetInv' /\ TalkInv'
  BY <1>1, <1>2, <1>4 DEF RoomInv, ViewInv, GetInv, TalkInv
<1>8. PostInv'
  <2>1. \A k \in Buttons : post'[k].st = "left" => unheard
    BY <1>3 DEF RoomInv, PostInv
  <2>2. \A k \in Buttons : Working(post'[k]) => ~room.loading
    BY <1>1
  <2> QED BY <1>1, <1>2, <1>3, <1>4, <2>1, <2>2 DEF RoomInv, PostInv
<1>9. ReopenInv'
  BY <1>1, <1>2, <1>4, <1>5 DEF RoomInv, ReopenInv
<1>10. BusyInv'
  BY <1>2, <1>3 DEF RoomInv, BusyInv, RoomType
<1>11. BuyerInv'
  <2>1. RoleIn(party, room.offer) = "buyer"
    BY <1>1 DEF UserRole, RoleIn
  <2>2. post["pay"].st # "yes"
    BY <1>3 DEF Working
  <2> QED BY <1>1, <1>2, <1>4, <2>1, <2>2 DEF RoomInv, BuyerInv
<1>12. get' \in [Fetches -> FetchType] /\ unheard' \in BOOLEAN /\ news' \in 0..MaxNews
  BY <1>0, <1>1
<1> QED BY <1>1, <1>2, <1>3, <1>6, <1>7, <1>8, <1>9, <1>10, <1>11, <1>12, PageMoves

LEMMA PayAnsweredStep ==
    ASSUME RoomInv, PayAnswered
    PROVE  RoomInv'
<1>0. /\ room \in RoomType /\ get \in [Fetches -> FetchType] /\ post \in [Buttons -> PostType]
      /\ order \in OrderType /\ talk \in TalkType /\ party \in PartyType
      /\ paid \in BOOLEAN /\ unheard \in BOOLEAN /\ taps \in 0..RoomClicks /\ news \in 0..MaxNews
  BY TypesAre DEF RoomInv
<1>b. "pay" \in Buttons /\ "release" \in Buttons /\ "reopen" \in Buttons
  BY DEF Buttons
<1>1. /\ post["pay"].st \in {"yes", "no"} /\ post' = [post EXCEPT !["pay"] = NoPost]
      /\ UNCHANGED <<party, order, paid, get, news, unheard, taps>>
  BY DEF PayAnswered
<1>2. Working(post["pay"])
  BY <1>1 DEF Working
<1>3. /\ post' \in [Buttons -> PostType] /\ post'["pay"].st = "none" /\ ~Working(post'["pay"])
      /\ \A b \in Buttons \ {"pay"} : post'[b] = post[b]
  BY <1>0, <1>1, <1>b, TakenUp
<1>4. post'["release"] = post["release"] /\ post'["reopen"] = post["reopen"]
  BY <1>b, <1>3
<1> DEFINE l == IF post["pay"].st = "yes" THEN "PENDING" ELSE room.local
<1>5. room' = [room EXCEPT !.busy = room.busy \ {"pay"}, !.local = l]
  BY <1>0, <1>1 DEF PayAnswered, RoomType
<1>6. /\ l \in OrderStatus \cup {None} /\ l \in {room.local, "PENDING"}
      /\ l = "PENDING" => paid
      /\ post["pay"].st = "yes" => l = "PENDING" /\ paid
      /\ l # "PENDING" => l = room.local
  BY <1>0 DEF RoomType, OrderStatus, RoomInv, ViewInv, PostInv
<1> HIDE DEF l
<1>7. /\ room' \in RoomType /\ room'.view = room.view /\ room'.local = l
      /\ room'.loading = room.loading /\ room'.offer = room.offer /\ room'.busy = room.busy \ {"pay"}
      /\ room'.expired = room.expired
  BY <1>0, <1>5, <1>6 DEF RoomType
<1>8. TalkInv'
  <2>1. talk' = IF post["pay"].st = "yes" THEN Hand(talk, "paid") ELSE talk
    BY <1>1 DEF PayAnswered
  <2>2. "paid" \in Messages
    BY DEF Messages
  <2>3. post["pay"].st = "yes" => TalkOk(Hand(talk, "paid"), order, paid, party)
    BY <1>6, <2>2, HandKeeps DEF RoomInv, TalkInv
  <2> QED BY <1>1, <2>1, <2>3 DEF RoomInv, TalkInv
<1>9. ViewInv'
  BY <1>1, <1>4, <1>6, <1>7 DEF RoomInv, ViewInv
<1>10. GetInv'
  BY <1>1, <1>7 DEF RoomInv, GetInv
<1>11. PostInv'
  <2>1. \A k \in Buttons : post'[k].st = "left" => unheard
    BY <1>3 DEF RoomInv, PostInv
  <2>2. \A k \in Buttons : Working(post'[k]) => ~room.loading
    BY <1>3 DEF RoomInv, PostInv
  <2> QED BY <1>1, <1>3, <1>4, <1>7, <2>1, <2>2 DEF RoomInv, PostInv
<1>12. ReopenInv'
  BY <1>1, <1>3, <1>4, <1>7 DEF RoomInv, ReopenInv
<1>13. BusyInv'
  BY <1>3, <1>7 DEF RoomInv, BusyInv, RoomType
<1>14. BuyerInv'
  <2> SUFFICES ASSUME IsBuyer(party) PROVE BuyerInv'
    BY <1>1 DEF BuyerInv
  <2>1. RoleIn(party, room.offer) = "buyer"
    BY <1>2 DEF RoomInv, BuyerInv
  <2>2. l = None => l = room.local /\ post["pay"].st # "yes"
    BY <1>6, Distinctions
  <2>3. Working(post["release"]) => post["release"].before.status = "PENDING"
    BY DEF RoomInv, BuyerInv
  <2> QED BY <1>1, <1>3, <1>4, <1>7, <2>1, <2>2, <2>3 DEF RoomInv, BuyerInv
<1>15. get' \in [Fetches -> FetchType] /\ unheard' \in BOOLEAN /\ news' \in 0..MaxNews /\ taps' \in 0..RoomClicks
  BY <1>0, <1>1
<1> QED BY <1>1, <1>3, <1>7, <1>8, <1>9, <1>10, <1>11, <1>12, <1>13, <1>14, <1>15, PageMoves

LEMMA ReleaseClickedStep ==
    ASSUME RoomInv, ReleaseClicked
    PROVE  RoomInv'
<1>0. /\ room \in RoomType /\ get \in [Fetches -> FetchType] /\ post \in [Buttons -> PostType]
      /\ order \in OrderType /\ talk \in TalkType /\ party \in PartyType
      /\ paid \in BOOLEAN /\ unheard \in BOOLEAN /\ taps \in 0..RoomClicks /\ news \in 0..MaxNews
  BY TypesAre DEF RoomInv
<1>b. "pay" \in Buttons /\ "release" \in Buttons /\ "reopen" \in Buttons
  BY DEF Buttons
<1> DEFINE v == [room.view EXCEPT !.status = "CONFIRMED"]
           r == [room EXCEPT !.busy = room.busy \cup {"release"}]
<1>1. /\ UserRole = "seller" /\ EffectiveStatus = "PENDING" /\ ~room.loading /\ room.view # NoOrder
      /\ Send("release", room.view) /\ Tap
      /\ room' = WithOrder(r, v) /\ talk' = Greet(talk)
      /\ UNCHANGED <<party, order, paid, get, news, unheard>>
  BY <1>0 DEF ReleaseClicked, OffersRelease, HasButtonsOf, Skeleton, RoomType, SetOrder
<1>2. room.view \in P2POrder /\ room.view \in P2POrder \cup {NoOrder}
  BY <1>0, <1>1 DEF RoomType
<1>3. v \in P2POrder /\ v.status = "CONFIRMED" /\ v.term = room.view.term
  BY <1>2 DEF P2POrder, OrderStatus
<1>4. /\ r \in RoomType /\ r.view = room.view /\ r.local = room.local /\ r.loading = room.loading
      /\ r.offer = room.offer /\ r.busy = room.busy \cup {"release"}
  BY <1>0, <1>b DEF RoomType
<1> HIDE DEF v, r
<1>5. /\ room' \in RoomType /\ room'.view = v
      /\ room'.local = (IF v.status # room.view.status THEN None ELSE room.local)
      /\ room'.loading = room.loading /\ room'.offer = room.offer /\ room'.busy = room.busy \cup {"release"}
  BY <1>0, <1>1, <1>3, <1>4, WithOrderIs
<1>6. /\ post' \in [Buttons -> PostType] /\ post'["release"].st = "sent" /\ post'["release"].before = room.view
      /\ ~Working(post["release"]) /\ Working(post'["release"])
      /\ \A b \in Buttons \ {"release"} : post'[b] = post[b]
  BY <1>0, <1>1, <1>2, <1>b, Sent
<1>7. post'["pay"] = post["pay"] /\ post'["reopen"] = post["reopen"]
  BY <1>b, <1>6
<1>8. paid
  <2>1. room.local = "PENDING" \/ room.view.status = "PENDING"
    BY <1>1 DEF EffectiveStatus
  <2> QED BY <1>1, <2>1 DEF RoomInv, ViewInv, Displayed, Told, Claimed
<1>9. Displayed(room.view, order, paid, FALSE)
  BY <1>6 DEF RoomInv, ViewInv, Displayed
<1>10. taps' \in 0..RoomClicks
  BY <1>0, <1>1, TapLeft
<1>11. ViewInv'
  <2>1. Displayed(v, order, paid, TRUE)
    BY <1>3, <1>8 DEF Displayed, Claimed
  <2>2. Displayed(v, order, paid, Working(post'["release"]))
    BY <1>6, <2>1 DEF Displayed
  <2>3. /\ room'.local \in {None, "OPEN", "PENDING", "CONFIRMED"}
        /\ room'.local = "PENDING" => paid
        /\ room'.local = "CONFIRMED" => order.status = "COMPLETED"
    BY <1>5, <1>8, Distinctions DEF RoomInv, ViewInv
  <2> QED BY <1>1, <1>3, <1>5, <2>2, <2>3 DEF ViewInv
<1>12. GetInv'
  BY <1>1, <1>5 DEF RoomInv, GetInv
<1>13. PostInv'
  <2>1. \A k \in Buttons : post'[k].st = "left" => unheard
    BY <1>6 DEF RoomInv, PostInv
  <2>2. \A k \in Buttons : Working(post'[k]) => ~room.loading
    BY <1>1
  <2> QED BY <1>1, <1>5, <1>6, <1>7, <1>8, <1>9, <2>1, <2>2 DEF RoomInv, PostInv
<1>14. ReopenInv'
  BY <1>1, <1>8 DEF ReopenInv
<1>15. TalkInv'
  BY <1>1, GreetKeeps DEF RoomInv, TalkInv
<1>16. BusyInv'
  BY <1>5, <1>6 DEF RoomInv, BusyInv, RoomType
<1>17. BuyerInv'
  <2> SUFFICES ASSUME IsBuyer(party) PROVE BuyerInv'
    BY <1>1 DEF BuyerInv
  <2>1. RoleIn(party, room.offer) = "seller"
    BY <1>1 DEF UserRole, RoleIn
  <2>2. ~Working(post["pay"]) /\ room.local # "PENDING"
    BY <2>1 DEF RoomInv, BuyerInv
  <2>3. room.view.status = "PENDING"
    BY <1>1, <2>2 DEF EffectiveStatus
  <2>4. room'.local # "PENDING"
    BY <1>5, <2>2, Distinctions
  <2>5. v.status # "OPEN"
    BY <1>3
  <2> QED BY <1>1, <1>5, <1>6, <1>7, <2>2, <2>3, <2>4, <2>5 DEF RoomInv, BuyerInv
<1>18. get' \in [Fetches -> FetchType] /\ unheard' \in BOOLEAN /\ news' \in 0..MaxNews
  BY <1>0, <1>1
<1> QED BY <1>1, <1>5, <1>6, <1>10, <1>11, <1>12, <1>13, <1>14, <1>15, <1>16, <1>17, <1>18, PageMoves

LEMMA ReleaseAnsweredStep ==
    ASSUME RoomInv, ReleaseAnswered
    PROVE  RoomInv'
<1>0. /\ room \in RoomType /\ get \in [Fetches -> FetchType] /\ post \in [Buttons -> PostType]
      /\ order \in OrderType /\ talk \in TalkType /\ party \in PartyType
      /\ paid \in BOOLEAN /\ unheard \in BOOLEAN /\ taps \in 0..RoomClicks /\ news \in 0..MaxNews
  BY TypesAre DEF RoomInv
<1>b. "pay" \in Buttons /\ "release" \in Buttons /\ "reopen" \in Buttons
  BY DEF Buttons
<1> DEFINE r == [room EXCEPT !.busy = room.busy \ {"release"}]
           b == post["release"].before
<1>1. /\ post["release"].st \in {"yes", "no"} /\ post' = [post EXCEPT !["release"] = NoPost]
      /\ UNCHANGED <<party, order, paid, get, news, unheard, taps>>
      /\ \/ /\ post["release"].st = "yes"
            /\ room' = [r EXCEPT !.local = "CONFIRMED", !.modal = FALSE]
            /\ talk' = Hand(talk, "released")
         \/ room' = WithOrder(r, b) /\ talk' = Greet(talk)
  BY <1>0 DEF ReleaseAnswered, RoomType, SetOrder
<1>2. Working(post["release"])
  BY <1>1 DEF Working
<1>3. /\ post' \in [Buttons -> PostType] /\ post'["release"].st = "none" /\ ~Working(post'["release"])
      /\ \A k \in Buttons \ {"release"} : post'[k] = post[k]
  BY <1>0, <1>1, <1>b, TakenUp
<1>4. post'["pay"] = post["pay"] /\ post'["reopen"] = post["reopen"]
  BY <1>b, <1>3
<1>5. paid /\ Displayed(b, order, paid, FALSE) /\ b \in P2POrder \cup {NoOrder}
  BY <1>0, <1>2, <1>b DEF RoomInv, PostInv, PostType
<1>6. IsBuyer(party) => b.status = "PENDING"
  BY <1>2 DEF RoomInv, BuyerInv
<1>7. /\ r \in RoomType /\ r.view = room.view /\ r.local = room.local /\ r.loading = room.loading
      /\ r.offer = room.offer /\ r.busy = room.busy \ {"release"} /\ r.expired = room.expired
  BY <1>0 DEF RoomType
<1> HIDE DEF r, b
<1>8. ASSUME room' \in RoomType, room'.loading = room.loading, room'.offer = room.offer,
             room'.busy = room.busy \ {"release"}, ViewInv', TalkInv',
             IsBuyer(party) => room'.local # "PENDING" \/ RoleIn(party, room.offer) = "buyer",
             IsBuyer(party) => room'.view.status # "OPEN" \/ room'.local # None
      PROVE  RoomInv'
  <2>1. GetInv'
    BY <1>1, <1>8 DEF RoomInv, GetInv
  <2>2. PostInv'
    <3>1. \A k \in Buttons : post'[k].st = "left" => unheard
      BY <1>3 DEF RoomInv, PostInv
    <3>2. \A k \in Buttons : Working(post'[k]) => ~room.loading
      BY <1>3 DEF RoomInv, PostInv
    <3> QED BY <1>1, <1>3, <1>4, <1>8, <3>1, <3>2 DEF RoomInv, PostInv
  <2>3. ReopenInv'
    BY <1>1, <1>5 DEF ReopenInv
  <2>4. BusyInv'
    BY <1>0, <1>3, <1>8 DEF RoomInv, BusyInv, RoomType
  <2>5. BuyerInv'
    BY <1>1, <1>3, <1>4, <1>8 DEF RoomInv, BuyerInv
  <2>6. get' \in [Fetches -> FetchType] /\ unheard' \in BOOLEAN /\ news' \in 0..MaxNews /\ taps' \in 0..RoomClicks
    BY <1>0, <1>1
  <2> QED BY <1>1, <1>3, <1>8, <2>1, <2>2, <2>3, <2>4, <2>5, <2>6, PageMoves
<1>9. CASE post["release"].st = "yes" /\ room' = [r EXCEPT !.local = "CONFIRMED", !.modal = FALSE]
           /\ talk' = Hand(talk, "released")
  <2>1. /\ room' \in RoomType /\ room'.loading = room.loading /\ room'.offer = room.offer
        /\ room'.busy = room.busy \ {"release"} /\ room'.view = room.view /\ room'.local = "CONFIRMED"
        /\ room'.expired = room.expired
    BY <1>7, <1>9 DEF RoomType, OrderStatus
  <2>2. order.status = "COMPLETED"
    BY <1>9 DEF RoomInv, PostInv
  <2>3. ViewInv'
    <3>1. Displayed(room.view, order, paid, Working(post'["release"]))
      BY <2>2 DEF RoomInv, ViewInv, Displayed
    <3> QED BY <1>1, <2>1, <2>2, <3>1 DEF RoomInv, ViewInv
  <2>4. TalkInv'
    <3>1. "released" \in Messages
      BY DEF Messages
    <3> QED BY <1>1, <1>9, <2>2, <3>1, HandKeeps DEF RoomInv, TalkInv
  <2> QED BY <1>8, <2>1, <2>3, <2>4, Distinctions
<1>10. CASE room' = WithOrder(r, b) /\ talk' = Greet(talk)
  <2>1. /\ room' \in RoomType /\ room'.view = b /\ room'.expired = Over(b, order)
        /\ room'.local = (IF b.status # room.view.status THEN None ELSE room.local)
        /\ room'.loading = room.loading /\ room'.offer = room.offer
        /\ room'.busy = room.busy \ {"release"}
    BY <1>0, <1>5, <1>7, <1>10, WithOrderIs
  <2>2. b.status = "EXPIRED" => Over(b, order)
    BY <1>5, Distinctions DEF Displayed, Told, Claimed
  <2>3. ViewInv'
    <3>1. Displayed(b, order, paid, Working(post'["release"]))
      BY <1>5 DEF Displayed
    <3>2. /\ room'.local \in {None, "OPEN", "PENDING", "CONFIRMED"}
          /\ room'.local = "CONFIRMED" => order.status = "COMPLETED"
      BY <2>1, Distinctions DEF RoomInv, ViewInv
    <3> QED BY <1>1, <1>5, <2>1, <2>2, <3>1, <3>2 DEF ViewInv
  <2>4. TalkInv'
    BY <1>1, <1>10, GreetKeeps DEF RoomInv, TalkInv
  <2>5. IsBuyer(party) => room'.local # "PENDING" \/ RoleIn(party, room.offer) = "buyer"
    BY <2>1, Distinctions DEF RoomInv, BuyerInv
  <2>6. IsBuyer(party) => room'.view.status # "OPEN"
    BY <1>6, <2>1
  <2> QED BY <1>8, <2>1, <2>3, <2>4, <2>5, <2>6
<1> QED BY <1>1, <1>9, <1>10

LEMMA ReopenClickedStep ==
    ASSUME RoomInv, ReopenClicked
    PROVE  RoomInv'
<1>0. /\ room \in RoomType /\ get \in [Fetches -> FetchType] /\ post \in [Buttons -> PostType]
      /\ order \in OrderType /\ talk \in TalkType /\ party \in PartyType
      /\ paid \in BOOLEAN /\ unheard \in BOOLEAN /\ taps \in 0..RoomClicks /\ news \in 0..MaxNews
  BY TypesAre DEF RoomInv
<1>b. "pay" \in Buttons /\ "release" \in Buttons /\ "reopen" \in Buttons
  BY DEF Buttons
<1>1. /\ ~room.loading /\ EffectiveStatus = "EXPIRED"
      /\ Send("reopen", room.view) /\ Tap
      /\ room' = [room EXCEPT !.busy = room.busy \cup {"reopen"}]
      /\ UNCHANGED <<party, order, paid, get, news, talk, unheard>>
  BY <1>0 DEF ReopenClicked, OffersReopen, CanReopen, Skeleton, RoomType
<1>2. /\ room' \in RoomType /\ room'.view = room.view /\ room'.local = room.local
      /\ room'.loading = room.loading /\ room'.offer = room.offer /\ room'.busy = room.busy \cup {"reopen"}
      /\ room'.expired = room.expired
  BY <1>0, <1>1, <1>b DEF RoomType
<1>3. /\ post' \in [Buttons -> PostType] /\ post'["reopen"].st = "sent"
      /\ ~Working(post["reopen"]) /\ Working(post'["reopen"])
      /\ \A b \in Buttons \ {"reopen"} : post'[b] = post[b]
  <2>1. room.view \in P2POrder \cup {NoOrder}
    BY <1>0 DEF RoomType
  <2> QED BY <1>0, <1>1, <1>b, <2>1, Sent
<1>4. post'["release"] = post["release"] /\ post'["pay"] = post["pay"]
  BY <1>b, <1>3
<1>5. room.view.status = "EXPIRED"
  <2>1. room.local # "EXPIRED"
    BY Distinctions DEF RoomInv, ViewInv
  <2> QED BY <1>1, <2>1 DEF EffectiveStatus
<1>6. taps' \in 0..RoomClicks
  BY <1>0, <1>1, TapLeft
<1>7. ViewInv' /\ GetInv' /\ TalkInv'
  BY <1>1, <1>2, <1>4 DEF RoomInv, ViewInv, GetInv, TalkInv
<1>8. PostInv'
  <2>1. \A k \in Buttons : post'[k].st = "left" => unheard
    BY <1>3 DEF RoomInv, PostInv
  <2>2. \A k \in Buttons : Working(post'[k]) => ~room.loading
    BY <1>1
  <2> QED BY <1>1, <1>2, <1>3, <1>4, <2>1, <2>2 DEF RoomInv, PostInv
<1>9. ReopenInv'
  BY <1>1, <1>2, <1>3, <1>4, <1>5 DEF RoomInv, ReopenInv
<1>10. BusyInv'
  BY <1>2, <1>3 DEF RoomInv, BusyInv, RoomType
<1>11. BuyerInv'
  BY <1>1, <1>2, <1>4 DEF RoomInv, BuyerInv
<1>12. get' \in [Fetches -> FetchType] /\ unheard' \in BOOLEAN /\ news' \in 0..MaxNews
  BY <1>0, <1>1
<1> QED BY <1>1, <1>2, <1>3, <1>6, <1>7, <1>8, <1>9, <1>10, <1>11, <1>12, PageMoves

LEMMA ReopenAnsweredStep ==
    ASSUME RoomInv, ReopenAnswered
    PROVE  RoomInv'
<1>0. /\ room \in RoomType /\ get \in [Fetches -> FetchType] /\ post \in [Buttons -> PostType]
      /\ order \in OrderType /\ talk \in TalkType /\ party \in PartyType
      /\ paid \in BOOLEAN /\ unheard \in BOOLEAN /\ taps \in 0..RoomClicks /\ news \in 0..MaxNews
  BY TypesAre DEF RoomInv
<1>b. "pay" \in Buttons /\ "release" \in Buttons /\ "reopen" \in Buttons
  BY DEF Buttons
<1>1. /\ post["reopen"].st \in {"yes", "no"} /\ post' = [post EXCEPT !["reopen"] = NoPost]
      /\ room' = [room EXCEPT !.busy = room.busy \ {"reopen"}]
      /\ UNCHANGED <<party, order, paid, news, talk, unheard, taps>>
      /\ \/ post["reopen"].st = "yes" /\ \E s \in Fetches : Fetch(s, "reopen")
         \/ UNCHANGED get
  BY <1>0 DEF ReopenAnswered, RoomType
<1>2. /\ room' \in RoomType /\ room'.view = room.view /\ room'.local = room.local
      /\ room'.loading = room.loading /\ room'.offer = room.offer /\ room'.busy = room.busy \ {"reopen"}
      /\ room'.expired = room.expired
  BY <1>0, <1>1 DEF RoomType
<1>3. /\ post' \in [Buttons -> PostType] /\ post'["reopen"].st = "none" /\ ~Working(post'["reopen"])
      /\ \A k \in Buttons \ {"reopen"} : post'[k] = post[k]
  BY <1>0, <1>1, <1>b, TakenUp
<1>4. post'["pay"] = post["pay"] /\ post'["release"] = post["release"]
  BY <1>b, <1>3
<1>5. Working(post["reopen"]) /\ ~room.loading
  BY <1>1, <1>b DEF Working, RoomInv, PostInv
<1>6. ViewInv' /\ TalkInv'
  BY <1>1, <1>2, <1>4 DEF RoomInv, ViewInv, TalkInv
<1>7. PostInv'
  <2>1. \A k \in Buttons : post'[k].st = "left" => unheard
    BY <1>3 DEF RoomInv, PostInv
  <2>2. \A k \in Buttons : Working(post'[k]) => ~room.loading
    BY <1>5
  <2> QED BY <1>1, <1>2, <1>3, <1>4, <2>1, <2>2 DEF RoomInv, PostInv
<1>8. BusyInv'
  BY <1>2, <1>3 DEF RoomInv, BusyInv, RoomType
<1>9. unheard' \in BOOLEAN /\ news' \in 0..MaxNews /\ taps' \in 0..RoomClicks
  BY <1>0, <1>1
<1>10. ASSUME get' \in [Fetches -> FetchType], GetInv', ReopenInv',
              \A t \in Fetches : get'[t].st = "read" => get'[t] = get[t]
       PROVE  RoomInv'
  <2>1. BuyerInv'
    <3> SUFFICES ASSUME IsBuyer(party) PROVE BuyerInv'
      BY <1>1 DEF BuyerInv
    <3>1. paid /\ ~unheard =>
            \A t \in Fetches : get'[t].st = "read" /\ get'[t].snap.status = "OPEN" =>
                get'[t].snap.term > 2 \/ get'[t].snap.term < order.term
      BY <1>10 DEF RoomInv, BuyerInv
    <3> QED BY <1>1, <1>2, <1>4, <3>1 DEF RoomInv, BuyerInv
  <2> QED BY <1>1, <1>2, <1>3, <1>6, <1>7, <1>8, <1>9, <1>10, <2>1, PageMoves
<1>11. CASE UNCHANGED get
  <2>1. GetInv' /\ ReopenInv'
    BY <1>1, <1>2, <1>3, <1>4, <1>11 DEF RoomInv, GetInv, ReopenInv
  <2> QED BY <1>0, <1>10, <1>11, <2>1
<1>12. ASSUME post["reopen"].st = "yes", NEW s \in Fetches, Fetch(s, "reopen") PROVE RoomInv'
  <2>1. get[s].st = "none" /\ get' = [get EXCEPT ![s] = [NoFetch EXCEPT !.why = "reopen", !.st = "sent"]]
    BY <1>12 DEF Fetch
  <2>2. /\ get' \in [Fetches -> FetchType] /\ get'[s].why = "reopen" /\ get'[s].st = "sent"
        /\ \A t \in Fetches \ {s} : get'[t] = get[t]
    BY <1>0, <2>1 DEF NoFetch, FetchType
  <2>3. party.creator /\ order.term >= 2
    BY <1>12 DEF RoomInv, PostInv
  <2>4. GetInv'
    <3>1. \A t \in Fetches : \A w \in {"mount", "event"} : Asks(get'[t], w) => Asks(get[t], w)
      BY <2>2 DEF Asks
    <3>2. \A t \in Fetches : get'[t].st = "read" => Told(get'[t].snap, order, paid)
      BY <2>2 DEF RoomInv, GetInv
    <3>3. \A t \in Fetches : get'[t].st # "none" => get'[t].why # None
      BY <2>2, Distinctions DEF RoomInv, GetInv
    <3>4. /\ \A t, u \in Fetches : Asks(get'[t], "mount") /\ Asks(get'[u], "mount") => t = u
          /\ \A t \in Fetches : Asks(get'[t], "mount") => room.loading
          /\ \A t \in Fetches : Asks(get'[t], "event") => paid
          /\ news > 0 => paid
      BY <3>1 DEF RoomInv, GetInv
    <3> QED BY <1>1, <1>2, <1>5, <2>3, <3>2, <3>3, <3>4 DEF GetInv
  <2>5. ReopenInv'
    <3>1. ASSUME ~paid, order.term <= 2
          PROVE  /\ room.view.status = "EXPIRED" /\ ~Working(post["pay"])
                 /\ \A t \in Fetches : ~Asks(get[t], "reopen")
      BY <1>12, <2>3, <3>1 DEF RoomInv, ReopenInv
    <3>2. ASSUME ~paid, order.term <= 2
          PROVE  \A t \in Fetches : Asks(get'[t], "reopen") => t = s
      BY <2>2, <3>1, <3>2 DEF Asks
    <3>3. order.term # 1
      BY <2>3
    <3> QED BY <1>1, <1>2, <1>3, <1>4, <3>1, <3>2, <3>3 DEF ReopenInv
  <2>6. \A t \in Fetches : get'[t].st = "read" => get'[t] = get[t]
    BY <2>2
  <2> QED BY <1>10, <2>2, <2>4, <2>5, <2>6
<1> QED BY <1>1, <1>11, <1>12

-----------------------------------------------------------------------------
(* The page is opened, and opened again.                                     *)
LEMMA FirstFetchIs ==
    ASSUME NEW gets, FirstFetch(gets)
    PROVE  /\ gets \in [Fetches -> FetchType]
           /\ \E s \in Fetches : /\ gets[s].why = "mount" /\ gets[s].st = "sent"
                                 /\ \A t \in Fetches \ {s} : gets[t].st = "none"
<1> DEFINE s == CHOOSE g \in Fetches : TRUE
<1>1. s \in Fetches
  BY Distinctions
<1>2. gets = [[g \in Fetches |-> NoFetch] EXCEPT ![s] = [NoFetch EXCEPT !.why = "mount", !.st = "sent"]]
  BY DEF FirstFetch
<1> HIDE DEF s
<1>3. NoFetch \in FetchType /\ NoFetch.st = "none" /\ [NoFetch EXCEPT !.why = "mount", !.st = "sent"] \in FetchType
  BY DEF NoFetch, FetchType
<1>4. gets \in [Fetches -> FetchType] /\ gets[s].why = "mount" /\ gets[s].st = "sent"
      /\ \A t \in Fetches \ {s} : gets[t].st = "none"
  BY <1>1, <1>2, <1>3 DEF NoFetch
<1> QED BY <1>1, <1>4

LEMMA ReloadStep ==
    ASSUME RoomInv, Reload
    PROVE  RoomInv'
<1>0. /\ room \in RoomType /\ get \in [Fetches -> FetchType] /\ post \in [Buttons -> PostType]
      /\ order \in OrderType /\ talk \in TalkType /\ party \in PartyType
      /\ paid \in BOOLEAN /\ unheard \in BOOLEAN /\ taps \in 0..RoomClicks /\ news \in 0..MaxNews
  BY TypesAre DEF RoomInv
<1>b. "pay" \in Buttons /\ "release" \in Buttons /\ "reopen" \in Buttons
  BY DEF Buttons
<1>1. /\ Tap /\ room' = NewRoom /\ FirstFetch(get')
      /\ talk' = [NewTalk(talk.greet) EXCEPT !.delivered = talk.delivered]
      /\ post' = [k \in Buttons |-> IF post[k].st = "sent" THEN [NoPost EXCEPT !.st = "left"] ELSE NoPost]
      /\ unheard' = (unheard \/ \E k \in Buttons : post[k].st # "none")
      /\ UNCHANGED <<party, order, paid, news>>
  BY DEF Reload
<1>2. /\ room' \in RoomType /\ room'.view = NoOrder /\ room'.local = None /\ room'.loading
      /\ room'.busy = {}
  BY <1>1 DEF NewRoom, RoomType
<1>3. /\ post' \in [Buttons -> PostType]
      /\ \A k \in Buttons : post'[k].st \in {"none", "left"} /\ ~Working(post'[k])
      /\ \A k \in Buttons : post'[k].st = "left" => post[k].st = "sent"
  <2>1. NoPost \in PostType /\ NoPost.st = "none" /\ [NoPost EXCEPT !.st = "left"] \in PostType
        /\ [NoPost EXCEPT !.st = "left"].st = "left"
    BY DEF NoPost, PostType
  <2> QED BY <1>1, <2>1 DEF Working
<1>4. /\ ~Working(post'["pay"]) /\ ~Working(post'["release"])
      /\ post'["pay"].st # "yes" /\ post'["release"].st # "yes"
      /\ post'["reopen"].st # "yes" /\ post'["reopen"].st # "sent"
  BY <1>b, <1>3
<1>5. unheard' \in BOOLEAN /\ (unheard => unheard') /\ \A k \in Buttons : post'[k].st = "left" => unheard'
  <2>1. \A k \in Buttons : post[k].st = "sent" => unheard'
    BY <1>1
  <2> QED BY <1>0, <1>1, <1>3, <2>1
<1>6. PICK s \in Fetches : /\ get'[s].why = "mount" /\ get'[s].st = "sent"
                           /\ \A t \in Fetches \ {s} : get'[t].st = "none"
  BY <1>1, FirstFetchIs
<1>7. get' \in [Fetches -> FetchType]
  BY <1>1, FirstFetchIs
<1>8. ViewInv'
  BY <1>1, <1>2, Distinctions DEF ViewInv, Displayed
<1>9. PostInv'
  BY <1>3, <1>4, <1>5 DEF PostInv
<1>10. GetInv'
  <2>1. \A t \in Fetches : get'[t].st # "none" => t = s
    BY <1>6
  <2> QED BY <1>1, <1>2, <1>6, <2>1, Distinctions DEF RoomInv, GetInv, Asks
<1>11. ReopenInv'
  <2>1. \A t \in Fetches : ~Asks(get'[t], "reopen")
    BY <1>6 DEF Asks
  <2> QED BY <1>4, <2>1 DEF ReopenInv
<1>12. BuyerInv'
  <2>1. \A t \in Fetches : get'[t].st # "read"
    BY <1>6
  <2> QED BY <1>2, <1>4, <2>1, Distinctions DEF BuyerInv
<1>13. TalkInv'
  <2>1. /\ talk.greet \in BOOLEAN /\ talk.delivered \subseteq Messages
    BY <1>0 DEF TalkType
  <2>2. /\ talk' \in TalkType /\ talk'.with = None /\ talk'.auto = None /\ talk'.greet = talk.greet
        /\ talk'.delivered = talk.delivered /\ \A m \in Messages : talk'.sending[m] = 0
    <3> DEFINE idle == [m \in Messages |-> 0]
    <3>1. talk' = [with |-> None, auto |-> None, fresh |-> FALSE, greet |-> talk.greet,
                   sending |-> idle, delivered |-> talk.delivered]
      BY <1>1 DEF NewTalk
    <3>2. idle \in [Messages -> 0..MaxSends] /\ \A m \in Messages : idle[m] = 0
      BY Bounds
    <3> HIDE DEF idle
    <3> QED BY <2>1, <3>1, <3>2 DEF TalkType
  <2>3. \A m \in Messages : talk'.auto # m
    BY <2>2, Distinctions
  <2>4. \A m \in Messages : ~(talk'.sending[m] > 0)
    BY <2>2
  <2>5. TalkOk(talk, order, paid, party)
    BY DEF RoomInv, TalkInv
  <2>6. TalkOk(talk', order, paid, party)
    BY <2>2, <2>3, <2>4, <2>5 DEF TalkOk
  <2> QED BY <1>1, <2>6 DEF TalkInv
<1>14. BusyInv'
  BY <1>2 DEF BusyInv
<1>15. taps' \in 0..RoomClicks /\ news' \in 0..MaxNews
  BY <1>0, <1>1, TapLeft
<1> QED BY <1>1, <1>2, <1>3, <1>5, <1>7, <1>8, <1>9, <1>10, <1>11, <1>12, <1>13, <1>14, <1>15, PageMoves

LEMMA RoomStart ==
    ASSUME RoomInit
    PROVE  RoomInv
<1>b. "pay" \in Buttons /\ "release" \in Buttons /\ "reopen" \in Buttons
  BY DEF Buttons
<1>1. /\ party \in PartyType /\ paid = FALSE /\ unheard = FALSE /\ news = 0 /\ taps = RoomClicks
      /\ order = [status |-> IF party.side = "BUY" THEN "WAITING_TRANSFER" ELSE "OPEN",
                  prev |-> None, term |-> 1, late |-> FALSE]
      /\ room = NewRoom /\ post = [k \in Buttons |-> NoPost] /\ FirstFetch(get)
      /\ talk = NewTalk(party.creator)
  BY DEF RoomInit, PartyType
<1>2. /\ order \in OrderType /\ order.status \in {"WAITING_TRANSFER", "OPEN"} /\ order.term = 1
  BY <1>1, Bounds DEF OrderType, OrderStatus, Terms
<1>3. /\ room \in RoomType /\ room.view = NoOrder /\ room.local = None /\ room.loading /\ room.busy = {}
  BY <1>1 DEF NewRoom, RoomType
<1>4. post \in [Buttons -> PostType] /\ \A k \in Buttons : post[k].st = "none" /\ ~Working(post[k])
  <2>1. NoPost \in PostType /\ NoPost.st = "none"
    BY DEF NoPost, PostType
  <2> QED BY <1>1, <2>1 DEF Working
<1>5. /\ ~Working(post["pay"]) /\ ~Working(post["release"])
      /\ post["pay"].st # "yes" /\ post["release"].st # "yes"
      /\ post["reopen"].st # "yes" /\ post["reopen"].st # "sent"
  BY <1>b, <1>4
<1>6. PICK s \in Fetches : /\ get[s].why = "mount" /\ get[s].st = "sent"
                           /\ \A t \in Fetches \ {s} : get[t].st = "none"
  BY <1>1, FirstFetchIs
<1>7. get \in [Fetches -> FetchType]
  BY <1>1, FirstFetchIs
<1>8. OrderInv
  BY <1>1, <1>2 DEF OrderInv, Stage
<1>9. ViewInv
  BY <1>3, Distinctions DEF ViewInv, Displayed
<1>10. PostInv
  BY <1>4, <1>5 DEF PostInv
<1>11. GetInv
  <2>1. \A t \in Fetches : get[t].st # "none" => t = s
    BY <1>6
  <2>2. ~(news > 0)
    BY <1>1
  <2> QED BY <1>3, <1>6, <2>1, <2>2, Distinctions DEF GetInv, Asks
<1>12. ReopenInv
  <2>1. \A t \in Fetches : ~Asks(get[t], "reopen")
    BY <1>6 DEF Asks
  <2> QED BY <1>5, <2>1 DEF ReopenInv
<1>13. BuyerInv
  BY <1>1, <1>3, <1>5, Distinctions DEF BuyerInv
<1>14. talk \in TalkType /\ TalkInv
  <2> DEFINE idle == [m \in Messages |-> 0]
  <2>0. party.creator \in BOOLEAN
    BY <1>1 DEF PartyType
  <2>1. talk = [with |-> None, auto |-> None, fresh |-> FALSE, greet |-> party.creator,
                sending |-> idle, delivered |-> {}]
    BY <1>1 DEF NewTalk
  <2>2. idle \in [Messages -> 0..MaxSends] /\ \A m \in Messages : idle[m] = 0
    BY Bounds
  <2> HIDE DEF idle
  <2>3. talk \in TalkType
    BY <2>0, <2>1, <2>2 DEF TalkType
  <2>4. /\ talk.with = None /\ talk.greet = party.creator /\ talk.delivered = {}
        /\ \A m \in Messages : talk.auto # m /\ ~(talk.sending[m] > 0)
    <3>1. talk.with = None /\ talk.greet = party.creator /\ talk.delivered = {}
      BY <2>1, Zenon
    <3>2. talk.auto = None /\ talk.sending = idle
      BY <2>1
    <3>3. \A m \in Messages : talk.auto # m
      BY <3>2, Distinctions
    <3>4. \A m \in Messages : ~(talk.sending[m] > 0)
      BY <2>2, <3>2
    <3> QED BY <3>1, <3>3, <3>4
  <2>5. party.creator /\ ~talk.greet => talk.delivered # {}
    BY <2>4
  <2> QED BY <2>3, <2>4, <2>5 DEF TalkInv, TalkOk
<1>15. BusyInv
  BY <1>3 DEF BusyInv
<1>16. RoomTypeOK
  <2>1. news \in 0..MaxNews /\ taps \in 0..RoomClicks
    BY <1>1, Bounds
  <2>2. paid \in BOOLEAN /\ unheard \in BOOLEAN
    BY <1>1
  <2> QED BY <1>1, <1>2, <1>3, <1>4, <1>7, <1>14, <2>1, <2>2
          DEF RoomTypeOK, RoomType, PostType, FetchType, OrderType, TalkType, PartyType
<1> QED BY <1>8, <1>9, <1>10, <1>11, <1>12, <1>13, <1>14, <1>15, <1>16 DEF RoomInv

LEMMA RoomStep ==
    ASSUME RoomInv, [RoomNext]_roomVars
    PROVE  RoomInv'
<1>1. CASE UNCHANGED roomVars
  <2>0. UNCHANGED <<party, order, paid, room, post, get, news, talk, unheard, taps>>
    BY <1>1 DEF roomVars
  <2>1. RoomTypeOK'
    <3>1. /\ room \in RoomType /\ post \in [Buttons -> PostType] /\ get \in [Fetches -> FetchType]
          /\ order \in OrderType /\ talk \in TalkType /\ party \in PartyType
          /\ paid \in BOOLEAN /\ unheard \in BOOLEAN /\ news \in 0..MaxNews /\ taps \in 0..RoomClicks
      BY TypesAre DEF RoomInv
    <3>2. /\ room' \in RoomType /\ post' \in [Buttons -> PostType] /\ get' \in [Fetches -> FetchType]
          /\ order' \in OrderType /\ talk' \in TalkType /\ party' \in PartyType
          /\ paid' \in BOOLEAN /\ unheard' \in BOOLEAN /\ news' \in 0..MaxNews /\ taps' \in 0..RoomClicks
      BY <2>0, <3>1
    <3> QED BY <3>2 DEF RoomTypeOK, RoomType, PostType, FetchType, OrderType, TalkType, PartyType
  <2>4. OrderInv' /\ ViewInv' /\ PostInv'
    BY <2>0 DEF RoomInv, OrderInv, ViewInv, PostInv
  <2>2. GetInv' /\ ReopenInv' /\ TalkInv' /\ BusyInv'
    BY <2>0 DEF RoomInv, GetInv, ReopenInv, TalkInv, BusyInv
  <2>3. BuyerInv'
    BY <2>0 DEF RoomInv, BuyerInv
  <2> QED BY <2>1, <2>2, <2>3, <2>4 DEF RoomInv
<1>2. CASE CheckExpiration \/ ReleaseModal
  BY <1>2, ShowSteps
<1>3. CASE OfferLoaded
  BY <1>3, OfferLoadedStep
<1>4. CASE ExpiryPasses \/ CancelExpiredOrders \/ EscrowSettled \/ PeerActs
  BY <1>4, OrderSteps
<1>5. ASSUME NEW k \in Buttons, ConfirmOrder(k) \/ PostLost(k) PROVE RoomInv'
  BY <1>5, ConfirmStep, LostStep
<1>6. CASE ReopenOrder
  BY <1>6, ReopenStep
<1>7. ASSUME NEW s \in Fetches, GetOrderById(s) PROVE RoomInv'
  BY <1>7, FetchSteps
<1>8. ASSUME NEW s \in Fetches, OrderFetched(s) \/ FetchFails(s) PROVE RoomInv'
  BY <1>8, OrderFetchedStep, FetchFailsStep
<1>9. CASE HandleStatusUpdate
  BY <1>9, FetchSteps
<1>10. CASE PayClicked \/ PayAnswered
  BY <1>10, PayClickedStep, PayAnsweredStep
<1>11. CASE ReleaseClicked \/ ReleaseAnswered
  BY <1>11, ReleaseClickedStep, ReleaseAnsweredStep
<1>12. CASE ReopenClicked \/ ReopenAnswered
  BY <1>12, ReopenClickedStep, ReopenAnsweredStep
<1>13. CASE Reload
  BY <1>13, ReloadStep
<1>14. CASE LeftPostServed
  BY <1>14, LeftServedStep
<1>15. CASE ChatConnected
  BY <1>15, TalkSteps
<1>16. ASSUME NEW m \in Messages, AutoMessageSent(m) \/ AutoMessageFails(m) PROVE RoomInv'
  BY <1>16, TalkSteps
<1> QED BY <1>1, <1>2, <1>3, <1>4, <1>5, <1>6, <1>7, <1>8, <1>9, <1>10, <1>11, <1>12, <1>13, <1>14,
           <1>15, <1>16 DEF RoomNext

-----------------------------------------------------------------------------
(* The invariant gives what the room promises.                               *)
LEMMA HonestRoom ==
    ASSUME RoomInv
    PROVE  RoomIsHonest
<1>0. /\ room \in RoomType /\ order \in OrderType /\ party \in PartyType
      /\ paid \in BOOLEAN /\ unheard \in BOOLEAN
      /\ party.side \in {"SELL", "BUY"} /\ party.creator \in BOOLEAN /\ room.offer \in BOOLEAN
  BY TypesAre DEF RoomInv, PartyType, RoomType
<1>1. NothingShownAhead
  <2> SUFFICES ASSUME ~Skeleton, EffectiveStatus \in {"PENDING", "CONFIRMED", "COMPLETED"}
               PROVE  /\ paid
                      /\ EffectiveStatus \in {"CONFIRMED", "COMPLETED"} =>
                            order.status = "COMPLETED" \/ post["release"].st # "none"
    BY DEF NothingShownAhead, GetStepIndex, ShowsCompleted
  <2>1. CASE room.local # None
    <3>1. EffectiveStatus = room.local /\ room.local \in {"PENDING", "CONFIRMED"}
      BY <2>1 DEF EffectiveStatus, RoomInv, ViewInv
    <3> QED BY <3>1 DEF RoomInv, ViewInv, OrderInv, Stage
  <2>2. CASE room.local = None
    <3>1. EffectiveStatus = room.view.status /\ room.view # NoOrder
      BY <2>2 DEF EffectiveStatus, Skeleton
    <3>2. Working(post["release"]) => post["release"].st # "none"
      BY DEF Working
    <3>3. Displayed(room.view, order, paid, Working(post["release"]))
      BY DEF RoomInv, ViewInv
    <3> QED BY <3>1, <3>2, <3>3 DEF Displayed, Told, Claimed
  <2> QED BY <2>1, <2>2
<1>2. MessagesAreTrue /\ GreetingKept
  BY DEF RoomInv, TalkInv, TalkOk, MessagesAreTrue, GreetingKept
<1>3. BusyButtonsAwait
  BY DEF RoomInv, BusyInv, Working, BusyButtonsAwait
<1>4. PaidIsNotAskedAgain
  <2> SUFFICES ASSUME TrueRole = "buyer", OffersPay, paid, ~unheard, room.local # "OPEN"
               PROVE  room.view.term > 2
    BY DEF PaidIsNotAskedAgain
  <2>1. IsBuyer(party)
    BY DEF TrueRole, IsBuyer
  <2>2. EffectiveStatus = "OPEN" /\ ~room.expired /\ "pay" \notin room.busy
    BY DEF OffersPay
  <2>3. room.local = None /\ room.view.status = "OPEN"
    BY <2>2 DEF EffectiveStatus
  <2>4. post["pay"].st # "yes"
    BY <2>1, <2>2 DEF RoomInv, BuyerInv, Working
  <2> QED BY <2>1, <2>2, <2>3, <2>4 DEF RoomInv, BuyerInv
<1>5. RightParty
  <2>1. talk.with # None => talk.with = IF party.creator THEN "offer creator" ELSE "order creator"
    BY DEF RoomInv, TalkInv, TalkOk
  <2>2. SellerPaymentInfo # None =>
            (SellerPaymentInfo = "offer creator") = (Role(party.side, FALSE) = "seller")
    BY <1>0 DEF SellerPaymentInfo, Role
  <2>3. IsActualBuyer = (TrueRole = "buyer")
    BY <1>0 DEF IsActualBuyer, TrueRole, Role
  <2> QED BY <2>1, <2>2, <2>3 DEF RightParty, BankInfoCard, QrCodeCard
<1> QED BY <1>1, <1>2, <1>3, <1>4, <1>5 DEF RoomIsHonest

LEMMA RoomInvAlways == RoomSpec => []RoomInv
<1>1. RoomInit => RoomInv
  BY RoomStart
<1>2. RoomInv /\ [RoomNext]_roomVars => RoomInv'
  BY RoomStep
<1> QED BY <1>1, <1>2, PTL DEF RoomSpec

(* The types of the room's state, and the bounds of what is under way: the   *)
(* requests, events, messages and clicks of the page and of the service.     *)
THEOREM RoomTypeCorrect == RoomSpec => []RoomTypeOK
<1>1. RoomInv => RoomTypeOK
  BY DEF RoomInv
<1> QED BY <1>1, RoomInvAlways, PTL

(* The room (TradingRoom, useP2POrder, its buttons and the chat's automatic  *)
(* message) never shows a step of the trade, sends a message or keeps a      *)
(* button busy that the service has not done, does not do or does not work   *)
(* on, asks no buyer who has paid to pay again, and talks to and pays the    *)
(* right party, whatever answers and events are lost, late or reordered.     *)
THEOREM RoomHonestAlways == RoomSpec => []RoomIsHonest
<1> QED BY HonestRoom, RoomInvAlways, PTL

-----------------------------------------------------------------------------
(* The payment accounts.                                                     *)

AccountFields == [bank : Banks \cup {NoBank}, number : Numbers \cup {NoNumber}, primary : BOOLEAN,
                  id : Banks \cup {NoBank}, filled : BOOLEAN, open : BOOLEAN]
Updates == [bank : Banks \cup {NoBank}, number : Numbers \cup {NoNumber}, primary : BOOLEAN]
Confirmations == [id : Banks \cup {NoBank}, bank : Banks \cup {NoBank}, number : Numbers \cup {NoNumber}]

(* One account at most is primary, and none that is deleted.                 *)
OnePrimary(t) == /\ \A b, c \in Banks : t[b].primary /\ t[c].primary => b = c
                 /\ \A b \in Banks : t[b].primary => t[b].live

(* A form that is open has a bank, and an update one to write.               *)
FieldsInv ==
    /\ fields \in AccountFields /\ (fields.open => fields.bank \in Banks)
    /\ IdMatchesAccount
    /\ saving \in Updates /\ (saving # NoUpdate => saving.bank \in Banks)

TableInv == table \in [Banks -> Row] /\ OnePrimary(table)

(* Unless the form is behind, what it shows of an account is what the table has. *)
ShownInv ==
    /\ saved \in [AccountTabs -> [Banks -> Row]] /\ behind \in BOOLEAN /\ confirm \in Confirmations
    /\ ~behind => \A b \in Banks : saved["offer"][b].live /\ table[b].live =>
                      saved["offer"][b].number = table[b].number
    /\ ~behind /\ confirm.id # NoBank =>
          /\ confirm.id = confirm.bank
          /\ table[confirm.id].live => table[confirm.id].number = confirm.number
    /\ ~misled

(* Unless deletions overlapped or missed the primary account, there is one deletion
   at most, and the account it is to promote is there; as long as it only began,
   there is a primary one.                                                   *)
AllBegun == \A d \in deletions : d.step = "delete"
HasPrimary == Live(table) # {} => \E b \in Banks : table[b].primary

PromotingInv ==
    /\ deletions \subseteq Deletions /\ waived \in BOOLEAN
    /\ ~waived => /\ \A x, y \in deletions : x = y
                  /\ \A d \in deletions : d.step = "promote" => d.bank \in Banks /\ table[d.bank].live
                  /\ AllBegun => HasPrimary

AccountsInv == FieldsInv /\ TableInv /\ ShownInv /\ PromotingInv

(* The fields after a render name the account they show, in the same bank
   or that of the account filled in.                                         *)
LEMMA RenderedFields ==
    ASSUME NEW list \in [Banks -> Row], NEW f \in AccountFields, f.open => f.bank \in Banks,
           AccountConstants
    PROVE  LET g == Rendered(list, f)
           IN /\ g \in AccountFields /\ (g.open => g.bank \in Banks)
              /\ g.open /\ g.id # NoBank =>
                   g.id = g.bank /\ list[g.id].live /\ list[g.id].number = g.number
<1> DEFINE a == AutoFilled(list, f)
<1>1. a \in AccountFields /\ (a.open => a.bank \in Banks)
  <2>1. CASE ~f.open \/ f.filled \/ Live(list) = {}
    BY <2>1 DEF AutoFilled
  <2>2. CASE ~(~f.open \/ f.filled \/ Live(list) = {})
    <3> DEFINE first == CHOOSE b \in Live(list) : list[b].primary \/ \A c \in Live(list) : ~list[c].primary
    <3>1. \E b \in Live(list) : list[b].primary \/ \A c \in Live(list) : ~list[c].primary
      BY <2>2
    <3>2. first \in Live(list)
      BY <3>1
    <3>3. a = [f EXCEPT !.bank = first, !.number = list[first].number, !.primary = list[first].primary,
                        !.id = first, !.filled = TRUE]
      BY <2>2 DEF AutoFilled
    <3> HIDE DEF first, a
    <3>4. first \in Banks /\ list[first].number \in Numbers \cup {NoNumber} /\ list[first].primary \in BOOLEAN
      BY <3>2 DEF Live, Row
    <3> QED BY <3>3, <3>4 DEF AccountFields
  <2> QED BY <2>1, <2>2
<1> DEFINE m == Matched(list, a)
<1>2. Rendered(list, f) = [a EXCEPT !.id = m]
  BY DEF Rendered, IdFollows
<1> HIDE DEF a
<1>3. m \in Banks \cup {NoBank} /\ (m # NoBank => m = a.bank /\ list[m].live /\ list[m].number = a.number)
  BY <1>1 DEF Matched, AccountFields
<1> HIDE DEF m
<1>4. /\ [a EXCEPT !.id = m] \in AccountFields /\ [a EXCEPT !.id = m].id = m
      /\ [a EXCEPT !.id = m].bank = a.bank /\ [a EXCEPT !.id = m].number = a.number
      /\ [a EXCEPT !.id = m].open = a.open
  BY <1>1, <1>3 DEF AccountFields
<1> QED BY <1>1, <1>2, <1>3, <1>4

(* Writing one row leaves at most one primary account, and one if there was
   one that the update does not give up.                                     *)
LEMMA UpsertedTable ==
    ASSUME TableInv, NEW u \in Updates, u.bank \in Banks
    PROVE  /\ Upserted(u) \in [Banks -> Row] /\ OnePrimary(Upserted(u))
           /\ \A b \in Banks : table[b].live => Upserted(u)[b].live
           /\ \E b \in Banks : Upserted(u)[b].live
           /\ (Live(table) # {} => \E b \in Banks : table[b].primary) /\ ~GivesUp(u)
                 => \E b \in Banks : Upserted(u)[b].primary
<1> DEFINE p == u.primary \/ Live(table) = {}
           t == Upserted(u)
<1>0. \A b \in Banks : table[b] \in Row
  BY DEF TableInv
<1>1. \A b \in Banks : t[b] = IF b = u.bank THEN [number |-> u.number, live |-> TRUE, primary |-> p]
                              ELSE IF p /\ table[b].live THEN [table[b] EXCEPT !.primary = FALSE]
                              ELSE table[b]
  BY DEF Upserted
<1>p. p \in BOOLEAN
  OBVIOUS
<1>a. ASSUME NEW b \in Banks
      PROVE  /\ t[b] \in Row
             /\ b = u.bank => t[b].live = TRUE /\ t[b].primary = p
             /\ b # u.bank => t[b].live = table[b].live
             /\ b # u.bank => t[b].primary = (table[b].primary /\ ~ (p /\ table[b].live))
  <2> HIDE DEF p
  <2>1. CASE b = u.bank
    <3>1. t[b] = [number |-> u.number, live |-> TRUE, primary |-> p]
      BY <1>1, <2>1
    <3>2. u.number \in Numbers \cup {NoNumber}
      BY DEF Updates
    <3> HIDE DEF t
    <3> QED BY <1>p, <2>1, <3>1, <3>2 DEF Row
  <2>2. CASE b # u.bank /\ p /\ table[b].live
    <3>1. t[b] = [table[b] EXCEPT !.primary = FALSE]
      BY <1>1, <2>2
    <3> HIDE DEF t
    <3> QED BY <1>0, <2>2, <3>1 DEF Row
  <2>3. CASE b # u.bank /\ ~ (p /\ table[b].live)
    <3>1. t[b] = table[b]
      BY <1>1, <2>3
    <3>2. table[b].primary \in BOOLEAN /\ table[b] \in Row
      BY <1>0 DEF Row
    <3> HIDE DEF t
    <3> QED BY <2>3, <3>1, <3>2
  <2> QED BY <2>1, <2>2, <2>3
<1>2. t \in [Banks -> Row]
  <2>1. \A b \in Banks : t[b] \in Row
    BY <1>a
  <2>2. DOMAIN t = Banks /\ t = [b \in Banks |-> t[b]]
    BY DEF Upserted
  <2> HIDE DEF t
  <2> QED BY <2>1, <2>2
<1>3. /\ t[u.bank].live = TRUE /\ t[u.bank].primary = p
      /\ \A b \in Banks : b # u.bank => t[b].live = table[b].live
      /\ \A b \in Banks : b # u.bank => t[b].primary = (table[b].primary /\ ~ (p /\ table[b].live))
  <2> HIDE DEF p, t
  <2> QED BY <1>a
<1>4. OnePrimary(table) /\ u.bank \in Banks
  BY DEF TableInv
<1>5. GivesUp(u) <=> ~p /\ table[u.bank].primary
  BY <1>4 DEF GivesUp, OnePrimary, Live
<1> HIDE DEF t
<1>6. OnePrimary(t)
  BY <1>3, <1>4 DEF OnePrimary
<1>7. p \/ Live(table) # {}
  OBVIOUS
<1>8. (Live(table) # {} => \E b \in Banks : table[b].primary) /\ ~GivesUp(u) => \E b \in Banks : t[b].primary
  <2> HIDE DEF p
  <2>1. CASE p
    BY <1>3, <2>1
  <2>2. ASSUME ~p, NEW b \in Banks, table[b].primary, ~table[u.bank].primary PROVE t[b].primary
    BY <1>3, <2>2
  <2> QED BY <1>3, <1>5, <1>7, <2>1, <2>2
<1>9. \A b \in Banks : table[b].live => t[b].live
  BY <1>3
<1> QED BY <1>2, <1>3, <1>4, <1>6, <1>8, <1>9 DEF t

-----------------------------------------------------------------------------
(* What the steps of the other parts leave as it is.                         *)
LEMMA AccountsKept ==
    ASSUME AccountsInv
    PROVE  /\ UNCHANGED <<fields, saving, saved>> => FieldsInv'
           /\ UNCHANGED table => TableInv'
           /\ UNCHANGED <<table, saved, confirm, behind, misled>> => ShownInv'
           /\ UNCHANGED <<table, deletions, waived>> => PromotingInv'
<1>1. FieldsInv /\ TableInv /\ ShownInv /\ PromotingInv
  BY DEF AccountsInv
<1>2. ASSUME UNCHANGED <<fields, saving, saved>> PROVE FieldsInv'
  BY <1>1, <1>2 DEF FieldsInv, IdMatchesAccount
<1>3. ASSUME UNCHANGED table PROVE TableInv'
  BY <1>1, <1>3 DEF TableInv, OnePrimary
<1>4. ASSUME UNCHANGED <<table, saved, confirm, behind, misled>> PROVE ShownInv'
  BY <1>1, <1>4 DEF ShownInv
<1>5. ASSUME UNCHANGED <<table, deletions, waived>> PROVE PromotingInv'
  BY <1>1, <1>5 DEF PromotingInv, AllBegun, HasPrimary, Live
<1> QED BY <1>2, <1>3, <1>4, <1>5

(* A step of the form: the fields are rendered anew.                         *)
LEMMA FormStep ==
    ASSUME AccountConstants, AccountsInv, NEW f \in AccountFields, f.open => f.bank \in Banks,
           fields' = Rendered(saved["offer"], f),
           UNCHANGED <<table, deletions, saved, saving, confirm, behind, misled, waived>>
    PROVE  AccountsInv'
<1>1. saved["offer"] \in [Banks -> Row]
  BY DEF AccountsInv, ShownInv, AccountTabs
<1>2. FieldsInv'
  BY <1>1, RenderedFields DEF AccountsInv, FieldsInv, IdMatchesAccount
<1> QED BY <1>2, AccountsKept DEF AccountsInv

(* A change of the table leaves the form behind.                             *)
LEMMA EditStep ==
    ASSUME AccountsInv, NEW u \in Updates, u.bank \in Banks,
           table' = Upserted(u), behind' = TRUE, waived' = (waived \/ GivesUp(u)),
           UNCHANGED <<deletions, saved, fields, confirm, misled>>,
           saving' \in {saving, NoUpdate}
    PROVE  AccountsInv'
<1> DEFINE t == Upserted(u)
<1>0. TableInv
  BY DEF AccountsInv
<1>1. /\ t \in [Banks -> Row] /\ OnePrimary(t)
      /\ \A b \in Banks : table[b].live => t[b].live
      /\ \E b \in Banks : t[b].live
      /\ (Live(table) # {} => \E b \in Banks : table[b].primary) /\ ~GivesUp(u)
            => \E b \in Banks : t[b].primary
  BY <1>0, UpsertedTable
<1>2. TableInv'
  BY <1>1 DEF TableInv, OnePrimary
<1>3. ShownInv'
  BY DEF AccountsInv, ShownInv
<1>4. NoUpdate \in Updates
  BY DEF NoUpdate, Updates
<1>5. FieldsInv'
  BY <1>4 DEF AccountsInv, FieldsInv, IdMatchesAccount
<1>6. PromotingInv'
  <2> HIDE DEF t
  <2>1. waived \in BOOLEAN /\ waived' = (waived \/ GivesUp(u)) /\ deletions' = deletions /\ table' = t
    BY DEF AccountsInv, PromotingInv, t
  <2>2. waived' \in BOOLEAN /\ (~waived' => ~waived /\ ~GivesUp(u))
    BY <2>1
  <2>3. deletions \subseteq Deletions
    BY DEF AccountsInv, PromotingInv
  <2>4. ~waived' /\ AllBegun' => HasPrimary'
    <3> SUFFICES ASSUME ~waived', AllBegun' PROVE \E b \in Banks : table'[b].primary
      BY DEF HasPrimary
    <3>1. Live(table) # {} => \E b \in Banks : table[b].primary
      BY <2>1, <2>2 DEF AccountsInv, PromotingInv, AllBegun, HasPrimary
    <3> QED BY <1>1, <2>1, <2>2, <3>1
  <2>5. ~waived' => /\ \A x, y \in deletions' : x = y
                    /\ \A d \in deletions' : d.step = "promote" => d.bank \in Banks /\ table'[d.bank].live
    BY <1>1, <2>1, <2>2 DEF AccountsInv, PromotingInv
  <2> QED BY <2>1, <2>2, <2>3, <2>4, <2>5 DEF PromotingInv
<1> QED BY <1>2, <1>3, <1>5, <1>6 DEF AccountsInv

LEMMA FetchStep ==
    ASSUME AccountConstants, AccountsInv, NEW t \in AccountTabs, AccountsFetched(t)
    PROVE  AccountsInv'
<1> DEFINE list == [b \in Banks |-> IF table[b].live THEN table[b] ELSE NoRow]
<1>0. \A b \in Banks : table[b] \in Row
  BY DEF AccountsInv, TableInv
<1>1. /\ list \in [Banks -> Row]
      /\ \A b \in Banks : list[b].live => list[b].number = table[b].number
  BY <1>0 DEF NoRow, Row
<1>2. /\ saved' = [saved EXCEPT ![t] = list]
      /\ fields' = IF t = "offer" /\ fields.open THEN Rendered(list, fields) ELSE fields
      /\ behind' = (behind /\ (t = "profile" \/ confirm # NoConfirm))
      /\ UNCHANGED <<table, deletions, saving, confirm, misled, waived>>
  BY DEF AccountsFetched
<1> HIDE DEF list
<1>3. saved' \in [AccountTabs -> [Banks -> Row]] /\ saved'[t] = list
      /\ (t # "offer" => saved'["offer"] = saved["offer"])
  BY <1>1, <1>2 DEF AccountsInv, ShownInv, AccountTabs
<1>4. fields \in AccountFields /\ (fields.open => fields.bank \in Banks) /\ IdMatchesAccount
      /\ saving \in Updates /\ (saving # NoUpdate => saving.bank \in Banks)
  BY DEF AccountsInv, FieldsInv
<1>5. FieldsInv'
  <2>1. CASE t = "offer" /\ fields.open
    <3>1. fields' = Rendered(list, fields) /\ saved'["offer"] = list /\ saving' = saving
      BY <1>2, <1>3, <2>1
    <3> QED BY <1>1, <1>4, <3>1, RenderedFields DEF FieldsInv, IdMatchesAccount
  <2>2. CASE t = "offer" /\ ~fields.open
    BY <1>2, <1>4, <2>2 DEF FieldsInv, IdMatchesAccount
  <2>3. CASE t # "offer"
    BY <1>2, <1>3, <1>4, <2>3 DEF FieldsInv, IdMatchesAccount
  <2> QED BY <2>1, <2>2, <2>3
<1>6. ShownInv'
  <2>1. /\ behind \in BOOLEAN /\ confirm \in Confirmations /\ ~misled
        /\ ~behind => \A b \in Banks : saved["offer"][b].live /\ table[b].live =>
                         saved["offer"][b].number = table[b].number
        /\ ~behind /\ confirm.id # NoBank =>
              /\ confirm.id = confirm.bank
              /\ table[confirm.id].live => table[confirm.id].number = confirm.number
    BY DEF AccountsInv, ShownInv
  <2>2. behind' \in BOOLEAN /\ (~behind' => ~behind \/ (t = "offer" /\ confirm = NoConfirm))
    BY <1>2, <2>1 DEF AccountTabs
  <2>3. ~behind' => \A b \in Banks : saved'["offer"][b].live /\ table[b].live =>
                       saved'["offer"][b].number = table[b].number
    BY <1>1, <1>3, <2>1, <2>2
  <2>4. confirm = NoConfirm => confirm.id = NoBank
    BY DEF NoConfirm
  <2> QED BY <1>2, <1>3, <2>1, <2>2, <2>3, <2>4 DEF ShownInv
<1> QED BY <1>2, <1>5, <1>6, AccountsKept DEF AccountsInv

LEMMA FormSteps ==
    ASSUME AccountConstants, AccountsInv,
           \/ OpenForm \/ CloseForm \/ SwitchSide \/ CancelEdit
           \/ \E b \in Banks : HandleBankChange(b)
           \/ \E n \in Numbers \cup {NoNumber}, p \in BOOLEAN : TypeAccount(n, p)
    PROVE  AccountsInv'
<1>0. /\ fields \in AccountFields /\ (fields.open => fields.bank \in Banks)
      /\ \A b \in Banks : saved["offer"][b] \in Row
  BY DEF AccountsInv, FieldsInv, ShownInv, AccountTabs
<1>1. CASE OpenForm
  <2> DEFINE first == IF fields.bank = NoBank THEN [fields EXCEPT !.bank = CHOOSE b \in Banks : TRUE]
                      ELSE fields
             f == [first EXCEPT !.open = TRUE, !.filled = FALSE]
  <2>1. (CHOOSE b \in Banks : TRUE) \in Banks
    BY DEF AccountConstants
  <2>2. first \in AccountFields /\ first.bank \in Banks
    BY <1>0, <2>1 DEF AccountFields
  <2>3. fields' = Rendered(saved["offer"], f)
        /\ UNCHANGED <<table, deletions, saved, saving, confirm, behind, misled, waived>>
    BY <1>1 DEF OpenForm
  <2> HIDE DEF first
  <2>4. f \in AccountFields /\ f.bank \in Banks
    BY <2>2 DEF AccountFields
  <2> HIDE DEF f
  <2> QED BY <2>3, <2>4, FormStep
<1>2. CASE CloseForm
  <2>1. fields' = [fields EXCEPT !.open = FALSE]
        /\ UNCHANGED <<table, deletions, saved, saving, confirm, behind, misled, waived>>
    BY <1>2 DEF CloseForm
  <2>2. fields' \in AccountFields /\ fields'.open = FALSE
    BY <1>0, <2>1 DEF AccountFields
  <2>3. FieldsInv'
    BY <2>1, <2>2 DEF AccountsInv, FieldsInv, IdMatchesAccount
  <2> QED BY <2>1, <2>3, AccountsKept DEF AccountsInv
<1>3. CASE SwitchSide
  <2>1. fields' = EmptyFields
        /\ UNCHANGED <<table, deletions, saved, saving, confirm, behind, misled, waived>>
    BY <1>3 DEF SwitchSide
  <2>2. fields' \in AccountFields /\ fields'.open = FALSE
    BY <2>1 DEF AccountFields, EmptyFields
  <2>3. FieldsInv'
    BY <2>1, <2>2 DEF AccountsInv, FieldsInv, IdMatchesAccount
  <2> QED BY <2>1, <2>3, AccountsKept DEF AccountsInv
<1>4. CASE CancelEdit
  <2> DEFINE m == Matched(saved["offer"], fields)
             f == IF m = NoBank THEN [fields EXCEPT !.number = NoNumber, !.primary = FALSE]
                  ELSE [fields EXCEPT !.primary = saved["offer"][m].primary]
  <2>1. fields' = Rendered(saved["offer"], f)
        /\ UNCHANGED <<table, deletions, saved, saving, confirm, behind, misled, waived>>
    BY <1>4 DEF CancelEdit
  <2>2. m # NoBank => m \in Banks
    BY <1>0 DEF Matched, AccountFields
  <2> HIDE DEF m
  <2>3. f \in AccountFields /\ (f.open => f.bank \in Banks)
    BY <1>0, <2>2 DEF AccountFields, Row
  <2> HIDE DEF f
  <2> QED BY <2>1, <2>3, FormStep
<1>5. ASSUME NEW b \in Banks, HandleBankChange(b) PROVE AccountsInv'
  <2> DEFINE f == [fields EXCEPT !.bank = b, !.number = saved["offer"][b].number,
                                 !.primary = saved["offer"][b].primary]
  <2>1. fields' = Rendered(saved["offer"], f)
        /\ UNCHANGED <<table, deletions, saved, saving, confirm, behind, misled, waived>>
    BY <1>5 DEF HandleBankChange
  <2>2. f \in AccountFields /\ f.bank \in Banks
    BY <1>0 DEF AccountFields, Row
  <2> HIDE DEF f
  <2> QED BY <2>1, <2>2, FormStep
<1>6. ASSUME NEW n \in Numbers \cup {NoNumber}, NEW p \in BOOLEAN, TypeAccount(n, p) PROVE AccountsInv'
  <2> DEFINE f == [fields EXCEPT !.number = n, !.primary = p]
  <2>1. fields' = Rendered(saved["offer"], f)
        /\ UNCHANGED <<table, deletions, saved, saving, confirm, behind, misled, waived>>
    BY <1>6 DEF TypeAccount
  <2>2. f \in AccountFields /\ (f.open => f.bank \in Banks)
    BY <1>0 DEF AccountFields
  <2> HIDE DEF f
  <2> QED BY <2>1, <2>2, FormStep
<1> QED BY <1>1, <1>2, <1>3, <1>4, <1>5, <1>6

LEMMA SaveSteps ==
    ASSUME AccountsInv, HandleSaveChanges \/ SaveAnswered
    PROVE  AccountsInv'
<1>0. /\ fields \in AccountFields /\ (fields.open => fields.bank \in Banks) /\ IdMatchesAccount
      /\ saving \in Updates /\ (saving # NoUpdate => saving.bank \in Banks)
  BY DEF AccountsInv, FieldsInv
<1>1. CASE HandleSaveChanges
  <2>1. /\ saving' = [bank |-> fields.bank, number |-> fields.number, primary |-> fields.primary]
        /\ fields.open
        /\ UNCHANGED <<table, deletions, saved, fields, confirm, behind, misled, waived>>
    BY <1>1 DEF HandleSaveChanges
  <2>2. saving' \in Updates /\ saving'.bank \in Banks
    BY <1>0, <2>1 DEF AccountFields, Updates
  <2>3. FieldsInv'
    BY <1>0, <2>1, <2>2 DEF FieldsInv, IdMatchesAccount
  <2> QED BY <2>1, <2>3, AccountsKept DEF AccountsInv
<1>2. CASE SaveAnswered
  <2>1. CASE table' = Upserted(saving) /\ behind' = TRUE /\ waived' = (waived \/ GivesUp(saving))
    BY <1>0, <1>2, <2>1, EditStep DEF SaveAnswered
  <2>2. CASE UNCHANGED <<table, behind, waived>>
    <3>1. NoUpdate \in Updates
      BY DEF NoUpdate, Updates
    <3>2. FieldsInv'
      BY <1>0, <1>2, <3>1 DEF SaveAnswered, FieldsInv, IdMatchesAccount
    <3> QED BY <1>2, <2>2, <3>2, AccountsKept DEF SaveAnswered, AccountsInv
  <2> QED BY <1>2, <2>1, <2>2 DEF SaveAnswered
<1> QED BY <1>1, <1>2

LEMMA OfferSteps ==
    ASSUME AccountsInv, OnPreSubmit \/ CreateOffer
    PROVE  AccountsInv'
<1>0. /\ fields \in AccountFields /\ IdMatchesAccount
      /\ saved \in [AccountTabs -> [Banks -> Row]] /\ behind \in BOOLEAN /\ confirm \in Confirmations
      /\ ~behind => \A b \in Banks : saved["offer"][b].live /\ table[b].live =>
                       saved["offer"][b].number = table[b].number
      /\ ~behind /\ confirm.id # NoBank =>
            /\ confirm.id = confirm.bank
            /\ table[confirm.id].live => table[confirm.id].number = confirm.number
      /\ ~misled
  BY DEF AccountsInv, FieldsInv, ShownInv
<1>1. CASE OnPreSubmit
  <2>1. /\ confirm' = [id |-> fields.id, bank |-> fields.bank, number |-> fields.number]
        /\ fields.open /\ fields.id # NoBank
        /\ UNCHANGED <<table, deletions, saved, fields, saving, behind, misled, waived>>
    BY <1>1 DEF OnPreSubmit, CanSubmit
  <2>2. /\ fields.id = fields.bank /\ fields.id \in Banks
        /\ saved["offer"][fields.id].live /\ saved["offer"][fields.id].number = fields.number
    BY <1>0, <2>1 DEF IdMatchesAccount, AccountFields
  <2>3. confirm' \in Confirmations
    BY <1>0, <2>1 DEF AccountFields, Confirmations
  <2>4. ShownInv'
    BY <1>0, <2>1, <2>2, <2>3 DEF ShownInv
  <2> QED BY <2>1, <2>4, AccountsKept DEF AccountsInv
<1>2. CASE CreateOffer
  <2>1. /\ confirm' = NoConfirm
        /\ misled' = \/ misled
                     \/ /\ confirm.id # NoBank /\ table[confirm.id].live /\ ~behind
                        /\ <<confirm.id, table[confirm.id].number>> # <<confirm.bank, confirm.number>>
        /\ UNCHANGED <<table, deletions, saved, fields, saving, behind, waived>>
    BY <1>2 DEF CreateOffer
  <2>2. ~misled'
    BY <1>0, <2>1
  <2>3. confirm' \in Confirmations /\ confirm'.id = NoBank
    BY <2>1 DEF NoConfirm, Confirmations
  <2>4. ShownInv'
    BY <1>0, <2>1, <2>2, <2>3 DEF ShownInv
  <2> QED BY <2>1, <2>4, AccountsKept DEF AccountsInv
<1> QED BY <1>1, <1>2

LEMMA ProfileSteps ==
    ASSUME AccountConstants, AccountsInv,
           \/ \E u \in DialogValues : DialogSaved(u)
           \/ \E b \in Banks : HandleSetPrimary(b) \/ ConfirmDelete(b)
    PROVE  AccountsInv'
<1>0. TableInv /\ \A b \in Banks : table[b] \in Row /\ saved["profile"][b] \in Row
  BY DEF AccountsInv, TableInv, ShownInv, AccountTabs
<1>1. ASSUME NEW u \in DialogValues, DialogSaved(u) PROVE AccountsInv'
  <2>1. u \in Updates /\ u.bank \in Banks
    BY DEF DialogValues, Updates
  <2> QED BY <1>1, <2>1, EditStep DEF DialogSaved
<1>2. ASSUME NEW b \in Banks, HandleSetPrimary(b) PROVE AccountsInv'
  <2> DEFINE u == [bank |-> b, number |-> saved["profile"][b].number, primary |-> TRUE]
  <2>1. u \in Updates /\ u.bank \in Banks
    BY <1>0 DEF Updates, Row
  <2>2. ~GivesUp(u)
    BY DEF GivesUp
  <2>3. waived \in BOOLEAN
    BY DEF AccountsInv, PromotingInv
  <2>4. /\ table' = Upserted(u) /\ behind' = TRUE
        /\ UNCHANGED <<deletions, saved, fields, saving, confirm, misled, waived>>
    BY <1>2 DEF HandleSetPrimary
  <2> HIDE DEF u
  <2>5. waived' = (waived \/ GivesUp(u))
    BY <2>2, <2>3, <2>4
  <2> QED BY <2>1, <2>4, <2>5, EditStep
<1>3. ASSUME NEW b \in Banks, ConfirmDelete(b) PROVE AccountsInv'
  <2>1. PICK p \in BOOLEAN :
            deletions' = deletions \cup {[step |-> "delete", bank |-> b, primary |-> p]}
    BY <1>3 DEF ConfirmDelete, DeletePaymentInfo
  <2>2. /\ waived' = (waived \/ deletions # {})
        /\ UNCHANGED <<table, saved, fields, saving, confirm, behind, misled>>
    BY <1>3 DEF ConfirmDelete, DeletePaymentInfo
  <2> DEFINE d == [step |-> "delete", bank |-> b, primary |-> p]
  <2>3. d \in Deletions /\ d.step = "delete"
    BY DEF Deletions
  <2>4. deletions' = deletions \cup {d}
    BY <2>1
  <2> HIDE DEF d
  <2>5. PromotingInv'
    <3>1. deletions \subseteq Deletions /\ waived \in BOOLEAN
      BY DEF AccountsInv, PromotingInv
    <3>2. ~waived' => ~waived /\ deletions = {} /\ deletions' = {d}
      BY <2>2, <2>4, <3>1
    <3>3. ~waived /\ deletions = {} => HasPrimary
      BY DEF AccountsInv, PromotingInv, AllBegun
    <3>4. ~waived' => HasPrimary'
      BY <2>2, <3>2, <3>3 DEF HasPrimary, Live
    <3> QED BY <2>2, <2>3, <2>4, <3>1, <3>2, <3>4 DEF PromotingInv
  <2> QED BY <2>2, <2>5, AccountsKept DEF AccountsInv
<1> QED BY <1>1, <1>2, <1>3

(* A deletion that ends at a statement that fails.                           *)
LEMMA StatementFailures ==
    ASSUME AccountsInv, NEW d \in deletions, StatementFails(d)
    PROVE  AccountsInv'
<1>1. /\ deletions \subseteq Deletions /\ waived \in BOOLEAN
      /\ ~waived => (\A x, y \in deletions : x = y) /\ (AllBegun => HasPrimary)
  BY DEF AccountsInv, PromotingInv
<1>2. /\ deletions' = deletions \ {d} /\ waived' = (waived \/ d.step # "delete")
      /\ UNCHANGED <<table, saved, fields, saving, confirm, behind, misled>>
  BY DEF StatementFails
<1>3. waived' \in BOOLEAN /\ (~waived' => ~waived /\ d.step = "delete" /\ deletions' = {})
  BY <1>1, <1>2
<1>4. ~waived' => HasPrimary'
  BY <1>1, <1>2, <1>3 DEF AllBegun, HasPrimary, Live
<1>5. PromotingInv'
  BY <1>1, <1>2, <1>3, <1>4 DEF PromotingInv
<1> QED BY <1>2, <1>5, AccountsKept DEF AccountsInv

(* The deletion of an account that other tabs edit meanwhile.                *)
LEMMA DeletionSteps ==
    ASSUME AccountsInv, NEW d \in deletions, DeleteRow(d)
    PROVE  AccountsInv'
<1>0. /\ TableInv /\ \A b \in Banks : table[b] \in Row
      /\ deletions \subseteq Deletions /\ waived \in BOOLEAN /\ d.primary \in BOOLEAN
      /\ ~waived => /\ deletions = {d}
                    /\ AllBegun => HasPrimary
      /\ d.step = "delete" /\ UNCHANGED <<saved, fields, saving, confirm, misled>>
  BY DEF AccountsInv, PromotingInv, TableInv, DeleteRow, Deletions
<1>1. ~waived => HasPrimary
  BY <1>0 DEF AllBegun
<1>2. Look \in Deletions /\ Look.step = "look"
  BY DEF Look, Deletions
<1>3. CASE table[d.bank].live
  <2> DEFINE b == d.bank
  <2>1. /\ table' = [table EXCEPT ![b].live = FALSE, ![b].primary = FALSE]
        /\ deletions' = (deletions \ {d}) \cup Follows(d)
        /\ behind' = TRUE /\ waived' = (waived \/ (table[b].primary /\ ~d.primary))
    BY <1>3 DEF DeleteRow
  <2>2. table' \in [Banks -> Row] /\ \A c \in Banks : c # b => table'[c] = table[c]
    <3> HIDE DEF b
    <3>1. CASE b \in Banks
      <4>1. table' = [table EXCEPT ![b] = [table[b] EXCEPT !.live = FALSE, !.primary = FALSE]]
        BY <1>0, <2>1, <3>1 DEF TableInv
      <4>2. [table[b] EXCEPT !.live = FALSE, !.primary = FALSE] \in Row
        BY <1>0, <3>1 DEF Row
      <4> QED BY <1>0, <4>1, <4>2 DEF TableInv
    <3>2. CASE b \notin Banks
      BY <1>0, <2>1, <3>2 DEF TableInv
    <3> QED BY <3>1, <3>2
  <2>3. b \in Banks => ~table'[b].live /\ ~table'[b].primary
    <3> HIDE DEF b
    <3>1. ASSUME b \in Banks PROVE table'[b] = [table[b] EXCEPT !.live = FALSE, !.primary = FALSE]
      BY <1>0, <2>1, <3>1 DEF TableInv
    <3> QED BY <1>0, <3>1 DEF Row
  <2> HIDE DEF b
  <2>4. TableInv'
    BY <1>0, <2>2, <2>3 DEF TableInv, OnePrimary
  <2>5. ShownInv'
    BY <1>0, <2>1 DEF AccountsInv, ShownInv
  <2>6. PromotingInv'
    <3>1. waived' \in BOOLEAN /\ (~waived' => ~waived /\ (table[b].primary => d.primary))
      BY <1>0, <2>1
    <3>2. Follows(d) \subseteq {Look} /\ (d.primary => Follows(d) = {Look})
      BY DEF Follows
    <3>3. deletions' \subseteq Deletions
      BY <1>0, <1>2, <2>1, <3>2
    <3>4. ~waived' => deletions' = Follows(d)
      BY <1>0, <2>1, <3>1
    <3>5. ~waived' => (\A x, y \in deletions' : x = y) /\ \A x \in deletions' : x.step # "promote"
      BY <1>2, <3>2, <3>4
    <3>6. ASSUME ~waived', AllBegun', Live(table') # {} PROVE \E c \in Banks : table'[c].primary
      <4>1. ~d.primary
        BY <1>2, <3>2, <3>4, <3>6 DEF AllBegun
      <4>2. ~table[b].primary
        BY <3>1, <3>6, <4>1
      <4>3. PICK e \in Banks : table'[e].live
        BY <3>6 DEF Live
      <4>4. table[e].live
        BY <2>2, <2>3, <4>3
      <4>5. PICK c \in Banks : table[c].primary
        BY <1>1, <3>1, <3>6, <4>4 DEF HasPrimary, Live
      <4> QED BY <2>2, <4>2, <4>5
    <3>7. ~waived' /\ AllBegun' => HasPrimary'
      BY <3>6 DEF HasPrimary, Live
    <3> QED BY <3>1, <3>3, <3>5, <3>7 DEF PromotingInv
  <2> QED BY <1>0, <2>4, <2>5, <2>6, AccountsKept DEF AccountsInv
<1>4. CASE ~table[d.bank].live
  <2>1. deletions' = deletions \ {d} /\ UNCHANGED <<table, behind, waived>>
    BY <1>4 DEF DeleteRow
  <2>2. ~waived => deletions' = {} /\ HasPrimary'
    BY <1>0, <1>1, <2>1 DEF HasPrimary, Live
  <2>3. PromotingInv'
    BY <1>0, <2>1, <2>2 DEF PromotingInv
  <2> QED BY <1>0, <2>1, <2>3, AccountsKept DEF AccountsInv
<1> QED BY <1>3, <1>4

LEMMA PromotionSteps ==
    ASSUME AccountConstants, AccountsInv, LookForAnother \/ \E b \in Banks : SetPrimary(b)
    PROVE  AccountsInv'
<1>0. /\ TableInv /\ deletions \subseteq Deletions /\ waived \in BOOLEAN
      /\ ~waived => /\ \A x, y \in deletions : x = y
                    /\ \A d \in deletions : d.step = "promote" => d.bank \in Banks /\ table[d.bank].live
      /\ \A b \in Banks : table[b] \in Row
  BY DEF AccountsInv, PromotingInv, TableInv
<1>p. /\ Look.step = "look"
      /\ \A b \in Banks : /\ Promote(b) \in Deletions /\ Promote(b).step = "promote"
                           /\ Promote(b).bank = b
  BY DEF Look, Promote, Deletions
<1>1. CASE LookForAnother
  <2>1. /\ Look \in deletions
        /\ \/ \E b \in Live(table) : deletions' = (deletions \ {Look}) \cup {Promote(b)}
           \/ Live(table) = {} /\ deletions' = deletions \ {Look}
        /\ UNCHANGED <<table, saved, fields, saving, confirm, behind, misled, waived>>
    BY <1>1 DEF LookForAnother
  <2>2. ~waived => deletions = {Look}
    BY <1>0, <2>1
  <2>3. PromotingInv'
    <3>1. CASE Live(table) = {} /\ deletions' = deletions \ {Look}
      <4>1. ~waived => deletions' = {}
        BY <2>2, <3>1
      <4>2. HasPrimary'
        BY <2>1, <3>1 DEF HasPrimary, Live
      <4> QED BY <1>0, <2>1, <3>1, <4>1, <4>2 DEF PromotingInv
    <3>2. ASSUME NEW b \in Live(table), deletions' = (deletions \ {Look}) \cup {Promote(b)}
          PROVE  PromotingInv'
      <4>1. b \in Banks /\ table[b].live
        BY DEF Live
      <4>2. ~waived => deletions' = {Promote(b)}
        BY <2>2, <3>2
      <4>3. deletions' \subseteq Deletions
        BY <1>0, <1>p, <3>2, <4>1
      <4>4. ~waived => ~AllBegun'
        BY <1>p, <4>1, <4>2 DEF AllBegun
      <4> QED BY <1>0, <1>p, <2>1, <4>1, <4>2, <4>3, <4>4 DEF PromotingInv
    <3> QED BY <2>1, <3>1, <3>2
  <2> QED BY <2>1, <2>3, AccountsKept DEF AccountsInv
<1>2. ASSUME NEW b \in Banks, SetPrimary(b) PROVE AccountsInv'
  <2>1. /\ Promote(b) \in deletions /\ deletions' = deletions \ {Promote(b)}
        /\ table' = [c \in Banks |-> IF table[c].live THEN [table[c] EXCEPT !.primary = (c = b)] ELSE table[c]]
        /\ UNCHANGED <<saved, fields, saving, confirm, behind, misled, waived>>
    BY <1>2 DEF SetPrimary
  <2>2. \A c \in Banks : table'[c] \in Row /\ table'[c].number = table[c].number
                         /\ table'[c].live = table[c].live
                         /\ table'[c].primary = IF table[c].live THEN (c = b) ELSE table[c].primary
    BY <1>0, <2>1 DEF Row
  <2>3. table' \in [Banks -> Row]
    BY <2>1, <2>2
  <2>4. TableInv'
    BY <1>0, <2>2, <2>3 DEF TableInv, OnePrimary
  <2>5. ShownInv'
    <3>1. confirm.id # NoBank => confirm.id \in Banks
      BY DEF AccountsInv, ShownInv, Confirmations
    <3> QED BY <2>1, <2>2, <3>1 DEF AccountsInv, ShownInv
  <2>6. PromotingInv'
    <3>1. ~waived => deletions' = {} /\ table[b].live
      BY <1>0, <1>p, <2>1
    <3>2. ~waived => HasPrimary'
      BY <2>2, <3>1 DEF HasPrimary
    <3> QED BY <1>0, <2>1, <3>1, <3>2 DEF PromotingInv
  <2> QED BY <2>1, <2>4, <2>5, <2>6, AccountsKept DEF AccountsInv
<1> QED BY <1>1, <1>2

LEMMA AccountsStep ==
    ASSUME AccountConstants, AccountsInv, [AccountsNext]_accountVars
    PROVE  AccountsInv'
<1>1. CASE UNCHANGED accountVars
  BY <1>1, AccountsKept DEF AccountsInv, accountVars
<1> QED BY <1>1, FetchStep, FormSteps, SaveSteps, OfferSteps, ProfileSteps, DeletionSteps, StatementFailures,
     PromotionSteps DEF AccountsNext

LEMMA AccountsStart == ASSUME AccountConstants, AccountsInit PROVE AccountsInv
<1>1. FieldsInv
  BY DEF AccountsInit, FieldsInv, EmptyFields, AccountFields, NoUpdate, Updates, IdMatchesAccount
<1>2. \A b \in Banks : table[b] \in Row /\ (table[b].primary => table[b].live)
                       /\ (table[b].live => table[b].primary)
  <2> SUFFICES ASSUME NEW b \in Banks
               PROVE  table[b] \in Row /\ (table[b].primary => table[b].live)
                                       /\ (table[b].live => table[b].primary)
    OBVIOUS
  <2>1. table[b] = NoRow \/ table[b] \in [number : Numbers, live : {TRUE}, primary : {TRUE}]
    BY DEF AccountsInit
  <2>2. CASE table[b] = NoRow
    BY <2>2 DEF NoRow, Row
  <2>3. CASE table[b] \in [number : Numbers, live : {TRUE}, primary : {TRUE}]
    BY <2>3 DEF Row
  <2> QED BY <2>1, <2>2, <2>3
<1>3. table \in [Banks -> Row]
  BY <1>2 DEF AccountsInit
<1>4. TableInv
  BY <1>2, <1>3 DEF AccountsInit, TableInv, OnePrimary, Live
<1>5. saved \in [AccountTabs -> [Banks -> Row]] /\ \A b \in Banks : ~saved["offer"][b].live
  BY DEF AccountsInit, NoList, NoRow, Row, AccountTabs
<1>6. ShownInv
  BY <1>5 DEF AccountsInit, ShownInv, NoConfirm, Confirmations
<1>7. PromotingInv
  BY <1>2 DEF AccountsInit, PromotingInv, AllBegun, HasPrimary, Live
<1> QED BY <1>1, <1>4, <1>6, <1>7 DEF AccountsInv

(* The accounts keep their types; one at most is primary, and none that is
   deleted.                                                                  *)
THEOREM AccountsTypeCorrect == AccountsSpec => []AccountsTypeOK
<1>1. AccountsInv => AccountsTypeOK
  <2> SUFFICES ASSUME AccountsInv PROVE AccountsTypeOK
    OBVIOUS
  <2> USE DEF AccountsInv, FieldsInv, TableInv, ShownInv, PromotingInv
  <2>1. {fields.bank, fields.id, saving.bank} \subseteq Banks \cup {NoBank}
    BY DEF AccountFields, Updates
  <2> QED BY <2>1 DEF AccountsTypeOK, OnePrimary
<1> QED BY <1>1, AccountConstants, AccountsStart, AccountsStep, PTL DEF AccountsSpec

(* An offer refers to the account its seller has seen, and one of his accounts
   is primary, for any banks, numbers and edits in two tabs.                 *)
THEOREM AccountsAlwaysAgree == AccountsSpec => []AccountsAgree
<1>1. AccountsInv => AccountsAgree
  <2>1. AccountsInv => PrimaryKept
    BY DEF AccountsInv, PromotingInv, PrimaryKept, AllBegun, HasPrimary
  <2> QED BY <2>1 DEF AccountsInv, FieldsInv, ShownInv, AccountsAgree, OfferedAsShown
<1> QED BY <1>1, AccountConstants, AccountsStart, AccountsStep, PTL DEF AccountsSpec

-----------------------------------------------------------------------------
(* The forms that promise dong to the escrow.                                *)

Steps == {"none", "posting", "nonce", "sending", "sent", "done", "failed"}
Deals == [form : {"offer", "order"}, sells : BOOLEAN, min : {1}, max : Int,
          available : Int, balance : Int]
Entries == [amount : Int, min : Int, max : Int, open : BOOLEAN, confirm : BOOLEAN, data : Int]

\* What a seller can be held to; a buyer sends nothing.
Promised(a) == a > 0 /\ (deal.sells => a <= deal.balance)

DealInv == deal \in Deals /\ entry \in Entries /\ (entry.confirm => Promised(entry.data))

SubmissionInv ==
    /\ submission \in [SubmissionIds -> [st : Steps, amount : Int, nonce : Int]]
    /\ \A s \in SubmissionIds : submission[s].st # "none" => Promised(submission[s].amount)

NonceInv == nonceUsed \in [block : Int, pool : Int] /\ \A x \in ledger : x.nonce \in Int /\ x.nonce <= nonceUsed.pool

\* The row comes before the transfer, and the transfer before the announcement.
RowOf(s) == [of |-> s, amount |-> submission[s].amount]
RowsInv ==
    /\ \A r \in rows : r.of \in SubmissionIds /\ Promised(r.amount)
    /\ \A s \in SubmissionIds :
          /\ submission[s].st \in {"nonce", "sending", "sent"} => deal.sells /\ RowOf(s) \in rows
          /\ submission[s].st = "done" => RowOf(s) \in rows
          /\ submission[s].st \in {"sent", "done"} /\ deal.sells => \E x \in ledger : x.for = s
    /\ told \subseteq {s \in SubmissionIds : submission[s].st = "done"}

LedgerInv ==
    /\ \A x \in ledger : /\ x.for \in SubmissionIds /\ deal.sells
                         /\ submission[x.for].st \in {"sent", "done", "failed"}
                         /\ [of |-> x.for, amount |-> x.amount] \in rows
    /\ \A x, y \in ledger : x # y => x.for # y.for /\ x.nonce # y.nonce

EscrowInv == DealInv /\ SubmissionInv /\ NonceInv /\ RowsInv /\ LedgerInv

-----------------------------------------------------------------------------
(* Typing: only the deal and the entry change, and a confirmation is open   *)
(* only on an amount that was checked.                                      *)
LEMMA Typing ==
    ASSUME EscrowInv, UNCHANGED <<submission, rows, ledger, nonceUsed, told>>,
           deal' \in Deals, deal'.sells = deal.sells, deal'.balance = deal.balance,
           entry' \in Entries, entry'.confirm => Promised(entry'.data)
    PROVE  EscrowInv'
<1>1. \A a : Promised(a)' <=> Promised(a)
  BY DEF Promised
<1>2. DealInv'
  BY DEF DealInv, Promised
<1>3. SubmissionInv' /\ NonceInv'
  BY DEF EscrowInv, SubmissionInv, NonceInv, Promised
<1>4. RowsInv' /\ LedgerInv'
  BY DEF EscrowInv, RowsInv, LedgerInv, Promised, RowOf
<1> QED BY <1>2, <1>3, <1>4 DEF EscrowInv

LEMMA EntryTyped ==
    ASSUME NEW e \in Entries, NEW a \in Int, NEW b \in Int, NEW c \in Int
    PROVE  [e EXCEPT !.amount = a, !.min = b, !.max = c] \in Entries
BY DEF Entries

LEMMA AmountsAreInts == ASSUME EscrowConstants PROVE AmountsTo(MaxAmount) \subseteq Int
BY DEF EscrowConstants, AmountsTo

LEMMA TypingStep ==
    ASSUME EscrowConstants, EscrowInv,
           \/ \E a \in AmountsTo(MaxAmount) : TypeOfferAmount(a) \/ SliderChanged(a) \/ TypeOrderAmount(a)
           \/ \E low, high \in AmountsTo(MaxAmount) : TypeLimits(low, high)
           \/ PreSubmit \/ CloseModal \/ ReopenModal \/ HandleConfirm \/ CancelConfirm \/ OfferShrinks
    PROVE  EscrowInv'
<1>1. deal \in Deals /\ entry \in Entries /\ entry.amount \in Int
  BY DEF EscrowInv, DealInv, Entries
<1>2. ASSUME UNCHANGED <<deal, submission, rows, ledger, nonceUsed, told>>,
             entry' \in Entries, ~ entry'.confirm
      PROVE  EscrowInv'
  BY <1>1, <1>2, Typing
<1>3. ASSUME NEW a \in AmountsTo(MaxAmount), TypeOfferAmount(a) \/ SliderChanged(a) \/ TypeOrderAmount(a)
      PROVE  EscrowInv'
  <2>1. a \in Int /\ ~ entry.confirm /\ UNCHANGED <<deal, submission, rows, ledger, nonceUsed, told>>
    <3>1. CASE TypeOfferAmount(a)
      BY <3>1, AmountsAreInts DEF TypeOfferAmount
    <3>2. CASE SliderChanged(a)
      BY <3>2, AmountsAreInts DEF SliderChanged
    <3>3. CASE TypeOrderAmount(a)
      BY <3>3, AmountsAreInts DEF TypeOrderAmount
    <3> QED BY <1>3, <3>1, <3>2, <3>3
  <2>2. \/ entry' = [entry EXCEPT !.amount = a, !.min = 1, !.max = a]
        \/ entry' = [entry EXCEPT !.amount = a, !.min = 0, !.max = a]
        \/ entry' = [entry EXCEPT !.amount = a]
    <3>1. CASE SliderChanged(a)
      <4>1. entry' = [entry EXCEPT !.amount = a, !.min = IF a = 0 THEN 0 ELSE 1, !.max = a]
        BY <3>1 DEF SliderChanged
      <4> QED BY <4>1, Zenon
    <3> QED BY <1>3, <3>1 DEF TypeOfferAmount, TypeOrderAmount
  <2>3. entry' \in Entries /\ ~ entry'.confirm
    <3>1. CASE entry' = [entry EXCEPT !.amount = a, !.min = 1, !.max = a]
      <4>1. [entry EXCEPT !.amount = a, !.min = 1, !.max = a] \in Entries
        <5>1. 1 \in Int
          OBVIOUS
        <5> QED BY <1>1, <2>1, <5>1, EntryTyped, Zenon
      <4>2. [entry EXCEPT !.amount = a, !.min = 1, !.max = a].confirm = entry.confirm
        BY <1>1 DEF Entries
      <4> QED BY <2>1, <3>1, <4>1, <4>2, Zenon
    <3>2. CASE entry' = [entry EXCEPT !.amount = a, !.min = 0, !.max = a]
      <4>1. [entry EXCEPT !.amount = a, !.min = 0, !.max = a] \in Entries
        <5>1. 0 \in Int
          OBVIOUS
        <5> QED BY <1>1, <2>1, <5>1, EntryTyped, Zenon
      <4>2. [entry EXCEPT !.amount = a, !.min = 0, !.max = a].confirm = entry.confirm
        BY <1>1 DEF Entries
      <4> QED BY <2>1, <3>2, <4>1, <4>2, Zenon
    <3>3. CASE entry' = [entry EXCEPT !.amount = a]
      BY <1>1, <2>1, <3>3 DEF Entries
    <3> QED BY <2>2, <3>1, <3>2, <3>3
  <2> QED BY <1>2, <2>1, <2>3
<1>4. ASSUME NEW low \in AmountsTo(MaxAmount), NEW high \in AmountsTo(MaxAmount), TypeLimits(low, high)
      PROVE  EscrowInv'
  <2>1. /\ low \in Int /\ high \in Int /\ ~ entry.confirm
        /\ UNCHANGED <<deal, submission, rows, ledger, nonceUsed, told>>
        /\ entry' = [entry EXCEPT !.min = low, !.max = high]
    BY <1>4, AmountsAreInts DEF TypeLimits
  <2>2. entry' \in Entries /\ ~ entry'.confirm
    BY <1>1, <2>1 DEF Entries
  <2> QED BY <1>2, <2>1, <2>2
<1>5. CASE PreSubmit \/ HandleConfirm
  <2>1. /\ entry' = [entry EXCEPT !.confirm = TRUE, !.data = entry.amount]
        /\ UNCHANGED <<deal, submission, rows, ledger, nonceUsed, told>>
    BY <1>5 DEF PreSubmit, HandleConfirm
  <2>2. Promised(entry.amount)
    <3>1. CASE PreSubmit
      BY <3>1 DEF PreSubmit, OfferSchema, Promised
    <3>2. CASE HandleConfirm
      <4>1. entry.amount >= deal.min /\ entry.amount <= EffectiveMax
        BY <3>2 DEF HandleConfirm, IsValidAmount
      <4>2. deal.min = 1 /\ deal.max \in Int /\ deal.available \in Int /\ deal.balance \in Int
        BY <1>1 DEF Deals
      <4>3. deal.sells => EffectiveMax <= deal.balance
        BY <4>2 DEF EffectiveMax, Min2
      <4>4. EffectiveMax \in Int
        BY <4>2 DEF EffectiveMax, Min2
      <4> QED BY <1>1, <4>1, <4>2, <4>3, <4>4 DEF Promised
    <3> QED BY <1>5, <3>1, <3>2
  <2>3. entry' \in Entries /\ entry'.data = entry.amount
    BY <1>1, <2>1 DEF Entries
  <2> QED BY <1>1, <2>1, <2>2, <2>3, Typing
<1>6. CASE CloseModal \/ ReopenModal \/ CancelConfirm
  <2>1. UNCHANGED <<deal, submission, rows, ledger, nonceUsed, told>>
    BY <1>6 DEF CloseModal, ReopenModal, CancelConfirm
  <2>2. entry' \in Entries /\ ~ entry'.confirm
    <3>1. NoEntry \in Entries /\ ~ NoEntry.confirm
      BY DEF NoEntry, Entries
    <3> QED BY <1>1, <1>6, <3>1 DEF CloseModal, ReopenModal, CancelConfirm, Entries
  <2> QED BY <1>2, <2>1, <2>2
<1>7. CASE OfferShrinks
  <2>1. /\ deal' = [deal EXCEPT !.available = deal.available - 1]
        /\ UNCHANGED <<entry, submission, rows, ledger, nonceUsed, told>>
    BY <1>7 DEF OfferShrinks
  <2>2. deal' \in Deals /\ deal'.sells = deal.sells /\ deal'.balance = deal.balance
    BY <1>1, <2>1 DEF Deals
  <2> QED BY <1>1, <2>1, <2>2, Typing DEF EscrowInv, DealInv
<1> QED BY <1>3, <1>4, <1>5, <1>6, <1>7

-----------------------------------------------------------------------------
(* A submission and its transfer, one lemma for each step.                  *)

\* Only one submission moves, and keeps what it promised.
Moved(s, st, n) ==
    submission' = [submission EXCEPT ![s] = [st |-> st, amount |-> submission[s].amount, nonce |-> n]]

LEMMA MovedInv ==
    ASSUME EscrowInv, NEW s \in SubmissionIds, NEW st \in Steps, NEW n \in Int, Moved(s, st, n),
           submission[s].st # "none", UNCHANGED deal
    PROVE  /\ SubmissionInv'
           /\ submission'[s].st = st /\ submission'[s].amount = submission[s].amount
           /\ submission'[s].nonce = n
           /\ \A t \in SubmissionIds : t # s => submission'[t] = submission[t]
           /\ \A t \in SubmissionIds : RowOf(t)' = RowOf(t)
<1>1. submission \in [SubmissionIds -> [st : Steps, amount : Int, nonce : Int]]
  BY DEF EscrowInv, SubmissionInv
<1>2. submission[s].amount \in Int
  BY <1>1
<1>3. /\ submission'[s] = [st |-> st, amount |-> submission[s].amount, nonce |-> n]
      /\ \A t \in SubmissionIds : t # s => submission'[t] = submission[t]
      /\ submission' \in [SubmissionIds -> [st : Steps, amount : Int, nonce : Int]]
  BY <1>1, <1>2 DEF Moved
<1>4. \A t \in SubmissionIds : submission'[t].amount = submission[t].amount
  BY <1>3
<1>5. \A t \in SubmissionIds : RowOf(t)' = RowOf(t)
  BY <1>4 DEF RowOf
<1>6. \A t \in SubmissionIds : submission'[t].st # "none" => Promised(submission[t].amount)
  BY <1>3 DEF EscrowInv, SubmissionInv
<1>7. SubmissionInv'
  BY <1>3, <1>4, <1>6 DEF SubmissionInv, Promised
<1> QED BY <1>3, <1>5, <1>7

\* The dialogs that close leave no confirmation open.
LEMMA ClosedEntry ==
    ASSUME EscrowInv, NEW s, UNCHANGED deal, entry' \in {entry, Closed(s)} PROVE DealInv'
<1>1. deal \in Deals /\ entry \in Entries /\ (entry.confirm => Promised(entry.data))
  BY DEF EscrowInv, DealInv
<1>2. entry' = entry \/ \E p \in BOOLEAN : entry' = [entry EXCEPT !.confirm = FALSE, !.open = p]
  <2>1. entry.open \in BOOLEAN /\ (s \notin told' /\ entry.open) \in BOOLEAN
    BY <1>1 DEF Entries
  <2>2. entry' = entry \/ entry' = [entry EXCEPT !.confirm = FALSE, !.open = (s \notin told' /\ entry.open)]
    BY DEF Closed
  <2> QED BY <2>1, <2>2, Zenon
<1>3. ASSUME NEW p \in BOOLEAN, entry' = [entry EXCEPT !.confirm = FALSE, !.open = p]
      PROVE  entry' \in Entries /\ ~ entry'.confirm
  BY <1>1, <1>3 DEF Entries
<1> QED BY <1>1, <1>2, <1>3 DEF DealInv, Promised

LEMMA FinalConfirmStep ==
    ASSUME EscrowInv, NEW s \in SubmissionIds, FinalConfirm(s) PROVE EscrowInv'
<1>1. /\ entry.confirm /\ submission[s].st = "none"
      /\ submission' = [submission EXCEPT ![s] = [st |-> "posting", amount |-> entry.data, nonce |-> 0]]
      /\ entry' = [entry EXCEPT !.confirm = FALSE] \/ entry' = entry
      /\ UNCHANGED <<deal, rows, ledger, nonceUsed, told>>
  BY DEF FinalConfirm, Free
<1>2. /\ deal \in Deals /\ entry \in Entries /\ Promised(entry.data) /\ entry.data \in Int
      /\ submission \in [SubmissionIds -> [st : Steps, amount : Int, nonce : Int]]
  BY <1>1 DEF EscrowInv, DealInv, SubmissionInv, Entries
<1>3. DealInv'
  <2>1. entry' \in Entries /\ (entry'.confirm => entry' = entry)
    BY <1>1, <1>2 DEF Entries
  <2> QED BY <1>1, <1>2, <2>1 DEF DealInv, Promised
<1>4. /\ submission'[s] = [st |-> "posting", amount |-> entry.data, nonce |-> 0]
      /\ \A t \in SubmissionIds : t # s => submission'[t] = submission[t]
      /\ submission' \in [SubmissionIds -> [st : Steps, amount : Int, nonce : Int]]
  BY <1>1, <1>2 DEF Steps
<1>5. SubmissionInv'
  BY <1>1, <1>2, <1>4 DEF EscrowInv, SubmissionInv, Promised
<1>6. NonceInv'
  BY <1>1 DEF EscrowInv, NonceInv
<1>7. \A t \in SubmissionIds : t # s => RowOf(t)' = RowOf(t)
  BY <1>4 DEF RowOf
<1>8. \A t \in SubmissionIds : submission'[t].st \in {"nonce", "sending", "sent", "done", "failed"}
                                  => t # s /\ submission'[t].st = submission[t].st
  BY <1>4
<1>9. RowsInv'
  <2>1. \A r \in rows : r.of \in SubmissionIds /\ Promised(r.amount)
    BY DEF EscrowInv, RowsInv
  <2>2. \A r \in rows' : r.of \in SubmissionIds /\ Promised(r.amount)'
    BY <1>1, <2>1 DEF Promised
  <2>3. \A t \in told : t # s
    BY <1>1 DEF EscrowInv, RowsInv
  <2> QED BY <1>1, <1>4, <1>7, <1>8, <2>2, <2>3 DEF EscrowInv, RowsInv
<1>10. LedgerInv'
  <2>1. \A x \in ledger : x.for # s
    BY <1>1 DEF EscrowInv, LedgerInv
  <2> QED BY <1>1, <1>4, <2>1 DEF EscrowInv, LedgerInv
<1> QED BY <1>3, <1>5, <1>6, <1>9, <1>10 DEF EscrowInv

\* The ledger does not change, the rows may only grow by that of s.
LEMMA RowStep ==
    ASSUME EscrowInv, NEW s \in SubmissionIds, NEW st \in Steps, NEW n \in Int, Moved(s, st, n),
           submission[s].st # "none", UNCHANGED <<deal, ledger, nonceUsed>>,
           entry' \in {entry, Closed(s)},
           rows' \in {rows, rows \cup {RowOf(s)}}, told' \in {told, told \cup {s}},
           st \in {"nonce", "sending", "sent"} => deal.sells /\ RowOf(s) \in rows',
           st = "done" => RowOf(s) \in rows',
           st \in {"sent", "done"} /\ deal.sells => \E x \in ledger : x.for = s,
           s \in told' => st = "done",
           submission[s].st \in {"sent", "done", "failed"} => st \in {"sent", "done", "failed"}
    PROVE  EscrowInv'
<1>1. /\ SubmissionInv'
      /\ submission'[s].st = st
      /\ \A t \in SubmissionIds : t # s => submission'[t] = submission[t]
      /\ \A t \in SubmissionIds : RowOf(t)' = RowOf(t)
  BY MovedInv
<1>2. DealInv' /\ NonceInv'
  BY ClosedEntry DEF EscrowInv, NonceInv
<1>3. RowsInv'
  <2>1. RowOf(s).of = s /\ RowOf(s).amount = submission[s].amount /\ Promised(submission[s].amount)
    BY DEF RowOf, EscrowInv, SubmissionInv
  <2>2. \A r \in rows' : r.of \in SubmissionIds /\ Promised(r.amount)
    BY <2>1 DEF EscrowInv, RowsInv
  <2>3. \A r \in rows' : r.of \in SubmissionIds /\ Promised(r.amount)'
    BY <2>2 DEF Promised
  <2>4. ASSUME NEW t \in SubmissionIds
        PROVE  /\ submission'[t].st \in {"nonce", "sending", "sent"} => deal'.sells /\ RowOf(t)' \in rows'
               /\ submission'[t].st = "done" => RowOf(t)' \in rows'
               /\ submission'[t].st \in {"sent", "done"} /\ deal'.sells => \E x \in ledger' : x.for = t
    <3>1. CASE t = s
      BY <1>1, <3>1
    <3>2. CASE t # s
      BY <1>1, <3>2 DEF EscrowInv, RowsInv
    <3> QED BY <3>1, <3>2
  <2>5. told' \subseteq {t \in SubmissionIds : submission'[t].st = "done"}
    BY <1>1 DEF EscrowInv, RowsInv
  <2> QED BY <2>3, <2>4, <2>5 DEF RowsInv
<1>4. LedgerInv'
  BY <1>1 DEF EscrowInv, LedgerInv
<1> QED BY <1>1, <1>2, <1>3, <1>4 DEF EscrowInv

LEMMA MovesOnly ==
    ASSUME EscrowInv, NEW s \in SubmissionIds, NEW st \in Steps,
           submission' = [submission EXCEPT ![s].st = st]
    PROVE  Moved(s, st, submission[s].nonce) /\ submission[s].nonce \in Int
<1>1. submission[s] \in [st : Steps, amount : Int, nonce : Int]
  BY DEF EscrowInv, SubmissionInv
<1>2. [submission[s] EXCEPT !.st = st]
          = [st |-> st, amount |-> submission[s].amount, nonce |-> submission[s].nonce]
  BY <1>1
<1> QED BY <1>1, <1>2 DEF Moved

LEMMA CreatedStep ==
    ASSUME EscrowInv, NEW s \in SubmissionIds, Created(s) PROVE EscrowInv'
<1>1. /\ submission[s].st = "posting" /\ rows' = rows \cup {RowOf(s)}
      /\ UNCHANGED <<deal, ledger, nonceUsed>>
      /\ \/ /\ deal.sells /\ submission' = [submission EXCEPT ![s].st = "nonce"]
            /\ told' = told /\ entry' = entry
         \/ /\ ~ deal.sells /\ submission' = [submission EXCEPT ![s].st = "done"]
            /\ told' = told \cup {s} /\ entry' = Closed(s)
  BY DEF Created, RowOf
<1>2. s \notin told
  BY <1>1 DEF EscrowInv, RowsInv
<1>3. CASE deal.sells
  <2>1. Moved(s, "nonce", submission[s].nonce) /\ submission[s].nonce \in Int
    BY <1>1, <1>3, MovesOnly DEF Steps
  <2> QED BY <1>1, <1>2, <1>3, <2>1, RowStep DEF Steps
<1>4. CASE ~ deal.sells
  <2>1. Moved(s, "done", submission[s].nonce) /\ submission[s].nonce \in Int
    BY <1>1, <1>4, MovesOnly DEF Steps
  <2> QED BY <1>1, <1>2, <1>4, <2>1, RowStep DEF Steps
<1> QED BY <1>3, <1>4

LEMMA FailedStep ==
    ASSUME EscrowInv, NEW s \in SubmissionIds, CreationFails(s) \/ TransferFails(s) PROVE EscrowInv'
<1>1. /\ submission[s].st \in {"posting", "nonce", "sending", "sent"}
      /\ submission' = [submission EXCEPT ![s].st = "failed"]
      /\ rows' \in {rows, rows \cup {RowOf(s)}}
      /\ told' = told /\ entry' = Closed(s) /\ UNCHANGED <<deal, ledger, nonceUsed>>
  BY DEF CreationFails, TransferFails, RowOf
<1>2. s \notin told
  BY <1>1 DEF EscrowInv, RowsInv
<1>3. Moved(s, "failed", submission[s].nonce) /\ submission[s].nonce \in Int
  BY <1>1, MovesOnly DEF Steps
<1> QED BY <1>1, <1>2, <1>3, RowStep DEF Steps

LEMMA NonceStep ==
    ASSUME EscrowInv, NEW s \in SubmissionIds, GetCurrentNonce(s) PROVE EscrowInv'
<1>1. /\ submission[s].st = "nonce" /\ UNCHANGED <<deal, entry, rows, ledger, nonceUsed, told>>
      /\ submission' = [submission EXCEPT ![s].st = "sending", ![s].nonce = nonceUsed.block + 1]
  BY DEF GetCurrentNonce
<1>2. submission[s] \in [st : Steps, amount : Int, nonce : Int] /\ nonceUsed.block + 1 \in Int
  BY DEF EscrowInv, SubmissionInv, NonceInv
<1>3. Moved(s, "sending", nonceUsed.block + 1)
  <2> DEFINE a == submission[s].amount
             n == nonceUsed.block + 1
             q == [submission EXCEPT ![s].st = "sending"]
  <2>1. submission \in [SubmissionIds -> [st : Steps, amount : Int, nonce : Int]]
    BY DEF EscrowInv, SubmissionInv
  <2>2. q[s] = [st |-> "sending", amount |-> a, nonce |-> submission[s].nonce]
    BY <2>1
  <2>3. submission' = [q EXCEPT ![s].nonce = n]
    BY <1>1
  <2>4. [q[s] EXCEPT !.nonce = n] = [st |-> "sending", amount |-> a, nonce |-> n]
    BY <2>2
  <2>5. submission' = [submission EXCEPT ![s] = [st |-> "sending", amount |-> a, nonce |-> n]]
    BY <2>1, <2>3, <2>4
  <2> QED BY <2>5 DEF Moved
<1>4. s \notin told /\ deal.sells /\ RowOf(s) \in rows
  BY <1>1 DEF EscrowInv, RowsInv
<1> QED BY <1>1, <1>2, <1>3, <1>4, RowStep DEF Steps

LEMMA SucceedsStep ==
    ASSUME EscrowInv, NEW s \in SubmissionIds, TransferSucceeds(s) PROVE EscrowInv'
<1>1. /\ submission[s].st = "sent" /\ submission' = [submission EXCEPT ![s].st = "done"]
      /\ told' = told \cup {s} /\ entry' = Closed(s) /\ UNCHANGED <<deal, rows, ledger, nonceUsed>>
  BY DEF TransferSucceeds
<1>2. deal.sells /\ RowOf(s) \in rows /\ \E x \in ledger : x.for = s
  BY <1>1 DEF EscrowInv, RowsInv
<1>3. Moved(s, "done", submission[s].nonce) /\ submission[s].nonce \in Int
  BY <1>1, MovesOnly DEF Steps
<1> QED BY <1>1, <1>2, <1>3, RowStep DEF Steps

\* The only step that writes the ledger: the nonce is above every one in it, and
\* the submission had not sent.
LEMMA SendStep ==
    ASSUME EscrowInv, NEW s \in SubmissionIds, SendTransaction(s) PROVE EscrowInv'
<1> DEFINE x0 == [for |-> s, amount |-> submission[s].amount, nonce |-> submission[s].nonce]
<1>1. /\ submission[s].st = "sending" /\ submission[s].nonce > nonceUsed.pool
      /\ ledger' = ledger \cup {x0}
      /\ nonceUsed' = [nonceUsed EXCEPT !.pool = submission[s].nonce]
      /\ submission' = [submission EXCEPT ![s].st = "sent"]
      /\ UNCHANGED <<deal, entry, rows, told>>
  BY DEF SendTransaction, Taken
<1>2. Moved(s, "sent", submission[s].nonce) /\ submission[s].nonce \in Int
  BY <1>1, MovesOnly DEF Steps
<1>3. /\ SubmissionInv'
      /\ submission'[s].st = "sent"
      /\ \A t \in SubmissionIds : t # s => submission'[t] = submission[t]
      /\ \A t \in SubmissionIds : RowOf(t)' = RowOf(t)
  BY <1>1, <1>2, MovedInv DEF Steps
<1>4. x0.for = s /\ x0.amount = submission[s].amount /\ x0.nonce = submission[s].nonce
  OBVIOUS
<1> HIDE DEF x0
<1>5. DealInv'
  BY <1>1, ClosedEntry DEF EscrowInv
<1>6. nonceUsed' \in [block : Int, pool : Int] /\ nonceUsed'.pool = submission[s].nonce
      /\ nonceUsed.pool \in Int
  BY <1>1, <1>2 DEF EscrowInv, NonceInv
<1>7. \A x \in ledger : x.nonce # submission[s].nonce /\ x.for # s
  <2>1. \A x \in ledger : x.nonce <= nonceUsed.pool
    BY DEF EscrowInv, NonceInv
  <2>2. \A x \in ledger : x.for # s
    BY <1>1 DEF EscrowInv, LedgerInv
  <2>3. ASSUME NEW x \in ledger, x.nonce = submission[s].nonce PROVE FALSE
    BY <1>1, <1>2, <1>6, <2>1, <2>3
  <2> QED BY <2>2, <2>3
<1>8. \A x \in ledger : x.nonce \in Int
  BY DEF EscrowInv, NonceInv
<1>9. NonceInv'
  BY <1>1, <1>2, <1>4, <1>6, <1>8 DEF EscrowInv, NonceInv
<1>10. RowsInv'
  <2>1. \A r \in rows' : r.of \in SubmissionIds /\ Promised(r.amount)'
    BY <1>1 DEF EscrowInv, RowsInv, Promised
  <2>2. deal.sells /\ RowOf(s) \in rows /\ s \notin told
    BY <1>1 DEF EscrowInv, RowsInv
  <2> QED BY <1>1, <1>3, <1>4, <2>1, <2>2 DEF EscrowInv, RowsInv
<1>11. LedgerInv'
  <2>1. deal.sells /\ [of |-> s, amount |-> x0.amount] \in rows
    BY <1>1, <1>4 DEF EscrowInv, RowsInv, RowOf
  <2>2. \A x \in ledger' : /\ x.for \in SubmissionIds /\ deal'.sells
                           /\ submission'[x.for].st \in {"sent", "done", "failed"}
                           /\ [of |-> x.for, amount |-> x.amount] \in rows'
    BY <1>1, <1>3, <1>4, <2>1 DEF EscrowInv, LedgerInv
  <2>3. \A x, y \in ledger' : x # y => x.for # y.for /\ x.nonce # y.nonce
    BY <1>1, <1>4, <1>7 DEF EscrowInv, LedgerInv
  <2> QED BY <2>2, <2>3 DEF LedgerInv
<1> QED BY <1>3, <1>5, <1>9, <1>10, <1>11 DEF EscrowInv

LEMMA BlockStep == ASSUME EscrowInv, BlockMade PROVE EscrowInv'
<1>1. /\ nonceUsed' = [nonceUsed EXCEPT !.block = nonceUsed.pool]
      /\ UNCHANGED <<deal, entry, submission, rows, ledger, told>>
  BY DEF BlockMade
<1>2. NonceInv'
  BY <1>1 DEF EscrowInv, NonceInv
<1> QED BY <1>1, <1>2 DEF EscrowInv, DealInv, SubmissionInv, RowsInv, LedgerInv, Promised, RowOf

LEMMA EscrowStep == ASSUME EscrowConstants, EscrowInv, [EscrowNext]_escrowVars PROVE EscrowInv'
<1>1. CASE UNCHANGED escrowVars
  BY <1>1 DEF escrowVars, EscrowInv, DealInv, SubmissionInv, NonceInv, RowsInv, LedgerInv, Promised, RowOf
<1> QED BY <1>1, TypingStep, FinalConfirmStep, CreatedStep, FailedStep, NonceStep, SendStep, SucceedsStep,
           BlockStep DEF EscrowNext

LEMMA EscrowStart == ASSUME EscrowConstants, EscrowInit PROVE EscrowInv
<1>1. deal \in Deals
  BY DEF EscrowConstants, EscrowInit, Deals
<1>2. DealInv
  BY <1>1 DEF EscrowInit, DealInv, NoEntry, Entries
<1> QED BY <1>2 DEF EscrowInit, EscrowInv, SubmissionInv, NonceInv, RowsInv, LedgerInv, NoSubmission, Steps

-----------------------------------------------------------------------------
(* The inductive invariant: a row before its transfer, a transfer before its *)
(* announcement, and every nonce of the ledger in the pool.                 *)
THEOREM EscrowAlways == EscrowSpec => []EscrowInv
<1>1. EscrowInit => EscrowInv
  BY EscrowConstants, EscrowStart
<1>2. EscrowInv /\ [EscrowNext]_escrowVars => EscrowInv'
  BY EscrowConstants, EscrowStep
<1> QED BY <1>1, <1>2, PTL DEF EscrowSpec

(* However submissions overlap and answers are lost, the chain takes one   *)
(* transfer at most for an offer or an order, of its amount.               *)
THEOREM TransfersOnce == EscrowSpec => []OneTransferPerRow
<1>1. EscrowInv => OneTransferPerRow
  BY DEF EscrowInv, LedgerInv, OneTransferPerRow
<1> QED BY <1>1, EscrowAlways, PTL

(* What the page announces is created, and its dong is with the chain.     *)
THEOREM AnnouncedFunded == EscrowSpec => []AnnouncedIsFunded
<1>1. EscrowInv => AnnouncedIsFunded
  <2> SUFFICES ASSUME EscrowInv, NEW s \in told
               PROVE  (\E r \in rows : r.of = s) /\ (deal.sells => \E x \in ledger : x.for = s)
    BY DEF AnnouncedIsFunded
  <2>1. s \in SubmissionIds /\ RowOf(s) \in rows /\ (deal.sells => \E x \in ledger : x.for = s)
    BY DEF EscrowInv, RowsInv
  <2>2. RowOf(s).of = s
    BY DEF RowOf
  <2> QED BY <2>1, <2>2
<1> QED BY <1>1, EscrowAlways, PTL

(* No row promises more of a seller than the balance that was shown.       *)
THEOREM RowsWithinBalance ==
    EscrowSpec => [](\A r \in rows : r.amount > 0 /\ (deal.sells => r.amount <= deal.balance))
<1>1. EscrowInv => \A r \in rows : r.amount > 0 /\ (deal.sells => r.amount <= deal.balance)
  BY DEF EscrowInv, RowsInv, Promised
<1> QED BY <1>1, EscrowAlways, PTL

(* A promise is kept once, whatever overlaps and whatever is lost.         *)
THEOREM PromisesKept == EscrowSpec => []PromisesAreTransferred
<1>1. OneTransferPerRow /\ AnnouncedIsFunded => PromisesAreTransferred
  BY DEF PromisesAreTransferred
<1> QED BY <1>1, TransfersOnce, AnnouncedFunded, PTL

-----------------------------------------------------------------------------
(* The types: every amount was typed, and one nonce is used for each        *)
(* submission that has sent.                                                *)
AmountsInv ==
    /\ {entry.amount, entry.min, entry.max, entry.data} \subseteq AmountsTo(MaxAmount)
    /\ \A s \in SubmissionIds : submission[s].amount \in AmountsTo(MaxAmount)
    /\ \A r \in rows : r.amount \in AmountsTo(MaxAmount)

Senders == {s \in SubmissionIds : \E x \in ledger : x.for = s}
PoolInv ==
    /\ nonceUsed.block \in Nat /\ nonceUsed.block <= nonceUsed.pool
    /\ nonceUsed.pool = Cardinality(Senders)
    /\ \A s \in SubmissionIds : submission[s].nonce \in 0..(nonceUsed.block + 1)
    /\ \A s \in SubmissionIds : submission[s].nonce <= MaxSubmissions

LEMMA EscrowTypes ==
    ASSUME EscrowInv
    PROVE  /\ entry \in Entries /\ deal \in Deals
           /\ submission \in [SubmissionIds -> [st : Steps, amount : Int, nonce : Int]]
           /\ nonceUsed \in [block : Int, pool : Int]
BY DEF EscrowInv, DealInv, SubmissionInv, NonceInv

(* What is typed is an amount.                                              *)
LEMMA TypedAmounts ==
    ASSUME EscrowConstants, EscrowInv, AmountsInv,
           \/ \E a \in AmountsTo(MaxAmount) : TypeOfferAmount(a) \/ SliderChanged(a) \/ TypeOrderAmount(a)
           \/ \E low, high \in AmountsTo(MaxAmount) : TypeLimits(low, high)
           \/ PreSubmit \/ CloseModal \/ ReopenModal \/ HandleConfirm \/ CancelConfirm \/ OfferShrinks
    PROVE  AmountsInv'
<1> DEFINE A == AmountsTo(MaxAmount)
<1>1. /\ entry \in Entries /\ 0 \in A /\ 1 \in A
      /\ entry.amount \in A /\ entry.min \in A /\ entry.max \in A /\ entry.data \in A
  BY EscrowTypes DEF AmountsInv, AmountsTo, EscrowConstants
<1>2. UNCHANGED <<submission, rows>>
  BY DEF TypeOfferAmount, SliderChanged, TypeOrderAmount, TypeLimits, PreSubmit, CloseModal, ReopenModal,
         HandleConfirm, CancelConfirm, OfferShrinks
<1>3. entry'.amount \in A /\ entry'.min \in A /\ entry'.max \in A /\ entry'.data \in A
  <2> HIDE DEF A
  <2>1. ASSUME NEW a \in A, TypeOfferAmount(a) \/ SliderChanged(a) \/ TypeOrderAmount(a)
        PROVE  entry'.amount \in A /\ entry'.min \in A /\ entry'.max \in A /\ entry'.data \in A
    BY <1>1, <2>1 DEF TypeOfferAmount, SliderChanged, TypeOrderAmount, Entries
  <2>2. ASSUME NEW low \in A, NEW high \in A, TypeLimits(low, high)
        PROVE  entry'.amount \in A /\ entry'.min \in A /\ entry'.max \in A /\ entry'.data \in A
    BY <1>1, <2>2 DEF TypeLimits, Entries
  <2>3. CASE PreSubmit \/ HandleConfirm
    BY <1>1, <2>3 DEF PreSubmit, HandleConfirm, Entries
  <2>4. CASE CloseModal \/ CancelConfirm \/ OfferShrinks
    BY <1>1, <2>4 DEF CloseModal, CancelConfirm, OfferShrinks, Entries
  <2>5. CASE ReopenModal
    BY <1>1, <2>5 DEF ReopenModal, NoEntry
  <2> QED BY <2>5, <2>1, <2>2, <2>3, <2>4 DEF A
<1> QED BY <1>2, <1>3 DEF AmountsInv

LEMMA MovedAmounts ==
    ASSUME EscrowConstants, EscrowInv, AmountsInv, NEW s \in SubmissionIds,
           \/ FinalConfirm(s) \/ Created(s) \/ CreationFails(s) \/ GetCurrentNonce(s)
           \/ SendTransaction(s) \/ TransferSucceeds(s) \/ TransferFails(s)
    PROVE  AmountsInv'
<1> DEFINE A == AmountsTo(MaxAmount)
<1>1. /\ entry \in Entries /\ submission \in [SubmissionIds -> [st : Steps, amount : Int, nonce : Int]]
      /\ entry.amount \in A /\ entry.min \in A /\ entry.max \in A /\ entry.data \in A
      /\ \A t \in SubmissionIds : submission[t].amount \in A
      /\ \A r \in rows : r.amount \in A
  BY EscrowTypes DEF AmountsInv
<1> HIDE DEF A
<1>2. entry'.amount \in A /\ entry'.min \in A /\ entry'.max \in A /\ entry'.data \in A
  <2>1. ASSUME entry' = Closed(s) \/ entry' = [entry EXCEPT !.confirm = FALSE] \/ entry' = entry
        PROVE  entry'.amount \in A /\ entry'.min \in A /\ entry'.max \in A /\ entry'.data \in A
    BY <1>1, <2>1 DEF Closed, Entries
  <2> QED BY <2>1 DEF FinalConfirm, Created, CreationFails, GetCurrentNonce, SendTransaction,
                      TransferSucceeds, TransferFails
<1>3. \A t \in SubmissionIds : submission'[t].amount \in A
  <2>1. CASE FinalConfirm(s)
    BY <1>1, <2>1 DEF FinalConfirm
  <2>2. CASE GetCurrentNonce(s)
    BY <1>1, <2>2 DEF GetCurrentNonce
  <2>3. ASSUME NEW st \in Steps, submission' = [submission EXCEPT ![s].st = st]
        PROVE  \A t \in SubmissionIds : submission'[t].amount \in A
    BY <1>1, <2>3
  <2>4. CASE Created(s)
    BY <2>3, <2>4 DEF Created, Steps
  <2>5. CASE CreationFails(s) \/ TransferFails(s)
    BY <2>3, <2>5 DEF CreationFails, TransferFails, Steps
  <2>6. CASE SendTransaction(s) \/ TransferSucceeds(s)
    BY <2>3, <2>6 DEF SendTransaction, TransferSucceeds, Steps
  <2> QED BY <2>1, <2>2, <2>4, <2>5, <2>6
<1>4. \A r \in rows' : r.amount \in A
  <2>1. rows' = rows \/ rows' = rows \cup {[of |-> s, amount |-> submission[s].amount]}
    BY DEF FinalConfirm, Created, CreationFails, GetCurrentNonce, SendTransaction, TransferSucceeds, TransferFails
  <2> QED BY <1>1, <2>1
<1> QED BY <1>2, <1>3, <1>4 DEF AmountsInv, A

(* A submission whose transfer was not taken is none of the senders.        *)
LEMMA SendersLeave ==
    ASSUME EscrowConstants, EscrowInv, NEW s \in SubmissionIds, s \notin Senders
    PROVE  /\ IsFiniteSet(Senders) /\ Cardinality(Senders) \in Nat /\ Cardinality(Senders) < MaxSubmissions
           /\ Cardinality(Senders \cup {s}) = Cardinality(Senders) + 1
<1>1. MaxSubmissions \in Nat /\ IsFiniteSet(SubmissionIds) /\ Cardinality(SubmissionIds) = MaxSubmissions
  <2>1. 1 \in Int /\ MaxSubmissions \in Nat \ {0}
    BY DEF EscrowConstants
  <2> QED BY <2>1, FS_Interval DEF SubmissionIds
<1>2. Senders \subseteq SubmissionIds
  BY DEF Senders
<1>3. IsFiniteSet(Senders) /\ Cardinality(Senders) \in Nat
  BY <1>1, <1>2, FS_Subset, FS_CardinalityType
<1>4. Cardinality(Senders \cup {s}) = Cardinality(Senders) + 1
  BY <1>3, FS_AddElement
<1>5. Cardinality(Senders \cup {s}) <= MaxSubmissions
  BY <1>1, <1>2, FS_Subset
<1> QED BY <1>1, <1>3, <1>4, <1>5

(* What no submission sends leaves the nonces as they are.                  *)
LEMMA PoolStays ==
    ASSUME EscrowConstants, EscrowInv, PoolInv, UNCHANGED <<ledger, nonceUsed>>,
           \A t \in SubmissionIds : submission'[t].nonce \in {submission[t].nonce, 0}
    PROVE  PoolInv'
<1>1. /\ nonceUsed.block \in Nat /\ 0 \in 0..(nonceUsed.block + 1) /\ 0 <= MaxSubmissions
  BY DEF PoolInv, EscrowConstants
<1> QED BY <1>1 DEF PoolInv, Senders

LEMMA PoolStep ==
    ASSUME EscrowConstants, EscrowInv, PoolInv, [EscrowNext]_escrowVars
    PROVE  PoolInv'
<1>1. /\ submission \in [SubmissionIds -> [st : Steps, amount : Int, nonce : Int]]
      /\ nonceUsed \in [block : Int, pool : Int] /\ nonceUsed.block \in Nat
      /\ nonceUsed.block <= nonceUsed.pool /\ nonceUsed.pool \in Int
      /\ \A s \in SubmissionIds : submission[s].nonce \in Int
      /\ MaxSubmissions \in Nat
  BY EscrowTypes DEF PoolInv, EscrowConstants
<1>2. CASE UNCHANGED <<submission, ledger, nonceUsed>>
  BY <1>2, PoolStays
<1>3. ASSUME NEW s \in SubmissionIds, NEW st, submission' = [submission EXCEPT ![s].st = st],
             UNCHANGED <<ledger, nonceUsed>>
      PROVE  PoolInv'
  <2>1. \A t \in SubmissionIds : submission'[t].nonce = submission[t].nonce
    BY <1>1, <1>3
  <2> QED BY <1>3, <2>1, PoolStays
<1>4. ASSUME NEW s \in SubmissionIds, FinalConfirm(s) PROVE PoolInv'
  <2>1. \A t \in SubmissionIds : submission'[t].nonce \in {submission[t].nonce, 0}
    BY <1>1, <1>4 DEF FinalConfirm
  <2> QED BY <1>4, <2>1, PoolStays DEF FinalConfirm
<1>5. ASSUME NEW s \in SubmissionIds, submission[s].st \in {"nonce", "sending"} PROVE s \notin Senders
  BY <1>5 DEF EscrowInv, LedgerInv, Senders
<1>6. ASSUME NEW s \in SubmissionIds, GetCurrentNonce(s) PROVE PoolInv'
  <2> DEFINE n == nonceUsed.block + 1
  <2>1. /\ submission[s].st = "nonce" /\ UNCHANGED <<ledger, nonceUsed>>
        /\ submission' = [submission EXCEPT ![s].st = "sending", ![s].nonce = n]
    BY <1>6 DEF GetCurrentNonce
  <2>2. n \in 0..(nonceUsed.block + 1) /\ n <= MaxSubmissions
    <3>1. Cardinality(Senders) \in Nat /\ Cardinality(Senders) < MaxSubmissions
      BY <1>5, <2>1, SendersLeave
    <3>2. nonceUsed.block <= Cardinality(Senders)
      BY <1>1 DEF PoolInv
    <3> QED BY <1>1, <3>1, <3>2
  <2>3. submission'[s].nonce = n /\ \A t \in SubmissionIds : t # s => submission'[t] = submission[t]
    BY <1>1, <2>1
  <2> HIDE DEF n
  <2> QED BY <2>1, <2>2, <2>3 DEF PoolInv, Senders
<1>7. ASSUME NEW s \in SubmissionIds, SendTransaction(s) PROVE PoolInv'
  <2>1. /\ submission[s].st = "sending" /\ submission[s].nonce > nonceUsed.pool
        /\ ledger' = ledger \cup {[for |-> s, amount |-> submission[s].amount, nonce |-> submission[s].nonce]}
        /\ nonceUsed' = [nonceUsed EXCEPT !.pool = submission[s].nonce]
        /\ submission' = [submission EXCEPT ![s].st = "sent"]
    BY <1>7 DEF SendTransaction, Taken
  <2>2. Senders' = Senders \cup {s}
    <3> DEFINE x0 == [for |-> s, amount |-> submission[s].amount, nonce |-> submission[s].nonce]
    <3>1. x0.for = s /\ ledger' = ledger \cup {x0}
      BY <2>1
    <3> HIDE DEF x0
    <3> QED BY <3>1 DEF Senders
  <2>3. Cardinality(Senders \cup {s}) = Cardinality(Senders) + 1
    BY <1>5, <2>1, SendersLeave
  <2>4. submission[s].nonce = nonceUsed.pool + 1
    <3>1. submission[s].nonce \in 0..(nonceUsed.block + 1)
      BY DEF PoolInv
    <3> QED BY <1>1, <2>1, <3>1
  <2>5. nonceUsed'.pool = nonceUsed.pool + 1 /\ nonceUsed'.block = nonceUsed.block
    BY <1>1, <2>1, <2>4
  <2>6. \A t \in SubmissionIds : submission'[t].nonce = submission[t].nonce
    BY <1>1, <2>1
  <2>7. nonceUsed'.pool = Cardinality(Senders)'
    BY <2>2, <2>3, <2>5 DEF PoolInv
  <2> QED BY <1>1, <2>5, <2>6, <2>7 DEF PoolInv
<1>8. CASE BlockMade
  <2>1. /\ nonceUsed'.block = nonceUsed.pool /\ nonceUsed'.pool = nonceUsed.pool
        /\ UNCHANGED <<submission, ledger>>
    BY <1>1, <1>8 DEF BlockMade
  <2>2. nonceUsed.pool \in Nat /\ \A s \in SubmissionIds : submission[s].nonce \in 0..(nonceUsed.pool + 1)
    BY <1>1 DEF PoolInv
  <2> QED BY <1>1, <2>1, <2>2 DEF PoolInv, Senders
<1>9. ASSUME NEW s \in SubmissionIds,
             Created(s) \/ CreationFails(s) \/ TransferSucceeds(s) \/ TransferFails(s)
      PROVE  PoolInv'
  BY <1>3, <1>9 DEF Created, CreationFails, TransferSucceeds, TransferFails
<1>10. CASE \/ UNCHANGED escrowVars
            \/ \E a \in AmountsTo(MaxAmount) : TypeOfferAmount(a) \/ SliderChanged(a) \/ TypeOrderAmount(a)
            \/ \E low, high \in AmountsTo(MaxAmount) : TypeLimits(low, high)
            \/ PreSubmit \/ CloseModal \/ ReopenModal \/ HandleConfirm \/ CancelConfirm \/ OfferShrinks
  <2>1. UNCHANGED <<submission, ledger, nonceUsed>>
    BY <1>10 DEF escrowVars, TypeOfferAmount, SliderChanged, TypeOrderAmount, TypeLimits, PreSubmit, CloseModal,
                 ReopenModal, HandleConfirm, CancelConfirm, OfferShrinks
  <2> QED BY <1>2, <2>1
<1> QED BY <1>4, <1>6, <1>7, <1>8, <1>9, <1>10 DEF EscrowNext

(* The amounts of the forms, the rows and the nonces are of their types,    *)
(* whatever the amounts and however many submissions: no nonce is above the *)
(* number of submissions, and no row above the balance its seller was shown.*)
THEOREM EscrowTypeCorrect == EscrowSpec => []EscrowTypeOK
<1>1. EscrowInit => AmountsInv /\ PoolInv
  <2> SUFFICES ASSUME EscrowInit PROVE AmountsInv /\ PoolInv
    OBVIOUS
  <2>1. Senders = {} /\ Cardinality({}) = 0
    BY FS_EmptySet DEF EscrowInit, Senders
  <2> QED BY <2>1, EscrowConstants
          DEF EscrowInit, AmountsInv, PoolInv, NoEntry, NoSubmission, AmountsTo, EscrowConstants
<1>2. EscrowInv /\ AmountsInv /\ PoolInv /\ [EscrowNext]_escrowVars => (AmountsInv /\ PoolInv)'
  <2> SUFFICES ASSUME EscrowInv, AmountsInv, PoolInv, [EscrowNext]_escrowVars PROVE (AmountsInv /\ PoolInv)'
    OBVIOUS
  <2>1. ASSUME UNCHANGED escrowVars \/ BlockMade PROVE AmountsInv'
    BY <2>1 DEF escrowVars, BlockMade, AmountsInv
  <2>2. ASSUME EscrowNext, ~ BlockMade PROVE AmountsInv'
    BY <2>2, EscrowConstants, TypedAmounts, MovedAmounts DEF EscrowNext
  <2> QED BY <2>1, <2>2, EscrowConstants, PoolStep
<1>3. EscrowInv /\ AmountsInv /\ PoolInv => EscrowTypeOK
  <2> SUFFICES ASSUME EscrowInv, AmountsInv, PoolInv PROVE EscrowTypeOK
    OBVIOUS
  <2>1. deal.balance \in Int /\ MaxAmount \in Nat
    BY EscrowTypes, EscrowConstants DEF Deals, EscrowConstants
  <2>2. ASSUME NEW r \in rows PROVE r.amount \in 1..(IF deal.sells THEN deal.balance ELSE MaxAmount)
    <3>1. r.amount \in 0..MaxAmount /\ r.amount > 0 /\ (deal.sells => r.amount <= deal.balance)
      BY DEF AmountsInv, AmountsTo, EscrowInv, RowsInv, Promised
    <3> QED BY <2>1, <3>1
  <2>3. entry.open \in BOOLEAN /\ entry.confirm \in BOOLEAN
    BY EscrowTypes DEF Entries
  <2>4. \A s \in SubmissionIds : submission[s].nonce \in 0..MaxSubmissions
    <3> SUFFICES ASSUME NEW s \in SubmissionIds PROVE submission[s].nonce \in 0..MaxSubmissions
      OBVIOUS
    <3>1. submission[s].nonce \in 0..(nonceUsed.block + 1) /\ submission[s].nonce <= MaxSubmissions
      BY DEF PoolInv
    <3> QED BY <3>1
  <2>5. told \subseteq SubmissionIds
    BY DEF EscrowInv, RowsInv
  <2> QED BY <2>2, <2>3, <2>4, <2>5 DEF EscrowTypeOK, AmountsInv
<1> QED BY <1>1, <1>2, <1>3, EscrowAlways, PTL DEF EscrowSpec

-----------------------------------------------------------------------------
(* The inductive invariant of the chat's connection.                         *)

WrittenMessages == [id : Nat, from : {"me", "peer"}, day : Nat]
ChatRecords == [mounted : BOOLEAN, client : BOOLEAN, seller : BOOLEAN, connected : BOOLEAN,
                socket : 0..ChatRuns, channel : 0..ChatRuns, sheet : BOOLEAN, unread : Nat,
                thread : Seq(WrittenMessages)]
InitRecords == [st : Waits \cup {"none", "online", "failed"}, seller : BOOLEAN, live : BOOLEAN, late : BOOLEAN]

(* The runs are started one after the other; the page is about one of them   *)
(* at most, and one that was cleared while it connected has been overtaken.  *)
RunsInv ==
    /\ inits \in [RunIds -> InitRecords]
    /\ \E n \in 0..ChatRuns : \A r \in RunIds : inits[r].st # "none" <=> r <= n
    /\ \A r \in RunIds : inits[r].live => chat.mounted /\ inits[r].st # "none"
    /\ \A r \in RunIds : inits[r].late => inits[r].st # "none"
    /\ \A r, q \in RunIds : inits[r].live /\ inits[q].live => r = q
    /\ \A r \in RunIds : inits[r].st \in {"socket", "channel"} => inits[r].live \/ inits[r].late

LinesInv ==
    /\ chat \in ChatRecords /\ lines \in [open : SUBSET RunIds, listen : SUBSET RunIds]
    /\ \A r \in lines.listen : inits[r].st = "online"
    /\ lines.open # {} => chat.socket # 0
    /\ chat.connected => chat.channel # 0 /\ chat.socket # 0
    /\ chat.channel # 0 => inits[chat.channel].seller /\ inits[chat.channel].st # "none"

FollowInv ==
    ~Overtaken =>
        /\ lines.open \cup lines.listen \subseteq Current
        /\ \A r \in lines.open : chat.socket = r
        /\ \A r \in Current : inits[r].st = "online" =>
              chat.socket = r /\ chat.channel = r /\ r \in lines.open \cap lines.listen

(* A run is given each message once, and the messages are told apart.        *)
DueInv ==
    /\ written \in Seq(WrittenMessages) /\ Len(written) <= ChatMessages
    /\ \A i \in 1..Len(written) : written[i].id = i
    /\ due \subseteq RunIds \X ToSet(written) /\ IsFiniteSet(due)
    /\ since \subseteq ToSet(written) /\ IsFiniteSet(since)
    /\ \A d \in due : inits[d[1]].st = "online"
    /\ chat.unread + Cardinality(due) <= Len(written) * ChatRuns
    /\ ~Overtaken => /\ chat.unread = IF chat.sheet THEN 0 ELSE Cardinality(since)
                     /\ \A d \in due : d[1] \in lines.listen => d[2] \notin since

ThreadInv == ToSet(chat.thread) \subseteq ToSet(written) /\ IsInjective(chat.thread)

ChatInv == RunsInv /\ LinesInv /\ FollowInv /\ DueInv /\ ThreadInv

-----------------------------------------------------------------------------
(* Steps that move nothing but the runs, the lines and the chat's flags.     *)

LEMMA ChatBounds ==
    ChatRuns \in Nat /\ ChatRuns >= 1 /\ ChatDays \in Nat /\ ChatDays >= 1 /\ ChatMessages \in Nat
BY ChatConstants

LEMMA RunsAre ==
    ASSUME ChatInv
    PROVE  /\ inits \in [RunIds -> InitRecords] /\ chat \in ChatRecords
           /\ lines \in [open : SUBSET RunIds, listen : SUBSET RunIds]
           /\ lines.open \subseteq RunIds /\ lines.listen \subseteq RunIds
           /\ written \in Seq(WrittenMessages) /\ IsFiniteSet(due) /\ IsFiniteSet(since)
           /\ due \subseteq RunIds \X ToSet(written)
BY DEF ChatInv, RunsInv, LinesInv, DueInv

LEMMA ClearedIs ==
    ASSUME inits \in [RunIds -> InitRecords]
    PROVE  /\ Cleared \in [RunIds -> InitRecords]
           /\ \A r \in RunIds : /\ ~Cleared[r].live /\ Cleared[r].st = inits[r].st
                                /\ Cleared[r].seller = inits[r].seller
                                /\ Cleared[r].late <=>
                                      (inits[r].late \/ (inits[r].live /\ inits[r].st \in {"socket", "channel"}))
<1> SUFFICES ASSUME NEW r \in RunIds
             PROVE  /\ Cleared[r] \in InitRecords
                    /\ ~Cleared[r].live /\ Cleared[r].st = inits[r].st
                    /\ Cleared[r].seller = inits[r].seller
                    /\ Cleared[r].late <=>
                          (inits[r].late \/ (inits[r].live /\ inits[r].st \in {"socket", "channel"}))
  BY DEF Cleared
<1> DEFINE l == inits[r].late \/ (inits[r].live /\ inits[r].st \in Waits \ {"session"})
<1>1. inits[r] \in InitRecords
  OBVIOUS
<1>2. Cleared[r] = [inits[r] EXCEPT !.live = FALSE, !.late = l]
  BY <1>1 DEF Cleared, InitRecords
<1>3. l \in BOOLEAN
  BY <1>1 DEF InitRecords
<1>4. l <=> (inits[r].late \/ (inits[r].live /\ inits[r].st \in {"socket", "channel"}))
  BY DEF Waits
<1> HIDE DEF l
<1>5. /\ Cleared[r] \in InitRecords /\ Cleared[r].live = FALSE /\ Cleared[r].st = inits[r].st
      /\ Cleared[r].seller = inits[r].seller /\ Cleared[r].late = l
  BY <1>1, <1>2, <1>3 DEF InitRecords
<1> QED BY <1>4, <1>5

(* The chat keeps what a cleanup or a step of a run does not touch.          *)
LEMMA CleanupKeeps ==
    ASSUME ChatInv, lines' = Disconnected, UNCHANGED <<written, due, since>>,
           chat' \in ChatRecords, chat'.connected = chat.connected, chat'.socket = chat.socket,
           chat'.channel = chat.channel, chat'.sheet = chat.sheet, chat'.unread = chat.unread,
           chat'.thread = chat.thread,
           NEW N \in SUBSET RunIds, inits' \in [RunIds -> InitRecords],
           \A r \in RunIds \ N : inits'[r] = Cleared[r],
           \A r \in N : /\ inits[r].st = "none" /\ inits'[r].st = "session" /\ inits'[r].live /\ ~inits'[r].late
                        /\ chat'.mounted,
           \A r, q \in N : r = q,
           \E n \in 0..ChatRuns : \A r \in RunIds : inits'[r].st # "none" <=> r <= n
    PROVE  ChatInv'
<1>0. /\ inits \in [RunIds -> InitRecords] /\ chat \in ChatRecords
      /\ lines.open \subseteq RunIds /\ lines.listen \subseteq RunIds
      /\ \A r \in RunIds : /\ ~Cleared[r].live /\ Cleared[r].st = inits[r].st
                           /\ Cleared[r].seller = inits[r].seller
                           /\ Cleared[r].late <=>
                                 (inits[r].late \/ (inits[r].live /\ inits[r].st \in {"socket", "channel"}))
  BY RunsAre, ClearedIs
<1>1. RunsInv'
  <2>1. \A r \in RunIds : inits'[r].live => chat'.mounted /\ inits'[r].st # "none"
    BY <1>0
  <2>2. \A r \in RunIds : inits'[r].late => inits'[r].st # "none"
    BY <1>0 DEF ChatInv, RunsInv
  <2>3. \A r, q \in RunIds : inits'[r].live /\ inits'[q].live => r = q
    BY <1>0
  <2>4. \A r \in RunIds : inits'[r].st \in {"socket", "channel"} => inits'[r].live \/ inits'[r].late
    BY <1>0 DEF ChatInv, RunsInv
  <2> QED BY <2>1, <2>2, <2>3, <2>4 DEF RunsInv
<1>2. Overtaken => Overtaken'
  BY <1>0 DEF Overtaken, ChatInv, RunsInv
<1>3. /\ lines'.open = lines.open \ {chat.socket} /\ lines'.listen \subseteq lines.listen
      /\ lines'.listen = lines.listen \ {r \in RunIds : inits[r].live}
      /\ lines' \in [open : SUBSET RunIds, listen : SUBSET RunIds]
  BY <1>0 DEF Disconnected
<1>4. LinesInv'
  <2>1. \A r \in RunIds : inits[r].st = "online" => inits'[r].st = "online"
    BY <1>0
  <2>2. \A r \in lines'.listen : inits'[r].st = "online"
    BY <1>0, <1>3, <2>1 DEF ChatInv, LinesInv
  <2>3. lines'.open # {} => chat'.socket # 0
    BY <1>3 DEF ChatInv, LinesInv
  <2>4. chat.channel # 0 => chat.channel \in RunIds
    BY <1>0, ChatBounds DEF ChatRecords, RunIds
  <2>5. chat.channel # 0 => inits'[chat.channel].seller /\ inits'[chat.channel].st # "none"
    BY <1>0, <2>4 DEF ChatInv, LinesInv
  <2> QED BY <1>3, <2>2, <2>3, <2>5 DEF ChatInv, LinesInv
<1>5. FollowInv'
  <2> SUFFICES ASSUME ~Overtaken' PROVE FollowInv'
    BY DEF FollowInv
  <2>1. /\ lines.open \cup lines.listen \subseteq Current /\ \A r \in lines.open : chat.socket = r
    BY <1>2 DEF ChatInv, FollowInv
  <2>2. lines'.open = {} /\ lines'.listen = {}
    BY <1>3, <2>1 DEF Current
  <2>3. \A r \in Current' : inits'[r].st # "online"
    BY <1>0 DEF Current
  <2> QED BY <2>2, <2>3 DEF FollowInv
<1>6. DueInv'
  <2>1. \A d \in due : d[1] \in RunIds
    BY RunsAre
  <2>2. \A d \in due : inits'[d[1]].st = "online"
    BY <1>0, <2>1 DEF ChatInv, DueInv
  <2>3. ~Overtaken' => \A d \in due : d[1] \in lines'.listen => d[2] \notin since
    BY <1>2, <1>3 DEF ChatInv, DueInv
  <2> QED BY <1>2, <2>2, <2>3 DEF ChatInv, DueInv
<1>7. ThreadInv'
  BY DEF ChatInv, ThreadInv
<1> QED BY <1>1, <1>4, <1>5, <1>6, <1>7 DEF ChatInv

LEMMA InitChatStep ==
    ASSUME ChatInv, NEW client \in BOOLEAN, NEW seller \in BOOLEAN, chat.mounted, InitChat(client, seller)
    PROVE  ChatInv'
<1>0. /\ inits \in [RunIds -> InitRecords] /\ chat \in ChatRecords
      /\ Cleared \in [RunIds -> InitRecords]
      /\ \A r \in RunIds : ~Cleared[r].live /\ Cleared[r].st = inits[r].st
  BY RunsAre, ClearedIs
<1>1. /\ lines' = Disconnected /\ chat' = [chat EXCEPT !.client = client, !.seller = seller]
      /\ UNCHANGED <<written, due, since>>
  BY DEF InitChat
<1>2. /\ chat' \in ChatRecords /\ chat'.connected = chat.connected /\ chat'.socket = chat.socket
      /\ chat'.channel = chat.channel /\ chat'.sheet = chat.sheet /\ chat'.unread = chat.unread
      /\ chat'.thread = chat.thread /\ chat'.mounted = chat.mounted
  BY <1>0, <1>1 DEF ChatRecords
<1>3. PICK n \in 0..ChatRuns : \A r \in RunIds : inits[r].st # "none" <=> r <= n
  BY DEF ChatInv, RunsInv
<1>4. CASE ~client
  <2>1. inits' = Cleared
    BY <1>4 DEF InitChat
  <2>2. \A r \in RunIds \ {} : inits'[r] = Cleared[r]
    BY <2>1
  <2>3. inits' \in [RunIds -> InitRecords] /\ \A r \in RunIds : inits'[r].st # "none" <=> r <= n
    BY <1>0, <1>3, <2>1
  <2> DEFINE N == {}
  <2>4. N \in SUBSET RunIds /\ (\A r \in RunIds \ N : inits'[r] = Cleared[r]) /\ (\A r, q \in N : r = q)
    BY <2>2
  <2>5. \A r \in N : /\ inits[r].st = "none" /\ inits'[r].st = "session" /\ inits'[r].live /\ ~inits'[r].late
                     /\ chat'.mounted
    OBVIOUS
  <2> HIDE DEF N
  <2> QED BY <1>1, <1>2, <2>3, <2>4, <2>5, CleanupKeeps
<1>5. CASE client
  <2> DEFINE new == [st |-> "session", seller |-> seller, live |-> TRUE, late |-> FALSE]
             N == {n + 1}
  <2>1. Started = 1..n
    BY <1>3, ChatBounds DEF Started, RunIds
  <2>2. Cardinality(Started) = n
    BY <2>1, FS_Interval
  <2>3. n < ChatRuns /\ inits' = [Cleared EXCEPT ![n + 1] = new]
    BY <1>5, <2>2 DEF InitChat
  <2>4. n + 1 \in RunIds /\ new \in InitRecords /\ new.st = "session" /\ new.live /\ ~new.late
    BY <1>3, <2>3, ChatBounds DEF RunIds, InitRecords, Waits
  <2> HIDE DEF new
  <2>5. inits' \in [RunIds -> InitRecords] /\ inits'[n + 1] = new /\ \A r \in RunIds \ N : inits'[r] = Cleared[r]
    BY <1>0, <2>3, <2>4
  <2>6. inits[n + 1].st = "none"
    BY <1>3, <2>4
  <2>7. \A r \in RunIds : inits'[r].st # "none" <=> r <= n + 1
    <3> TAKE r \in RunIds
    <3>1. CASE r = n + 1
      BY <2>4, <2>5, <3>1
    <3>2. CASE r # n + 1
      <4>1. inits'[r].st = inits[r].st
        BY <1>0, <2>5, <3>2
      <4>2. r <= n <=> r <= n + 1
        BY <3>2, ChatBounds DEF RunIds
      <4> QED BY <1>3, <4>1, <4>2
    <3> QED BY <3>1, <3>2
  <2>8. n + 1 \in 0..ChatRuns
    BY <2>3, ChatBounds
  <2>9. N \in SUBSET RunIds /\ (\A r, q \in N : r = q)
    BY <2>4
  <2>10. \A r \in N : /\ inits[r].st = "none" /\ inits'[r].st = "session" /\ inits'[r].live /\ ~inits'[r].late
                      /\ chat'.mounted
    BY <1>2, <2>4, <2>5, <2>6
  <2>11. \E k \in 0..ChatRuns : \A r \in RunIds : inits'[r].st # "none" <=> r <= k
    BY <2>7, <2>8
  <2> HIDE DEF N
  <2> QED BY <1>1, <1>2, <2>5, <2>9, <2>10, <2>11, CleanupKeeps
<1> QED BY <1>4, <1>5

LEMMA CleanupSteps ==
    ASSUME ChatInv, LightClientChanges \/ SellerKnown \/ Unmount
    PROVE  ChatInv'
<1>0. /\ inits \in [RunIds -> InitRecords] /\ chat \in ChatRecords /\ Cleared \in [RunIds -> InitRecords]
      /\ chat.client \in BOOLEAN /\ chat.seller \in BOOLEAN
      /\ \A r \in RunIds : Cleared[r].st = inits[r].st
  BY RunsAre, ClearedIs DEF ChatRecords
<1>1. CASE LightClientChanges
  <2> DEFINE c == ~chat.client
  <2>1. c \in BOOLEAN /\ chat.mounted /\ InitChat(c, chat.seller)
    BY <1>1 DEF LightClientChanges
  <2> HIDE DEF c
  <2> QED BY <1>0, <2>1, InitChatStep
<1>2. CASE SellerKnown
  BY <1>0, <1>2, InitChatStep DEF SellerKnown
<1>3. CASE Unmount
  <2> DEFINE N == {}
  <2>1. /\ inits' = Cleared /\ lines' = Disconnected /\ chat' = [chat EXCEPT !.mounted = FALSE]
        /\ UNCHANGED <<written, due, since>>
    BY <1>3 DEF Unmount
  <2>2. /\ chat' \in ChatRecords /\ chat'.connected = chat.connected /\ chat'.socket = chat.socket
        /\ chat'.channel = chat.channel /\ chat'.sheet = chat.sheet /\ chat'.unread = chat.unread
        /\ chat'.thread = chat.thread
    BY <1>0, <2>1 DEF ChatRecords
  <2>3. /\ inits' \in [RunIds -> InitRecords] /\ N \in SUBSET RunIds
        /\ (\A r \in RunIds \ N : inits'[r] = Cleared[r]) /\ (\A r, q \in N : r = q)
    BY <1>0, <2>1
  <2>4. \A r \in N : /\ inits[r].st = "none" /\ inits'[r].st = "session" /\ inits'[r].live /\ ~inits'[r].late
                     /\ chat'.mounted
    OBVIOUS
  <2>5. \E n \in 0..ChatRuns : \A r \in RunIds : inits'[r].st # "none" <=> r <= n
    BY <1>0, <2>1 DEF ChatInv, RunsInv
  <2> HIDE DEF N
  <2> QED BY <2>5, <2>1, <2>2, <2>3, <2>4, CleanupKeeps
<1> QED BY <1>1, <1>2, <1>3

-----------------------------------------------------------------------------
(* Steps of one run.                                                         *)
LEMMA RunMoves ==
    ASSUME ChatInv, NEW r \in RunIds, NEW st \in {"socket", "channel", "online", "failed"},
           inits[r].st \in Waits, inits' = [inits EXCEPT ![r].st = st],
           st \in {"socket", "channel"} => inits[r].live \/ inits[r].late,
           chat'.mounted = chat.mounted, chat'.sheet = chat.sheet, chat'.unread = chat.unread,
           chat'.thread = chat.thread, lines'.listen \subseteq lines.listen \cup {r},
           UNCHANGED <<written, due, since>>
    PROVE  /\ RunsInv' /\ DueInv' /\ ThreadInv'
           /\ Overtaken' <=> Overtaken
           /\ Current' = Current
           /\ inits'[r].st = st
           /\ \A q \in RunIds : /\ inits'[q].seller = inits[q].seller /\ (inits'[q].live <=> inits[q].live)
                                /\ inits[q].st # "none" => inits'[q].st # "none"
                                /\ q # r => inits'[q] = inits[q]
<1>0. /\ inits \in [RunIds -> InitRecords] /\ chat \in ChatRecords /\ inits[r] \in InitRecords
  BY RunsAre
<1>1. inits' = [inits EXCEPT ![r] = [inits[r] EXCEPT !.st = st]]
  BY <1>0
<1>2. [inits[r] EXCEPT !.st = st] \in InitRecords
  BY <1>0 DEF InitRecords, Waits
<1>3. /\ inits' \in [RunIds -> InitRecords] /\ inits'[r].st = st
      /\ inits'[r].seller = inits[r].seller /\ inits'[r].live = inits[r].live /\ inits'[r].late = inits[r].late
      /\ \A q \in RunIds \ {r} : inits'[q] = inits[q]
  BY <1>0, <1>1, <1>2 DEF InitRecords
<1>4. \A q \in RunIds : /\ inits'[q].seller = inits[q].seller /\ inits'[q].live = inits[q].live
                        /\ inits'[q].late = inits[q].late
                        /\ inits'[q].st # "none" <=> inits[q].st # "none"
                        /\ q # r => inits'[q] = inits[q]
  BY <1>3 DEF Waits
<1>5. RunsInv'
  <2>1. \E n \in 0..ChatRuns : \A q \in RunIds : inits'[q].st # "none" <=> q <= n
    BY <1>4 DEF ChatInv, RunsInv
  <2>2. \A q \in RunIds : inits'[q].live => chat'.mounted /\ inits'[q].st # "none"
    BY <1>4 DEF ChatInv, RunsInv
  <2>3. \A q \in RunIds : inits'[q].late => inits'[q].st # "none"
    BY <1>4 DEF ChatInv, RunsInv
  <2>4. \A q, u \in RunIds : inits'[q].live /\ inits'[u].live => q = u
    BY <1>4 DEF ChatInv, RunsInv
  <2>5. \A q \in RunIds : inits'[q].st \in {"socket", "channel"} => inits'[q].live \/ inits'[q].late
    BY <1>3, <1>4 DEF ChatInv, RunsInv
  <2> QED BY <1>3, <2>1, <2>2, <2>3, <2>4, <2>5 DEF RunsInv
<1>6. Overtaken' <=> Overtaken
  BY <1>4 DEF Overtaken
<1>7. Current' = Current
  BY <1>4 DEF Current
<1>8. \A d \in due : d[1] \in RunIds /\ inits[d[1]].st = "online" /\ d[1] # r
  BY RunsAre DEF ChatInv, DueInv, Waits
<1>9. DueInv'
  <2>1. \A d \in due : inits'[d[1]].st = "online"
    BY <1>4, <1>8
  <2>2. ~Overtaken' => \A d \in due : d[1] \in lines'.listen => d[2] \notin since
    BY <1>6, <1>8 DEF ChatInv, DueInv
  <2> QED BY <1>6, <2>1, <2>2 DEF ChatInv, DueInv
<1>10. ThreadInv'
  BY DEF ChatInv, ThreadInv
<1> QED BY <1>3, <1>4, <1>5, <1>6, <1>7, <1>9, <1>10

LEMMA RunSteps ==
    ASSUME ChatInv, NEW r \in RunIds,
           SessionReady(r) \/ InitFails(r) \/ SocketConnected(r) \/ ChannelJoined(r)
    PROVE  ChatInv'
<1>0. /\ inits \in [RunIds -> InitRecords] /\ chat \in ChatRecords /\ inits[r] \in InitRecords
      /\ lines \in [open : SUBSET RunIds, listen : SUBSET RunIds]
      /\ lines.open \subseteq RunIds /\ lines.listen \subseteq RunIds /\ RunIds \subseteq 0..ChatRuns /\ 0 \notin RunIds
  BY RunsAre, ChatBounds DEF RunIds
<1>1. ASSUME NEW st \in {"socket", "failed"}, inits[r].st \in Waits, inits' = [inits EXCEPT ![r].st = st],
             st = "socket" => inits[r].live, UNCHANGED <<chat, lines, written, due, since>>
      PROVE  ChatInv'
  <2>1. /\ RunsInv' /\ DueInv' /\ ThreadInv' /\ (Overtaken' <=> Overtaken) /\ Current' = Current
        /\ inits'[r].st = st
        /\ \A q \in RunIds : /\ inits'[q].seller = inits[q].seller /\ (inits'[q].live <=> inits[q].live)
                             /\ inits[q].st # "none" => inits'[q].st # "none"
                             /\ q # r => inits'[q] = inits[q]
    <3>1. st \in {"socket", "channel", "online", "failed"} /\ lines'.listen \subseteq lines.listen \cup {r}
          /\ (st \in {"socket", "channel"} => inits[r].live \/ inits[r].late)
          /\ chat'.mounted = chat.mounted /\ chat'.sheet = chat.sheet /\ chat'.unread = chat.unread
          /\ chat'.thread = chat.thread
      BY <1>1
    <3> QED BY <1>1, <3>1, RunMoves
  <2>2. LinesInv'
    <3>1. \A q \in lines.listen : inits'[q].st = "online"
      BY <1>0, <1>1, <2>1 DEF ChatInv, LinesInv, Waits
    <3>2. chat.channel # 0 => chat.channel \in RunIds
      BY <1>0, ChatBounds DEF ChatRecords, RunIds
    <3>3. chat.channel # 0 => inits'[chat.channel].seller /\ inits'[chat.channel].st # "none"
      BY <2>1, <3>2 DEF ChatInv, LinesInv
    <3> QED BY <1>1, <3>1, <3>3 DEF ChatInv, LinesInv
  <2>3. FollowInv'
    <3> SUFFICES ASSUME ~Overtaken' PROVE FollowInv'
      BY DEF FollowInv
    <3>1. \A q \in Current : inits'[q].st = "online" => inits[q].st = "online"
      BY <1>1, <2>1 DEF Current
    <3> QED BY <1>1, <2>1, <3>1 DEF ChatInv, FollowInv
  <2> QED BY <2>1, <2>2, <2>3 DEF ChatInv
<1>2. CASE SessionReady(r)
  <2> DEFINE st == IF inits[r].live THEN "socket" ELSE "failed"
  <2>1. /\ st \in {"socket", "failed"} /\ inits[r].st \in Waits /\ inits' = [inits EXCEPT ![r].st = st]
        /\ (st = "socket" => inits[r].live) /\ UNCHANGED <<chat, lines, written, due, since>>
    BY <1>2 DEF SessionReady, Waits
  <2> HIDE DEF st
  <2> QED BY <1>1, <2>1
<1>3. CASE InitFails(r)
  BY <1>1, <1>3 DEF InitFails
<1>4. CASE SocketConnected(r)
  <2>1. /\ inits[r].st = "socket" /\ inits' = [inits EXCEPT ![r].st = "channel"]
        /\ lines' = [lines EXCEPT !.open = lines.open \cup {r}] /\ chat' = [chat EXCEPT !.socket = r]
        /\ UNCHANGED <<written, due, since>>
    BY <1>0, <1>4 DEF SocketConnected
  <2>2. /\ lines' \in [open : SUBSET RunIds, listen : SUBSET RunIds]
        /\ lines'.open = lines.open \cup {r} /\ lines'.listen = lines.listen
    BY <1>0, <2>1
  <2>3. /\ chat' \in ChatRecords /\ chat'.connected = chat.connected /\ chat'.socket = r
        /\ chat'.channel = chat.channel /\ chat'.sheet = chat.sheet /\ chat'.unread = chat.unread
        /\ chat'.thread = chat.thread /\ chat'.mounted = chat.mounted
    BY <1>0, <2>1 DEF ChatRecords
  <2>4. inits[r].live \/ inits[r].late
    BY <2>1 DEF ChatInv, RunsInv
  <2>5. /\ RunsInv' /\ DueInv' /\ ThreadInv' /\ (Overtaken' <=> Overtaken) /\ Current' = Current
        /\ inits'[r].st = "channel"
        /\ \A q \in RunIds : /\ inits'[q].seller = inits[q].seller /\ (inits'[q].live <=> inits[q].live)
                             /\ inits[q].st # "none" => inits'[q].st # "none"
                             /\ q # r => inits'[q] = inits[q]
    <3>1. lines'.listen \subseteq lines.listen \cup {r} /\ inits[r].st \in Waits
      BY <2>1, <2>2 DEF Waits
    <3> QED BY <2>1, <2>3, <2>4, <3>1, RunMoves
  <2>6. LinesInv'
    <3>1. \A q \in lines.listen : inits'[q].st = "online"
      BY <1>0, <2>1, <2>5 DEF ChatInv, LinesInv
    <3>2. chat.channel # 0 => chat.channel \in RunIds
      BY <1>0, ChatBounds DEF ChatRecords, RunIds
    <3>3. chat.channel # 0 => inits'[chat.channel].seller /\ inits'[chat.channel].st # "none"
      BY <2>5, <3>2 DEF ChatInv, LinesInv
    <3> QED BY <1>0, <2>2, <2>3, <3>1, <3>3 DEF ChatInv, LinesInv
  <2>7. FollowInv'
    <3> SUFFICES ASSUME ~Overtaken' PROVE FollowInv'
      BY DEF FollowInv
    <3>1. ~Overtaken
      BY <2>5
    <3>2. inits[r].live /\ r \in Current
      BY <2>4, <3>1 DEF Overtaken, Current
    <3>3. Current = {r}
      BY <3>2 DEF Current, ChatInv, RunsInv
    <3>4. lines.open \subseteq {r} /\ lines.listen \subseteq {r}
      BY <3>1, <3>3 DEF ChatInv, FollowInv
    <3>5. \A q \in Current : inits'[q].st # "online"
      BY <2>5, <3>3
    <3> QED BY <2>2, <2>3, <2>5, <3>3, <3>4, <3>5 DEF FollowInv
  <2> QED BY <2>5, <2>6, <2>7 DEF ChatInv
<1>5. CASE ChannelJoined(r)
  <2> DEFINE c == chat.connected \/ inits[r].live
  <2>1. /\ inits[r].st = "channel" /\ inits[r].seller /\ r \in lines.open
        /\ inits' = [inits EXCEPT ![r].st = "online"]
        /\ lines' = [lines EXCEPT !.listen = lines.listen \cup {r}]
        /\ chat' = [chat EXCEPT !.channel = r, !.connected = c]
        /\ UNCHANGED <<written, due, since>>
    BY <1>0, <1>5 DEF ChannelJoined, ChatRecords
  <2>c. c \in BOOLEAN
    BY <1>0 DEF ChatRecords, InitRecords
  <2> HIDE DEF c
  <2>2. /\ lines' \in [open : SUBSET RunIds, listen : SUBSET RunIds]
        /\ lines'.open = lines.open /\ lines'.listen = lines.listen \cup {r}
    BY <1>0, <2>1
  <2>3. /\ chat' \in ChatRecords /\ chat'.socket = chat.socket
        /\ chat'.channel = r /\ chat'.sheet = chat.sheet /\ chat'.unread = chat.unread
        /\ chat'.thread = chat.thread /\ chat'.mounted = chat.mounted
    BY <1>0, <2>1, <2>c DEF ChatRecords
  <2>5. /\ RunsInv' /\ DueInv' /\ ThreadInv' /\ (Overtaken' <=> Overtaken) /\ Current' = Current
        /\ inits'[r].st = "online"
        /\ \A q \in RunIds : /\ inits'[q].seller = inits[q].seller /\ (inits'[q].live <=> inits[q].live)
                             /\ inits[q].st # "none" => inits'[q].st # "none"
                             /\ q # r => inits'[q] = inits[q]
    <3>1. lines'.listen \subseteq lines.listen \cup {r} /\ inits[r].st \in Waits
      BY <2>1, <2>2 DEF Waits
    <3> QED BY <2>1, <2>3, <3>1, RunMoves
  <2>6. LinesInv'
    <3>1. \A q \in lines'.listen : inits'[q].st = "online"
      BY <1>0, <2>2, <2>5 DEF ChatInv, LinesInv
    <3>2. chat.socket # 0 /\ r # 0
      BY <1>0, <2>1 DEF ChatInv, LinesInv
    <3>3. inits'[r].seller /\ inits'[r].st # "none"
      BY <2>1, <2>5
    <3> QED BY <2>2, <2>3, <3>1, <3>2, <3>3 DEF LinesInv
  <2>7. FollowInv'
    <3> SUFFICES ASSUME ~Overtaken' PROVE FollowInv'
      BY DEF FollowInv
    <3>1. /\ lines.open \cup lines.listen \subseteq Current /\ \A q \in lines.open : chat.socket = q
      BY <2>5 DEF ChatInv, FollowInv
    <3>2. Current = {r} /\ chat.socket = r
      BY <2>1, <3>1 DEF Current, ChatInv, RunsInv
    <3> QED BY <2>1, <2>2, <2>3, <2>5, <3>1, <3>2 DEF FollowInv
  <2> QED BY <2>5, <2>6, <2>7 DEF ChatInv
<1> QED BY <1>2, <1>3, <1>4, <1>5

-----------------------------------------------------------------------------
(* Messages.                                                                 *)

LEMMA WrittenGrow ==
    ASSUME NEW s \in Seq(WrittenMessages), NEW m \in WrittenMessages
    PROVE  /\ Append(s, m) \in Seq(WrittenMessages) /\ Len(Append(s, m)) = Len(s) + 1
           /\ ToSet(Append(s, m)) = ToSet(s) \cup {m}
           /\ \A i \in 1..Len(s) : Append(s, m)[i] = s[i]
           /\ Append(s, m)[Len(s) + 1] = m
<1>1. /\ Append(s, m) \in Seq(WrittenMessages) /\ Len(Append(s, m)) = Len(s) + 1
      /\ \A i \in 1..Len(s) : Append(s, m)[i] = s[i]
      /\ Append(s, m)[Len(s) + 1] = m
      /\ DOMAIN s = 1..Len(s) /\ DOMAIN Append(s, m) = 1..(Len(s) + 1) /\ Len(s) \in Nat
  BY AppendProperties
<1>2. 1..(Len(s) + 1) = 1..Len(s) \cup {Len(s) + 1}
  BY <1>1
<1>3. ToSet(Append(s, m)) = ToSet(s) \cup {m}
  BY <1>1, <1>2 DEF ToSet
<1> QED BY <1>1, <1>3

(* At most one delivery for each run.                                        *)
LEMMA DeliveriesOfOne ==
    ASSUME NEW L \in SUBSET RunIds, NEW m
    PROVE  /\ IsFiniteSet({<<r, m>> : r \in L}) /\ Cardinality({<<r, m>> : r \in L}) \in 0..ChatRuns
<1> DEFINE D == {<<r, m>> : r \in L}
           f == [d \in D |-> d[1]]
<1>1. IsFiniteSet(RunIds) /\ Cardinality(RunIds) = ChatRuns
  BY ChatBounds, FS_Interval DEF RunIds
<1>2. f \in [D -> RunIds]
  OBVIOUS
<1>3. \A d, e \in D : f[d] = f[e] => d = e
  OBVIOUS
<1> HIDE DEF D
<1>4. f \in Injection(D, RunIds)
  BY <1>2, <1>3 DEF Injection, IsInjective
<1>5. IsFiniteSet(D) /\ Cardinality(D) <= ChatRuns
  BY <1>1, <1>4, FS_Injection
<1>6. Cardinality(D) \in Nat
  BY <1>5, FS_CardinalityType
<1>7. IsFiniteSet(D) /\ Cardinality(D) \in 0..ChatRuns
  BY <1>5, <1>6, ChatBounds
<1> QED BY <1>7 DEF D

LEMMA WrittenStep ==
    ASSUME ChatInv, NEW from \in {"me", "peer"}, NEW day \in 1..ChatDays, MessageWritten(from, day)
    PROVE  ChatInv'
<1> DEFINE m == [id |-> Len(written) + 1, from |-> from, day |-> day]
           L == lines.listen \cap lines.open
           D == {<<r, m>> : r \in L}
<1>0. /\ inits \in [RunIds -> InitRecords] /\ chat \in ChatRecords /\ chat.unread \in Nat
      /\ written \in Seq(WrittenMessages) /\ IsFiniteSet(due) /\ Len(written) \in Nat
      /\ lines.listen \subseteq RunIds /\ L \in SUBSET RunIds /\ DOMAIN written = 1..Len(written)
      /\ due \subseteq RunIds \X ToSet(written)
  BY RunsAre DEF ChatRecords
<1>1. /\ Len(written) < ChatMessages /\ written' = Append(written, m) /\ due' = due \cup D
      /\ UNCHANGED <<chat, inits, lines, since>>
  BY DEF MessageWritten
<1>2. m \in WrittenMessages /\ m.id = Len(written) + 1
  BY <1>0, ChatBounds DEF WrittenMessages
<1>3. m \notin ToSet(written)
  <2>1. \A i \in 1..Len(written) : written[i].id = i /\ i # Len(written) + 1
    BY <1>0 DEF ChatInv, DueInv
  <2>2. \A i \in 1..Len(written) : written[i] # m
    BY <1>2, <2>1
  <2> QED BY <1>0, <2>2 DEF ToSet
<1>4. IsFiniteSet(D) /\ Cardinality(D) \in 0..ChatRuns
  BY <1>0, DeliveriesOfOne
<1>5. \A d \in D : d[1] \in lines.listen /\ d[2] = m /\ d \in RunIds \X {m}
  BY <1>0
<1> HIDE DEF m, L, D
<1>6. /\ written' \in Seq(WrittenMessages) /\ Len(written') = Len(written) + 1
      /\ ToSet(written') = ToSet(written) \cup {m}
      /\ \A i \in 1..Len(written) : written'[i] = written[i]
      /\ written'[Len(written) + 1] = m
  BY <1>0, <1>1, <1>2, WrittenGrow
<1>7. DueInv'
  <2>1. Len(written') <= ChatMessages
    BY <1>0, <1>1, <1>6, ChatBounds
  <2>2. \A i \in 1..Len(written') : written'[i].id = i
    <3> TAKE i \in 1..Len(written')
    <3>1. i \in 1..Len(written) \/ i = Len(written) + 1
      BY <1>0, <1>6
    <3> QED BY <1>2, <1>6, <3>1 DEF ChatInv, DueInv
  <2>3. due' \subseteq RunIds \X ToSet(written') /\ since \subseteq ToSet(written') /\ IsFiniteSet(since)
    BY <1>0, <1>1, <1>5, <1>6 DEF ChatInv, DueInv
  <2>4. IsFiniteSet(due') /\ Cardinality(due') <= Cardinality(due) + ChatRuns /\ Cardinality(due') \in Nat
    <3>1. IsFiniteSet(due') /\ Cardinality(due') = Cardinality(due) + Cardinality(D) - Cardinality(due \cap D)
      BY <1>0, <1>1, <1>4, FS_Union
    <3>2. IsFiniteSet(due \cap D)
      BY <1>4, FS_Subset
    <3>3. Cardinality(due) \in Nat /\ Cardinality(due \cap D) \in Nat /\ Cardinality(due') \in Nat
      BY <1>0, <3>1, <3>2, FS_CardinalityType
    <3> QED BY <1>4, <3>1, <3>3, ChatBounds
  <2>5. chat.unread + Cardinality(due') <= Len(written') * ChatRuns
    <3>1. chat.unread + Cardinality(due) <= Len(written) * ChatRuns
      BY DEF ChatInv, DueInv
    <3>2. Len(written') * ChatRuns = Len(written) * ChatRuns + ChatRuns /\ Len(written) * ChatRuns \in Nat
      BY <1>0, <1>6, ChatBounds
    <3>3. Cardinality(due) \in Nat
      BY <1>0, FS_CardinalityType
    <3> QED BY <1>0, <2>4, <3>1, <3>2, <3>3, ChatBounds
  <2>6. \A d \in due' : inits[d[1]].st = "online"
    BY <1>1, <1>5 DEF ChatInv, DueInv, LinesInv
  <2>7. \A d \in D : d[2] \notin since
    BY <1>3, <1>5 DEF ChatInv, DueInv
  <2>8. Overtaken' <=> Overtaken
    BY <1>1 DEF Overtaken
  <2>9. ~Overtaken => /\ chat.unread = IF chat.sheet THEN 0 ELSE Cardinality(since)
                      /\ \A d \in due' : d[1] \in lines.listen => d[2] \notin since
    BY <1>1, <2>7 DEF ChatInv, DueInv
  <2> QED BY <1>1, <1>6, <2>1, <2>2, <2>3, <2>4, <2>5, <2>6, <2>8, <2>9 DEF DueInv
<1>8. RunsInv' /\ LinesInv'
  BY <1>1 DEF ChatInv, RunsInv, LinesInv
<1>9. FollowInv'
  BY <1>1 DEF ChatInv, FollowInv, Overtaken, Current
<1>10. ThreadInv'
  BY <1>1, <1>6 DEF ChatInv, ThreadInv
<1> QED BY <1>7, <1>8, <1>9, <1>10 DEF ChatInv

LEMMA ShownIs ==
    ASSUME NEW s \in Seq(WrittenMessages), NEW m \in WrittenMessages, NEW M,
           IsInjective(s), ToSet(s) \subseteq M, m \in M
    PROVE  Shown(s, m) \in Seq(WrittenMessages) /\ IsInjective(Shown(s, m)) /\ ToSet(Shown(s, m)) \subseteq M
<1>1. CASE Contains(s, m)
  BY <1>1 DEF Shown
<1>2. CASE ~Contains(s, m)
  <2>1. Shown(s, m) = Append(s, m)
    BY <1>2 DEF Shown
  <2>2. /\ Append(s, m) \in Seq(WrittenMessages) /\ Len(Append(s, m)) = Len(s) + 1 /\ Len(s) \in Nat
        /\ ToSet(Append(s, m)) = ToSet(s) \cup {m}
        /\ \A i \in 1..Len(s) : Append(s, m)[i] = s[i]
        /\ Append(s, m)[Len(s) + 1] = m
        /\ DOMAIN s = 1..Len(s) /\ DOMAIN Append(s, m) = 1..(Len(s) + 1)
    BY WrittenGrow, AppendProperties
  <2>3. \A i \in 1..Len(s) : s[i] # m
    BY <1>2 DEF Contains
  <2>4. \A i, j \in 1..Len(s) : s[i] = s[j] => i = j
    BY <2>2 DEF IsInjective
  <2>5. \A i, j \in 1..(Len(s) + 1) : Append(s, m)[i] = Append(s, m)[j] => i = j
    <3> TAKE i, j \in 1..(Len(s) + 1)
    <3>1. (i \in 1..Len(s) \/ i = Len(s) + 1) /\ (j \in 1..Len(s) \/ j = Len(s) + 1)
      BY <2>2
    <3> QED BY <2>2, <2>3, <2>4, <3>1
  <2>6. IsInjective(Append(s, m))
    BY <2>2, <2>5 DEF IsInjective
  <2> QED BY <2>1, <2>2, <2>6
<1> QED BY <1>1, <1>2

LEMMA DeliveredStep ==
    ASSUME ChatInv, NEW d \in due, OnChannelMessage(d[1], d[2])
    PROVE  ChatInv'
<1> DEFINE r == d[1]
           m == d[2]
<1>0. /\ inits \in [RunIds -> InitRecords] /\ chat \in ChatRecords /\ chat.unread \in Nat
      /\ written \in Seq(WrittenMessages) /\ IsFiniteSet(due) /\ IsFiniteSet(since)
      /\ due \subseteq RunIds \X ToSet(written) /\ DOMAIN written = 1..Len(written)
      /\ chat.thread \in Seq(WrittenMessages) /\ chat.sheet \in BOOLEAN
  BY RunsAre DEF ChatRecords
<1>1. d = <<r, m>> /\ r \in RunIds /\ m \in ToSet(written)
  BY <1>0
<1>2. m \in WrittenMessages
  BY <1>0, <1>1, ElementOfSeq DEF ToSet
<1>3. due' = due \ {d} /\ UNCHANGED <<inits, lines, written>>
  BY <1>1 DEF OnChannelMessage
<1>4. r \in lines.listen =>
        /\ chat' = [chat EXCEPT !.thread = Shown(chat.thread, m),
                                !.unread = IF m.from = "peer" /\ ~chat.sheet THEN chat.unread + 1 ELSE chat.unread]
        /\ since' = IF m.from = "peer" /\ ~chat.sheet THEN since \cup {m} ELSE since
  BY <1>0 DEF OnChannelMessage, ChatRecords
<1>5. r \notin lines.listen => UNCHANGED <<chat, since>>
  BY DEF OnChannelMessage
<1>6. /\ IsFiniteSet(due') /\ Cardinality(due') = Cardinality(due) - 1 /\ Cardinality(due') \in Nat
      /\ Cardinality(due) \in Nat
  <2>1. IsFiniteSet(due') /\ Cardinality(due') = Cardinality(due) - 1
    BY <1>0, <1>3, FS_RemoveElement
  <2> QED BY <1>0, <2>1, FS_CardinalityType
<1> HIDE DEF r, m
<1>7. Overtaken' = Overtaken /\ Current' = Current
  BY <1>3 DEF Overtaken, Current
<1>8. RunsInv' /\ FollowInv' /\ LinesInv' /\ ThreadInv' /\ DueInv'
  <2>1. CASE r \notin lines.listen
    <3>1. UNCHANGED <<chat, since>>
      BY <1>5, <2>1
    <3>2. DueInv'
      <4>1. chat.unread + Cardinality(due') <= Len(written) * ChatRuns
        <5>1. chat.unread + Cardinality(due) <= Len(written) * ChatRuns /\ Len(written) * ChatRuns \in Nat
          BY <1>0, ChatBounds DEF ChatInv, DueInv
        <5> QED BY <1>0, <1>6, <5>1
      <4> QED BY <1>3, <1>6, <1>7, <3>1, <4>1 DEF ChatInv, DueInv
    <3>3. RunsInv' /\ LinesInv'
      BY <1>3, <3>1 DEF ChatInv, RunsInv, LinesInv
    <3>4. FollowInv'
      BY <1>3, <1>7, <3>1 DEF ChatInv, FollowInv
    <3>5. ThreadInv'
      BY <1>3, <3>1 DEF ChatInv, ThreadInv
    <3> QED BY <3>2, <3>3, <3>4, <3>5
  <2>2. CASE r \in lines.listen
    <3> DEFINE missed == m.from = "peer" /\ ~chat.sheet
               u == IF missed THEN chat.unread + 1 ELSE chat.unread
               t == Shown(chat.thread, m)
    <3>1. chat' = [chat EXCEPT !.thread = t, !.unread = u] /\ since' = IF missed THEN since \cup {m} ELSE since
      BY <1>4, <2>2
    <3>2. t \in Seq(WrittenMessages) /\ IsInjective(t) /\ ToSet(t) \subseteq ToSet(written)
      BY <1>0, <1>1, <1>2, ShownIs DEF ChatInv, ThreadInv
    <3>3. u \in Nat /\ u <= chat.unread + 1 /\ u = (IF missed THEN chat.unread + 1 ELSE chat.unread)
      BY <1>0
    <3>4. missed \in BOOLEAN /\ (missed => ~chat.sheet)
      OBVIOUS
    <3> HIDE DEF missed, u, t
    <3>5. /\ chat' \in ChatRecords /\ chat'.connected = chat.connected /\ chat'.socket = chat.socket
          /\ chat'.channel = chat.channel /\ chat'.sheet = chat.sheet /\ chat'.unread = u
          /\ chat'.thread = t /\ chat'.mounted = chat.mounted
      BY <1>0, <3>1, <3>2, <3>3 DEF ChatRecords
    <3>6. since' \subseteq ToSet(written) /\ IsFiniteSet(since')
      BY <1>0, <1>1, <3>1, FS_AddElement DEF ChatInv, DueInv
    <3>7. u + Cardinality(due') <= Len(written) * ChatRuns
      <4>1. chat.unread + Cardinality(due) <= Len(written) * ChatRuns /\ Len(written) * ChatRuns \in Nat
        BY <1>0, ChatBounds DEF ChatInv, DueInv
      <4> QED BY <1>0, <1>6, <3>3, <4>1
    <3>8. ASSUME ~Overtaken
          PROVE  /\ u = IF chat.sheet THEN 0 ELSE Cardinality(since')
                 /\ \A e \in due' : e[1] \in lines.listen => e[2] \notin since'
      <4>1. /\ chat.unread = IF chat.sheet THEN 0 ELSE Cardinality(since)
            /\ \A e \in due : e[1] \in lines.listen => e[2] \notin since
        BY <3>8 DEF ChatInv, DueInv
      <4>2. m \notin since
        BY <1>1, <2>2, <4>1 DEF r, m
      <4>3. missed => Cardinality(since') = Cardinality(since) + 1
        BY <1>0, <3>1, <4>2, FS_AddElement
      <4>4. \A q \in lines.listen : q = r
        BY <2>2, <3>8 DEF ChatInv, FollowInv, Current, RunsInv
      <4>5. \A e \in due' : e[1] \in lines.listen => e[2] # m /\ e \in due
        <5> SUFFICES ASSUME NEW e \in due', e[1] \in lines.listen, e[2] = m PROVE FALSE
          BY <1>3
        <5>1. e = <<e[1], e[2]>>
          BY <1>0, <1>3
        <5>2. e = d
          BY <1>1, <4>4, <5>1
        <5> QED BY <1>3, <5>2
      <4>6. u = IF chat.sheet THEN 0 ELSE Cardinality(since')
        <5>1. CASE missed
          BY <3>3, <3>4, <4>1, <4>3, <5>1
        <5>2. CASE ~missed
          BY <3>1, <3>3, <4>1, <5>2
        <5> QED BY <3>4, <5>1, <5>2
      <4> QED BY <3>1, <4>1, <4>5, <4>6
    <3>9. DueInv'
      <4>1. \A e \in due' : inits[e[1]].st = "online"
        BY <1>3 DEF ChatInv, DueInv
      <4>2. due' \subseteq RunIds \X ToSet(written)
        BY <1>0, <1>3
      <4>3. /\ written \in Seq(WrittenMessages) /\ Len(written) <= ChatMessages
            /\ \A i \in 1..Len(written) : written[i].id = i
        BY DEF ChatInv, DueInv
      <4> QED BY <1>3, <1>6, <1>7, <3>5, <3>6, <3>7, <3>8, <4>1, <4>2, <4>3 DEF DueInv
    <3>10. RunsInv' /\ LinesInv'
      BY <1>3, <3>5 DEF ChatInv, RunsInv, LinesInv
    <3>11. FollowInv'
      BY <1>3, <1>7, <3>5 DEF ChatInv, FollowInv
    <3>12. ThreadInv'
      BY <1>3, <3>2, <3>5 DEF ThreadInv
    <3> QED BY <3>9, <3>10, <3>11, <3>12
  <2> QED BY <2>1, <2>2
<1> QED BY <1>8 DEF ChatInv

LEMMA SheetStep ==
    ASSUME ChatInv, SheetToggled
    PROVE  ChatInv'
<1> DEFINE s == ~chat.sheet
           u == IF chat.sheet THEN chat.unread ELSE 0
<1>0. /\ chat \in ChatRecords /\ chat.unread \in Nat /\ chat.sheet \in BOOLEAN /\ IsFiniteSet(due)
      /\ written \in Seq(WrittenMessages) /\ Len(written) \in Nat
  BY RunsAre DEF ChatRecords
<1>1. /\ chat' = [chat EXCEPT !.sheet = s, !.unread = u]
      /\ since' = {} /\ UNCHANGED <<inits, lines, written, due>>
  BY <1>0 DEF SheetToggled, ChatRecords
<1>2. s \in BOOLEAN /\ u \in Nat /\ u <= chat.unread /\ (s <=> ~chat.sheet)
  BY <1>0
<1>3. ~Overtaken => u = 0
  BY DEF ChatInv, DueInv
<1> HIDE DEF s, u
<1>4. /\ chat' \in ChatRecords /\ chat'.connected = chat.connected /\ chat'.socket = chat.socket
      /\ chat'.channel = chat.channel /\ chat'.sheet = s /\ chat'.unread = u
      /\ chat'.thread = chat.thread /\ chat'.mounted = chat.mounted
  BY <1>0, <1>1, <1>2 DEF ChatRecords
<1>5. Overtaken' = Overtaken /\ Current' = Current
  BY <1>1 DEF Overtaken, Current
<1>6. RunsInv' /\ LinesInv'
  BY <1>1, <1>4 DEF ChatInv, RunsInv, LinesInv
<1>7. FollowInv'
  BY <1>1, <1>4, <1>5 DEF ChatInv, FollowInv
<1>8. ThreadInv'
  BY <1>1, <1>4 DEF ChatInv, ThreadInv
<1>9. DueInv'
  <2>1. u + Cardinality(due) <= Len(written) * ChatRuns
    <3>1. chat.unread + Cardinality(due) <= Len(written) * ChatRuns /\ Len(written) * ChatRuns \in Nat
      BY <1>0, ChatBounds DEF ChatInv, DueInv
    <3>2. Cardinality(due) \in Nat
      BY <1>0, FS_CardinalityType
    <3> QED BY <1>0, <1>2, <3>1, <3>2
  <2>2. ~Overtaken => u = IF s THEN 0 ELSE Cardinality({})
    BY <1>3, FS_EmptySet
  <2>3. since' \subseteq ToSet(written) /\ IsFiniteSet(since')
    BY <1>1, FS_EmptySet
  <2> QED BY <1>1, <1>4, <1>5, <2>1, <2>2, <2>3 DEF ChatInv, DueInv
<1> QED BY <1>6, <1>7, <1>8, <1>9 DEF ChatInv

-----------------------------------------------------------------------------
(* How the thread is laid out, whatever it holds.                            *)

LEMMA LeastOf ==
    ASSUME NEW S \in SUBSET Nat, S # {}
    PROVE  \E x \in S : \A y \in S : x <= y
<1> DEFINE R == OpToRel(<, Nat)
<1>1. PICK x \in S : \A y \in S : <<y, x>> \notin R
  <2> HIDE DEF R
  <2>1. IsWellFoundedOn(R, Nat)
    BY NatLessThanWellFounded DEF R
  <2> QED BY <2>1, WFMin, Zenon
<1>2. \A y \in S : ~ (y < x)
  BY <1>1 DEF OpToRel
<1> QED BY <1>2

LEMMA LatestOf ==
    ASSUME NEW i \in Nat, NEW S \in SUBSET (1..i), S # {}
    PROVE  Max(S) \in S /\ \A y \in S : y <= Max(S)
<1> DEFINE K == {k \in Nat : k <= i /\ i - k \in S}
<1>1. K # {}
  <2>1. PICK y \in S : TRUE
    OBVIOUS
  <2>2. i - y \in Nat /\ i - y <= i /\ i - (i - y) = y
    BY <2>1
  <2> QED BY <2>1, <2>2
<1>2. PICK k \in K : \A n \in K : k <= n
  <2>1. K \in SUBSET Nat
    OBVIOUS
  <2> HIDE DEF K
  <2> QED BY <1>1, <2>1, LeastOf
<1>3. i - k \in S /\ k \in Nat
  BY <1>2
<1>4. ASSUME NEW y \in S PROVE i - k >= y
  <2>1. y \in Nat /\ y <= i /\ i - y \in Nat /\ i - y <= i /\ i - (i - y) = y
    OBVIOUS
  <2>2. i - y \in K
    BY <2>1
  <2>3. k <= i - y
    BY <1>2, <2>2
  <2> QED BY <1>3, <2>1, <2>3
<1> HIDE DEF K
<1>5. \E x \in S : \A y \in S : x >= y
  BY <1>3, <1>4
<1>6. Max(S) \in S /\ \A y \in S : Max(S) >= y
  BY <1>5, Zenon DEF Max
<1> QED BY <1>6

LEMMA Grouped ==
    ASSUME chat.thread \in Seq(WrittenMessages)
    PROVE  GroupsAreOfOneSender
<1> DEFINE T == chat.thread
<1>0. Len(T) \in Nat /\ DOMAIN T = 1..Len(T)
  OBVIOUS
<1> SUFFICES ASSUME NEW i \in 1..Len(T)
             PROVE  LET h == Max({j \in 1..i : IsFirstInGroup(j)})
                    IN /\ T[h].from = T[i].from /\ T[h].day = T[i].day
                       /\ IsLastInGroup(i) = (i = Len(T) \/ IsFirstInGroup(i + 1))
  BY <1>0 DEF GroupsAreOfOneSender
<1> DEFINE S == {j \in 1..i : IsFirstInGroup(j)}
           h == Max(S)
<1>1. 1 \in S
  BY <1>0 DEF IsFirstInGroup, SenderChanges
<1>2. h \in S /\ \A y \in S : y <= h
  <2>1. S \in SUBSET (1..i) /\ S # {} /\ i \in Nat
    BY <1>0, <1>1
  <2> HIDE DEF S
  <2> QED BY <2>1, LatestOf
<1>3. h \in 1..i
  BY <1>2
<1>h. \A j \in 1..i : IsFirstInGroup(j) => j <= h
  BY <1>2
<1> HIDE DEF h, S
<1> DEFINE B == {j \in h..i : ~ (T[j].from = T[h].from /\ T[j].day = T[h].day)}
<1>4. B = {}
  <2> SUFFICES ASSUME B # {} PROVE FALSE
    OBVIOUS
  <2>1. PICK b \in B : \A y \in B : b <= y
    <3>1. B \in SUBSET Nat
      BY <1>0, <1>3
    <3> HIDE DEF B
    <3> QED BY <3>1, LeastOf
  <2>2. b # h /\ b \in h..i
    BY <2>1
  <2>3. b - 1 \in h..i /\ b \in 1..i /\ b # 1 /\ b > h
    BY <1>0, <1>3, <2>2
  <2>4. b - 1 \notin B
    BY <2>1, <2>3
  <2>5. T[b - 1].from = T[h].from /\ T[b - 1].day = T[h].day
    BY <2>3, <2>4
  <2>6. ~IsFirstInGroup(b)
    BY <1>0, <1>3, <1>h, <2>3
  <2>7. T[b].from = T[b - 1].from /\ T[b].day = T[b - 1].day
    BY <2>6 DEF IsFirstInGroup, SenderChanges, ShowDateDivider
  <2> QED BY <2>1, <2>5, <2>7
<1>5. i \in h..i
  BY <1>0, <1>3
<1>6. T[h].from = T[i].from /\ T[h].day = T[i].day
  BY <1>4, <1>5
<1>7. IsLastInGroup(i) = (i = Len(T) \/ IsFirstInGroup(i + 1))
  <2>1. i + 1 # 1 /\ (i + 1) - 1 = i
    BY <1>0
  <2>2. IsFirstInGroup(i + 1) <=> T[i + 1].from # T[i].from \/ T[i + 1].day # T[i].day
    BY <2>1 DEF IsFirstInGroup, SenderChanges, ShowDateDivider
  <2>3. IsLastInGroup(i) <=> i = Len(T) \/ T[i + 1].from # T[i].from \/ T[i + 1].day # T[i].day
    BY DEF IsLastInGroup
  <2>4. IsLastInGroup(i) \in BOOLEAN /\ (i = Len(T) \/ IsFirstInGroup(i + 1)) \in BOOLEAN
    BY DEF IsLastInGroup
  <2> QED BY <2>2, <2>3, <2>4
<1> QED BY <1>6, <1>7 DEF h, S

-----------------------------------------------------------------------------

LEMMA ChatStart ==
    ASSUME ChatInit
    PROVE  ChatInv
<1>1. /\ chat = NewChat /\ inits = [r \in RunIds |-> NoInit] /\ lines = [open |-> {}, listen |-> {}]
      /\ written = <<>> /\ due = {} /\ since = {}
  BY DEF ChatInit
<1>2. /\ chat \in ChatRecords /\ chat.channel = 0 /\ chat.connected = FALSE /\ chat.sheet = FALSE
      /\ chat.unread = 0 /\ chat.thread = <<>>
  BY <1>1, ChatBounds DEF NewChat, ChatRecords
<1>3. /\ inits \in [RunIds -> InitRecords]
      /\ \A r \in RunIds : inits[r].st = "none" /\ ~inits[r].live /\ ~inits[r].late
  <2>1. NoInit \in InitRecords /\ NoInit.st = "none" /\ ~NoInit.live /\ ~NoInit.late
    BY DEF NoInit, InitRecords
  <2> QED BY <1>1, <2>1
<1>4. RunsInv
  <2>1. \A r \in RunIds : inits[r].st # "none" <=> r <= 0
    BY <1>3, ChatBounds DEF RunIds
  <2>2. 0 \in 0..ChatRuns
    BY ChatBounds
  <2> QED BY <1>3, <2>1, <2>2 DEF RunsInv
<1>5. LinesInv
  BY <1>1, <1>2 DEF LinesInv
<1>6. FollowInv
  BY <1>1, <1>3 DEF FollowInv, Current
<1>7. DueInv
  <2>1. written \in Seq(WrittenMessages) /\ Len(written) = 0
    BY <1>1
  <2>2. chat.unread + Cardinality(due) <= Len(written) * ChatRuns
    BY <1>1, <1>2, <2>1, FS_EmptySet, ChatBounds
  <2>3. chat.unread = IF chat.sheet THEN 0 ELSE Cardinality(since)
    BY <1>1, <1>2, FS_EmptySet
  <2>4. /\ IsFiniteSet(due) /\ IsFiniteSet(since) /\ due = {} /\ since = {}
    BY <1>1, FS_EmptySet
  <2>5. Len(written) <= ChatMessages /\ \A i \in 1..Len(written) : written[i].id = i
    BY <2>1, ChatBounds
  <2> QED BY <2>5, <2>1, <2>2, <2>3, <2>4 DEF DueInv
<1>8. ThreadInv
  BY <1>2 DEF ThreadInv, ToSet, IsInjective
<1> QED BY <1>4, <1>5, <1>6, <1>7, <1>8 DEF ChatInv

LEMMA ChatStep ==
    ASSUME ChatInv, [ChatNext]_chatVars
    PROVE  ChatInv'
<1>1. CASE UNCHANGED chatVars
  <2>0. UNCHANGED <<chat, inits, lines, written, due, since>>
    BY <1>1 DEF chatVars
  <2>1. RunsInv' /\ LinesInv' /\ ThreadInv'
    BY <2>0 DEF ChatInv, RunsInv, LinesInv, ThreadInv
  <2>2. FollowInv' /\ DueInv'
    BY <2>0 DEF ChatInv, FollowInv, DueInv, Overtaken, Current
  <2> QED BY <2>1, <2>2 DEF ChatInv
<1>2. CASE LightClientChanges \/ SellerKnown \/ Unmount
  BY <1>2, CleanupSteps
<1>3. CASE SheetToggled
  BY <1>3, SheetStep
<1>4. ASSUME NEW r \in RunIds, SessionReady(r) \/ SocketConnected(r) \/ ChannelJoined(r) \/ InitFails(r)
      PROVE  ChatInv'
  BY <1>4, RunSteps
<1>5. ASSUME NEW from \in {"me", "peer"}, NEW day \in 1..ChatDays, MessageWritten(from, day)
      PROVE  ChatInv'
  BY <1>5, WrittenStep
<1>6. ASSUME NEW d \in due, OnChannelMessage(d[1], d[2])
      PROVE  ChatInv'
  BY <1>6, DeliveredStep
<1> QED BY <1>1, <1>2, <1>3, <1>4, <1>5, <1>6 DEF ChatNext

LEMMA ChatTyped ==
    ASSUME ChatInv
    PROVE  ChatTypeOK
<1>0. /\ inits \in [RunIds -> InitRecords] /\ chat \in ChatRecords
      /\ lines \in [open : SUBSET RunIds, listen : SUBSET RunIds] /\ IsFiniteSet(due)
      /\ written \in Seq(WrittenMessages) /\ Len(written) \in Nat /\ chat.unread \in Nat
  BY RunsAre DEF ChatRecords
<1>1. chat.unread \in 0..(ChatRuns * ChatMessages)
  <2>1. chat.unread + Cardinality(due) <= Len(written) * ChatRuns /\ Len(written) <= ChatMessages
    BY DEF ChatInv, DueInv
  <2>2. Cardinality(due) \in Nat
    BY <1>0, FS_CardinalityType
  <2>3. PICK k \in Nat : ChatMessages = Len(written) + k
    <3>1. ChatMessages - Len(written) \in Nat /\ ChatMessages = Len(written) + (ChatMessages - Len(written))
      BY <1>0, <2>1, ChatBounds
    <3> QED BY <3>1
  <2>4. /\ ChatRuns * ChatMessages = Len(written) * ChatRuns + k * ChatRuns
        /\ k * ChatRuns \in Nat /\ Len(written) * ChatRuns \in Nat
    BY <1>0, <2>3, ChatBounds
  <2> QED BY <1>0, <2>1, <2>2, <2>4
<1> QED BY <1>0, <1>1 DEF ChatTypeOK, ChatRecords, InitRecords, ChatInv, ThreadInv

LEMMA ChatOfTheRoom ==
    ASSUME ChatInv
    PROVE  ChatIsOfTheRoom
<1>1. ChatFollowsTheRoom
  <2> SUFFICES ASSUME ~Overtaken PROVE ChatFollowsTheRoom
    BY DEF ChatFollowsTheRoom
  <2>1. ~chat.mounted => Current = {}
    BY DEF ChatInv, RunsInv, Current
  <2> QED BY <2>1 DEF ChatInv, FollowInv, ChatFollowsTheRoom
<1>2. ConnectedToTheParty
  BY DEF ChatInv, LinesInv, ConnectedToTheParty
<1>3. UnreadIsCounted
  BY DEF ChatInv, DueInv, UnreadIsCounted
<1>4. GroupsAreOfOneSender
  BY Grouped, RunsAre DEF ChatRecords
<1> QED BY <1>1, <1>2, <1>3, <1>4 DEF ChatIsOfTheRoom

LEMMA ChatInvAlways == ChatSpec => []ChatInv
<1>1. ChatInit => ChatInv
  BY ChatStart
<1>2. ChatInv /\ [ChatNext]_chatVars => ChatInv'
  BY ChatStep
<1> QED BY <1>1, <1>2, PTL DEF ChatSpec

(* The types of the chat's state; the badge never counts more than each      *)
(* message once for each run of the effect.                                  *)
THEOREM ChatTypeCorrect == ChatSpec => []ChatTypeOK
<1> QED BY ChatTyped, ChatInvAlways, PTL

(* The chat of the trading room (initChat of ChatSidebar): its socket,       *)
(* listener, badge and groups are those of the room, for any number of       *)
(* connections that overtake each other and of messages.                     *)
THEOREM ChatAlwaysOfTheRoom == ChatSpec => []ChatIsOfTheRoom
<1> QED BY ChatOfTheRoom, ChatInvAlways, PTL

-----------------------------------------------------------------------------
(* The composer of the chat.                                                 *)

Small == Files \ LargeFiles
Drafts == [text : Texts \cup {NoText}, picked : Seq(Small), warning : BOOLEAN]
Outboxes == [st : {"idle", "uploading", "sending"}, text : Texts \cup {NoText}, files : Seq(Small),
             at : Nat \ {0}, retries : 0..(MaxRetries - 1), uploaded : Seq(Small)]

DraftContent == Content(draft.text, draft.picked)
OutboxContent == Content(outbox.text, outbox.files)
Distinct(s) == \A i, j \in 1..Len(s) : s[i] = s[j] => i = j

WrittenTypes ==
    /\ draft \in Drafts /\ outbox \in Outboxes /\ outbox.at <= Len(outbox.files) + 1
    /\ blobs \subseteq Images /\ givenUp \subseteq Files

(* Each thing is written once, and is in one place.                          *)
OnceInv ==
    /\ Distinct(draft.picked) /\ Distinct(outbox.files)
    /\ ToSet(draft.picked) \cap ToSet(outbox.files) = {}
    /\ unused \cap (DraftContent \cup OutboxContent) = {}
    /\ PreviewsAlive

(* What was submitted is accounted for; while a message is on its way, the
   draft holds nothing of it or of an earlier one.                           *)
SubmittedInv ==
    /\ SubmittedIsNotLost
    /\ \A m \in submitted : unused \cap Content(m.text, m.files) = {}
    /\ outbox.st # "idle" => \A m \in submitted : DraftContent \cap Content(m.text, m.files) = {}

(* The files before the one at hand are uploaded, in order, or given up.     *)
Uploaded(files, n, up, lost) ==
    /\ \A i, j \in 1..Len(up) : i <= j =>
          \E a, b \in 1..n : files[a] = up[i] /\ files[b] = up[j] /\ (i < j => a < b)
    /\ \A a \in 1..n : files[a] \in ToSet(up) \cup lost

UploadInv ==
    /\ outbox.st = "idle" => outbox = Idle
    /\ outbox.st # "idle" => [text |-> outbox.text, files |-> outbox.files] \in submitted
    /\ outbox.st = "sending" => outbox.at > Len(outbox.files)
    /\ Uploaded(outbox.files, outbox.at - 1, outbox.uploaded, givenUp)

ComposerInv == WrittenTypes /\ OnceInv /\ SubmittedInv /\ UploadInv /\ DeliveredAsWritten

(* Sequences.                                                                *)
LEMMA Elements ==
    ASSUME NEW S, NEW s \in Seq(S)
    PROVE  /\ Len(s) \in Nat /\ DOMAIN s = 1..Len(s) /\ \A i \in 1..Len(s) : s[i] \in S
           /\ \A x : x \in ToSet(s) <=> \E i \in 1..Len(s) : s[i] = x
           /\ ToSet(s) \subseteq S
<1>1. Len(s) \in Nat /\ DOMAIN s = 1..Len(s) /\ \A i \in 1..Len(s) : s[i] \in S
  BY LenProperties, ElementOfSeq
<1> QED BY <1>1 DEF ToSet

LEMMA NoElements == ToSet(<<>>) = {} /\ Distinct(<<>>) /\ Len(<<>>) = 0
BY DEF ToSet, Distinct

LEMMA Appended ==
    ASSUME NEW S, NEW s \in Seq(S), NEW e \in S
    PROVE  /\ Append(s, e) \in Seq(S) /\ Len(Append(s, e)) = Len(s) + 1
           /\ Append(s, e)[Len(s) + 1] = e /\ \A i \in 1..Len(s) : Append(s, e)[i] = s[i]
           /\ ToSet(Append(s, e)) = ToSet(s) \cup {e}
           /\ Distinct(s) /\ e \notin ToSet(s) => Distinct(Append(s, e))
<1> DEFINE a == Append(s, e)
<1>1. /\ a \in Seq(S) /\ Len(a) = Len(s) + 1
      /\ a[Len(s) + 1] = e /\ \A i \in 1..Len(s) : a[i] = s[i]
  BY AppendProperties
<1> HIDE DEF a
<1>2. /\ Len(s) \in Nat
      /\ \A x : x \in ToSet(s) <=> \E i \in 1..Len(s) : s[i] = x
      /\ \A x : x \in ToSet(a) <=> \E i \in 1..Len(a) : a[i] = x
  BY <1>1, Elements
<1>3. \A i \in 1..Len(a) : i = Len(s) + 1 \/ i \in 1..Len(s)
  BY <1>1, <1>2
<1>4. \A i \in 1..Len(s) : i \in 1..Len(a)
  BY <1>1, <1>2
<1>7. Len(s) + 1 \in 1..Len(a)
  BY <1>1, <1>2
<1>5. ToSet(a) = ToSet(s) \cup {e}
  BY <1>1, <1>2, <1>3, <1>4, <1>7
<1>6. Distinct(s) /\ e \notin ToSet(s) => Distinct(a)
  BY <1>1, <1>2, <1>3 DEF Distinct
<1> QED BY <1>1, <1>5, <1>6 DEF a

LEMMA Removed ==
    ASSUME NEW S, NEW s \in Seq(S), NEW i \in 1..Len(s), Distinct(s)
    PROVE  /\ RemoveAt(s, i) \in Seq(S) /\ Distinct(RemoveAt(s, i))
           /\ ToSet(RemoveAt(s, i)) = ToSet(s) \ {s[i]}
<1> DEFINE n == Len(s)
           l == SubSeq(s, 1, i - 1)
           r == SubSeq(s, i + 1, n)
           t == RemoveAt(s, i)
<1>0. n \in Nat /\ i \in Int /\ \A j \in 1..n : s[j] \in S
  BY Elements
<1>1. /\ l \in Seq(S) /\ Len(l) = i - 1 /\ \A j \in 1..(i - 1) : l[j] = s[j]
  <2>1. \A j \in 1..(i - 1) : s[j] \in S
    BY <1>0
  <2>2. /\ l \in Seq(S) /\ Len(l) = (IF 1 <= i - 1 THEN (i - 1) - 1 + 1 ELSE 0)
        /\ \A j \in 1..((i - 1) - 1 + 1) : l[j] = s[1 + j - 1]
    BY <1>0, <2>1, SubSeqProperties
  <2> HIDE DEF l
  <2> QED BY <1>0, <2>2
<1>2. /\ r \in Seq(S) /\ Len(r) = n - i /\ \A j \in 1..(n - i) : r[j] = s[i + j]
  <2>1. \A j \in (i + 1)..n : s[j] \in S
    BY <1>0
  <2>2. /\ r \in Seq(S) /\ Len(r) = (IF i + 1 <= n THEN n - (i + 1) + 1 ELSE 0)
        /\ \A j \in 1..(n - (i + 1) + 1) : r[j] = s[(i + 1) + j - 1]
    BY <1>0, <2>1, SubSeqProperties
  <2> HIDE DEF r
  <2> QED BY <1>0, <2>2
<1>3. t = l \o r
  BY DEF RemoveAt
<1> HIDE DEF l, r, t
<1>4. /\ t \in Seq(S) /\ Len(t) = (i - 1) + (n - i)
      /\ \A j \in 1..((i - 1) + (n - i)) : t[j] = IF j <= i - 1 THEN l[j] ELSE r[j - (i - 1)]
  <2>1. /\ t \in Seq(S) /\ Len(t) = Len(l) + Len(r)
        /\ \A j \in 1..(Len(l) + Len(r)) : t[j] = IF j <= Len(l) THEN l[j] ELSE r[j - Len(l)]
    BY <1>1, <1>2, <1>3, ConcatProperties
  <2>2. Len(l) = i - 1 /\ Len(r) = n - i
    BY <1>1, <1>2
  <2> QED BY <2>1, <2>2
<1>5. Len(t) = n - 1 /\ \A j \in 1..(n - 1) : t[j] = IF j < i THEN s[j] ELSE s[j + 1]
  <2>1. Len(t) = n - 1
    BY <1>0, <1>4
  <2>2. ASSUME NEW j \in 1..(n - 1), j < i PROVE t[j] = s[j]
    <3>1. j \in 1..(i - 1) /\ j \in 1..((i - 1) + (n - i)) /\ j <= i - 1
      BY <1>0, <2>2
    <3>2. t[j] = l[j]
      BY <1>4, <3>1
    <3> QED BY <1>1, <3>1, <3>2
  <2>3. ASSUME NEW j \in 1..(n - 1), ~ (j < i) PROVE t[j] = s[j + 1]
    <3>1. t[j] = r[j - (i - 1)] /\ j - (i - 1) \in 1..(n - i) /\ i + (j - (i - 1)) = j + 1
      BY <1>0, <1>4, <2>3
    <3> QED BY <1>2, <3>1
  <2> QED BY <2>1, <2>2, <2>3
<1>6. /\ \A x : x \in ToSet(s) <=> \E j \in 1..n : s[j] = x
      /\ \A x : x \in ToSet(t) <=> \E j \in 1..(n - 1) : t[j] = x
  BY <1>4, <1>5, Elements
<1>7. \A j, k \in 1..n : s[j] = s[k] => j = k
  BY DEF Distinct
<1> HIDE DEF n
<1>8. \A j, k \in 1..(n - 1) : t[j] = t[k] => j = k
  BY <1>0, <1>5, <1>7
<1>9. ASSUME NEW x PROVE x \in ToSet(t) <=> x \in ToSet(s) \ {s[i]}
  <2>1. ASSUME NEW j \in 1..(n - 1) PROVE t[j] \in ToSet(s) \ {s[i]}
    BY <1>0, <1>5, <1>6, <1>7 DEF n
  <2>2. ASSUME NEW j \in 1..n, j # i PROVE s[j] \in ToSet(t)
    <3>1. CASE j < i
      <4>1. j \in 1..(n - 1) /\ t[j] = s[j]
        BY <1>0, <1>5, <3>1 DEF n
      <4> QED BY <1>6, <4>1
    <3>2. CASE j > i
      <4>1. j - 1 \in 1..(n - 1) /\ t[j - 1] = s[j]
        BY <1>0, <1>5, <3>2 DEF n
      <4> QED BY <1>6, <4>1
    <3> QED BY <1>0, <2>2, <3>1, <3>2
  <2> QED BY <1>6, <2>1, <2>2
<1> QED BY <1>4, <1>5, <1>8, <1>9 DEF t, Distinct

-----------------------------------------------------------------------------
(* The content of the messages delivered.                                    *)
DeliveredContent == UNION {Content(m.text, m.files) : m \in delivered}

LEMMA PiecesAre == Pieces = DeliveredContent \cup DraftContent \cup OutboxContent
BY DEF Pieces, DeliveredContent, DraftContent, OutboxContent

(* A step of the writer: what the draft holds is what it held or something
   new, and what it held no more is discarded.                               *)
LEMMA DraftStep ==
    ASSUME ComposerInv, draft' \in Drafts, Distinct(draft'.picked),
           DraftContent' \subseteq DraftContent \cup unused,
           ToSet(draft'.picked) \subseteq ToSet(draft.picked) \cup unused,
           DraftContent \subseteq DraftContent' \cup discarded', discarded \subseteq discarded',
           unused' \subseteq unused, unused' \cap DraftContent' = {},
           blobs' \subseteq Images,
           (ToSet(draft'.picked) \cup ToSet(outbox.files)) \cap Images \subseteq blobs',
           UNCHANGED <<outbox, delivered, submitted, givenUp>>
    PROVE  ComposerInv'
<1>1. WrittenTypes'
  BY DEF ComposerInv, WrittenTypes
<1>2. OutboxContent' = OutboxContent /\ DeliveredContent' = DeliveredContent
  BY DEF OutboxContent, DeliveredContent
<1>3. OnceInv'
  <2>1. ToSet(outbox.files) \subseteq OutboxContent
    BY DEF OutboxContent, Content
  <2>2. ToSet(draft'.picked) \cap ToSet(outbox.files) = {}
    BY <2>1 DEF ComposerInv, OnceInv
  <2>3. unused' \cap (DraftContent' \cup OutboxContent') = {}
    BY <1>2 DEF ComposerInv, OnceInv
  <2> QED BY <2>2, <2>3 DEF ComposerInv, OnceInv, PreviewsAlive
<1>4. SubmittedInv'
  <2>1. \A m \in submitted : Content(m.text, m.files) \subseteq
            DeliveredContent \cup DraftContent \cup OutboxContent \cup givenUp \cup discarded
    BY PiecesAre DEF ComposerInv, SubmittedInv, SubmittedIsNotLost
  <2>2. \A m \in submitted : Content(m.text, m.files) \subseteq
            DeliveredContent' \cup DraftContent' \cup OutboxContent' \cup givenUp \cup discarded'
    BY <1>2, <2>1
  <2>3. Pieces' = DeliveredContent' \cup DraftContent' \cup OutboxContent'
    BY DEF Pieces, DeliveredContent, DraftContent, OutboxContent
  <2>4. SubmittedIsNotLost'
    BY <2>2, <2>3 DEF SubmittedIsNotLost
  <2>5. \A m \in submitted : unused \cap Content(m.text, m.files) = {}
    BY DEF ComposerInv, SubmittedInv
  <2>6. outbox.st # "idle" => \A m \in submitted : DraftContent \cap Content(m.text, m.files) = {}
    BY DEF ComposerInv, SubmittedInv
  <2>7. outbox.st # "idle" => \A m \in submitted : DraftContent' \cap Content(m.text, m.files) = {}
    BY <2>5, <2>6
  <2> QED BY <2>4, <2>5, <2>7 DEF SubmittedInv
<1>5. UploadInv'
  BY DEF ComposerInv, UploadInv
<1>6. DeliveredAsWritten'
  BY DEF ComposerInv, DeliveredAsWritten
<1> QED BY <1>1, <1>3, <1>4, <1>5, <1>6 DEF ComposerInv

LEMMA TextStep ==
    ASSUME ComposerInv, NEW t \in Texts, HandleTextareaChange(t)
    PROVE  ComposerInv'
<1>0. draft \in Drafts /\ blobs \subseteq Images /\ PreviewsAlive /\ Distinct(draft.picked)
      /\ unused \cap DraftContent = {}
  BY DEF ComposerInv, WrittenTypes, OnceInv
<1> DEFINE w == t \in LongTexts
<1>w. w \in BOOLEAN
  BY DEF w
<1>1. /\ draft' = [draft EXCEPT !.text = t, !.warning = w]
      /\ t \in unused /\ unused' = unused \ {t}
      /\ discarded' = discarded \cup Content(draft.text, <<>>)
      /\ UNCHANGED <<outbox, blobs, delivered, submitted, givenUp>>
  BY DEF HandleTextareaChange
<1> HIDE DEF w
<1>2. draft' \in Drafts /\ draft'.text = t /\ draft'.picked = draft.picked
  BY <1>0, <1>w, <1>1 DEF Drafts
<1>3. /\ DraftContent' = ({t} \ {NoText}) \cup ToSet(draft.picked)
      /\ DraftContent = ({draft.text} \ {NoText}) \cup ToSet(draft.picked)
      /\ Content(draft.text, <<>>) = {draft.text} \ {NoText}
  BY <1>2, NoElements DEF DraftContent, Content
<1> QED BY <1>0, <1>1, <1>2, <1>3, DraftStep DEF PreviewsAlive

LEMMA PickStep ==
    ASSUME ComposerInv, NEW f \in Files, f \in unused, unused' = unused \ {f}, Picked(f),
           UNCHANGED <<outbox, delivered, submitted, givenUp>>
    PROVE  ComposerInv'
<1>0. draft \in Drafts /\ blobs \subseteq Images /\ PreviewsAlive /\ Distinct(draft.picked)
      /\ unused \cap DraftContent = {}
  BY DEF ComposerInv, WrittenTypes, OnceInv
<1>1. CASE /\ f \notin LargeFiles /\ draft' = [draft EXCEPT !.picked = Append(draft.picked, f)]
           /\ blobs' = blobs \cup ({f} \cap Images) /\ UNCHANGED discarded
  <2>1. draft.picked \in Seq(Small) /\ f \in Small
    BY <1>0, <1>1 DEF Drafts, Small
  <2>2. f \notin ToSet(draft.picked)
    BY <1>0 DEF DraftContent, Content
  <2>3. /\ Append(draft.picked, f) \in Seq(Small) /\ Distinct(Append(draft.picked, f))
        /\ ToSet(Append(draft.picked, f)) = ToSet(draft.picked) \cup {f}
    BY <1>0, <2>1, <2>2, Appended
  <2>4. draft' \in Drafts /\ draft'.text = draft.text /\ draft'.picked = Append(draft.picked, f)
    BY <1>0, <1>1, <2>3 DEF Drafts
  <2>5. DraftContent' = DraftContent \cup {f}
    BY <2>3, <2>4 DEF DraftContent, Content
  <2> QED BY <1>0, <1>1, <2>3, <2>4, <2>5, DraftStep DEF PreviewsAlive
<1>2. CASE f \in LargeFiles /\ discarded' = discarded \cup {f} /\ UNCHANGED <<draft, blobs>>
  <2>1. DraftContent' = DraftContent
    BY <1>2 DEF DraftContent
  <2> QED BY <1>0, <1>2, <2>1, DraftStep DEF PreviewsAlive
<1> QED BY <1>1, <1>2 DEF Picked

LEMMA RemoveStep ==
    ASSUME ComposerInv, NEW i \in DOMAIN draft.picked, RemoveFile(i)
    PROVE  ComposerInv'
<1>0. /\ draft \in Drafts /\ blobs \subseteq Images /\ PreviewsAlive /\ Distinct(draft.picked)
      /\ unused \cap DraftContent = {} /\ ToSet(draft.picked) \cap ToSet(outbox.files) = {}
  BY DEF ComposerInv, WrittenTypes, OnceInv
<1>1. draft.picked \in Seq(Small)
  BY <1>0 DEF Drafts
<1>2. i \in 1..Len(draft.picked)
  BY <1>1, Elements
<1> DEFINE f == draft.picked[i]
           p == RemoveAt(draft.picked, i)
<1>3. /\ blobs' = blobs \ {f} /\ draft' = [draft EXCEPT !.picked = p]
      /\ discarded' = discarded \cup {f}
      /\ UNCHANGED <<outbox, delivered, submitted, unused, givenUp>>
  BY DEF RemoveFile
<1>4. p \in Seq(Small) /\ Distinct(p) /\ ToSet(p) = ToSet(draft.picked) \ {f}
  BY <1>0, <1>1, <1>2, Removed
<1>5. f \in ToSet(draft.picked)
  BY <1>1, <1>2, Elements
<1> HIDE DEF f, p
<1>6. draft' \in Drafts /\ draft'.text = draft.text /\ draft'.picked = p
  BY <1>0, <1>3, <1>4 DEF Drafts
<1>7. /\ DraftContent' = ({draft.text} \ {NoText}) \cup ToSet(p)
      /\ DraftContent = ({draft.text} \ {NoText}) \cup ToSet(draft.picked)
  BY <1>6 DEF DraftContent, Content
<1> QED BY <1>0, <1>3, <1>4, <1>5, <1>6, <1>7, DraftStep DEF PreviewsAlive

-----------------------------------------------------------------------------
(* A step of a message on its way.                                           *)
LEMMA OutboxStep ==
    ASSUME ComposerInv, outbox' \in Outboxes, outbox'.at <= Len(outbox'.files) + 1,
           outbox.st # "idle", outbox'.st # "idle",
           outbox'.text = outbox.text, outbox'.files = outbox.files,
           UNCHANGED <<draft, blobs, delivered, submitted, unused, discarded>>,
           givenUp \subseteq givenUp', givenUp' \subseteq Files, UploadInv'
    PROVE  ComposerInv'
<1>1. WrittenTypes'
  BY DEF ComposerInv, WrittenTypes
<1>2. /\ OutboxContent' = OutboxContent /\ DraftContent' = DraftContent
      /\ Pieces' = Pieces
  BY DEF OutboxContent, DraftContent, Pieces
<1>3. OnceInv'
  BY <1>2 DEF ComposerInv, OnceInv, PreviewsAlive
<1>4. SubmittedIsNotLost'
  BY <1>2 DEF ComposerInv, SubmittedInv, SubmittedIsNotLost
<1>5. SubmittedInv'
  BY <1>2, <1>4 DEF ComposerInv, SubmittedInv
<1>6. DeliveredAsWritten'
  BY DEF ComposerInv, DeliveredAsWritten
<1> QED BY <1>1, <1>3, <1>5, <1>6 DEF ComposerInv

LEMMA UploadedOne ==
    ASSUME NEW files \in Seq(Small), NEW n \in 1..Len(files), NEW up \in Seq(Small), NEW lost,
           Uploaded(files, n - 1, up, lost)
    PROVE  /\ Uploaded(files, n, Append(up, files[n]), lost)
           /\ Uploaded(files, n, up, lost \cup {files[n]})
<1> DEFINE f == files[n]
           u == Append(up, f)
           m == Len(up)
<1>1. f \in Small /\ n \in Nat /\ n >= 1
  BY Elements
<1>2. /\ Len(u) = m + 1 /\ u[m + 1] = f /\ \A i \in 1..m : u[i] = up[i]
      /\ ToSet(u) = ToSet(up) \cup {f} /\ m \in Nat
  BY <1>1, Appended, Elements
<1>3. /\ \A i, j \in 1..m : i <= j =>
            \E a, b \in 1..(n - 1) : files[a] = up[i] /\ files[b] = up[j] /\ (i < j => a < b)
      /\ \A a \in 1..(n - 1) : files[a] \in ToSet(up) \cup lost
  BY DEF Uploaded
<1>4. /\ n \in 1..n /\ files[n] = f /\ 1..n = 1..(n - 1) \cup {n}
      /\ \A a \in 1..(n - 1) : a \in 1..n /\ a < n
  BY <1>1
<1> HIDE DEF f, u, m
<1>5. ASSUME NEW i \in 1..m, NEW j \in 1..m, i <= j
      PROVE  \E a, b \in 1..n : files[a] = up[i] /\ files[b] = up[j] /\ (i < j => a < b)
  <2>1. PICK a, b \in 1..(n - 1) : files[a] = up[i] /\ files[b] = up[j] /\ (i < j => a < b)
    BY <1>3, <1>5
  <2> QED BY <1>4, <2>1
<1>6. ASSUME NEW i \in 1..(m + 1), NEW j \in 1..(m + 1), i <= j
      PROVE  \E a, b \in 1..n : files[a] = u[i] /\ files[b] = u[j] /\ (i < j => a < b)
  <2>1. CASE i \in 1..m /\ j \in 1..m
    <3>1. PICK a, b \in 1..n : files[a] = up[i] /\ files[b] = up[j] /\ (i < j => a < b)
      BY <1>5, <1>6, <2>1
    <3>2. u[i] = up[i] /\ u[j] = up[j]
      BY <1>2, <2>1
    <3> QED BY <3>1, <3>2
  <2>2. CASE i = m + 1 /\ j = m + 1
    BY <1>2, <1>4, <2>2
  <2>3. CASE i \in 1..m /\ j = m + 1
    <3>1. i <= i
      BY <2>3
    <3>2. PICK a \in 1..(n - 1) : files[a] = up[i]
      BY <1>3, <2>3, <3>1
    <3> QED BY <1>2, <1>4, <2>3, <3>2
  <2> QED BY <1>2, <1>6, <2>1, <2>2, <2>3
<1>7. Uploaded(files, n, u, lost)
  BY <1>2, <1>3, <1>4, <1>6 DEF Uploaded
<1>8. Uploaded(files, n, up, lost \cup {f})
  BY <1>3, <1>4, <1>5 DEF Uploaded, m
<1> QED BY <1>7, <1>8 DEF f, u

LEMMA UploadedAll ==
    ASSUME NEW files \in Seq(Small), NEW up \in Seq(Small), NEW lost,
           Uploaded(files, Len(files), up, lost)
    PROVE  InOrder(up, files)
<1> DEFINE m == DOMAIN up
           n == DOMAIN files
<1>1. m = 1..Len(up) /\ n = 1..Len(files)
  BY Elements
<1> HIDE DEF m, n
<1>2. \A i, j \in m : i <= j =>
          \E a, b \in n : files[a] = up[i] /\ files[b] = up[j] /\ (i < j => a < b)
  BY <1>1 DEF Uploaded
<1> QED BY <1>2 DEF InOrder, m, n

LEMMA UploadSteps ==
    ASSUME ComposerInv, UploadSucceeds \/ UploadFails \/ SendDM
    PROVE  ComposerInv'
<1> DEFINE n == Len(outbox.files)
           f == outbox.files[outbox.at]
<1>0. /\ outbox \in Outboxes /\ outbox.at \in Nat /\ outbox.at >= 1 /\ outbox.at <= n + 1 /\ n \in Nat
      /\ outbox.files \in Seq(Small) /\ outbox.uploaded \in Seq(Small) /\ givenUp \subseteq Files
      /\ outbox.retries \in 0..(MaxRetries - 1)
  BY Elements DEF ComposerInv, WrittenTypes, Outboxes
<1>u. UploadInv
  BY DEF ComposerInv
<1>1. CASE SendDM
  <2>1. /\ outbox.st = "uploading" /\ outbox.at > n /\ outbox' = [outbox EXCEPT !.st = "sending"]
        /\ UNCHANGED <<draft, blobs, delivered, submitted, unused, givenUp, discarded>>
    BY <1>1 DEF SendDM
  <2>2. /\ outbox' \in Outboxes /\ outbox'.st = "sending" /\ outbox'.text = outbox.text
        /\ outbox'.files = outbox.files /\ outbox'.at = outbox.at
        /\ outbox'.uploaded = outbox.uploaded
    BY <1>0, <2>1 DEF Outboxes
  <2>3. UploadInv'
    BY <1>u, <2>1, <2>2 DEF UploadInv
  <2> QED BY <1>0, <2>1, <2>2, <2>3, OutboxStep
<1>f. ASSUME Uploading
      PROVE  /\ outbox.st = "uploading" /\ f \in Files /\ f \in Small /\ outbox.at \in 1..n
             /\ outbox.at + 1 \in Nat \ {0} /\ outbox.at + 1 <= n + 1 /\ (outbox.at + 1) - 1 = outbox.at
             /\ [text |-> outbox.text, files |-> outbox.files] \in submitted
             /\ Uploaded(outbox.files, outbox.at, Append(outbox.uploaded, f), givenUp)
             /\ Uploaded(outbox.files, outbox.at, outbox.uploaded, givenUp \cup {f})
  <2>1. outbox.st = "uploading" /\ outbox.at \in 1..n
    BY <1>0, <1>f DEF Uploading
  <2>2. f \in Small
    BY <1>0, <2>1, Elements
  <2>3. Uploaded(outbox.files, outbox.at - 1, outbox.uploaded, givenUp)
    BY <1>u DEF UploadInv
  <2>4. /\ Uploaded(outbox.files, outbox.at, Append(outbox.uploaded, f), givenUp)
        /\ Uploaded(outbox.files, outbox.at, outbox.uploaded, givenUp \cup {f})
    BY <1>0, <2>1, <2>3, UploadedOne
  <2> QED BY <1>0, <1>u, <2>1, <2>2, <2>4 DEF UploadInv, Small
<1>2. CASE UploadSucceeds
  <2>1. /\ Uploading /\ outbox' = [NextFile EXCEPT !.uploaded = Append(@, File)]
        /\ UNCHANGED <<draft, blobs, delivered, submitted, unused, givenUp, discarded>>
    BY <1>2 DEF UploadSucceeds
  <2> DEFINE u == Append(outbox.uploaded, f)
  <2>2. u \in Seq(Small)
    BY <1>0, <1>f, <2>1, Appended
  <2>3. outbox' = [outbox EXCEPT !.at = outbox.at + 1, !.retries = 0, !.uploaded = u]
    BY <1>0, <2>1 DEF NextFile, File, Outboxes
  <2>4. /\ Uploaded(outbox.files, outbox.at, u, givenUp) /\ (outbox.at + 1) - 1 = outbox.at
        /\ outbox.at + 1 \in Nat \ {0} /\ 0 \in 0..(MaxRetries - 1)
    BY <1>f, <2>1 DEF MaxRetries
  <2> HIDE DEF u, f, n
  <2>5. /\ outbox' \in Outboxes /\ outbox'.st = outbox.st /\ outbox'.text = outbox.text
        /\ outbox'.files = outbox.files /\ outbox'.at = outbox.at + 1
        /\ outbox'.uploaded = u
    BY <1>0, <2>2, <2>3, <2>4 DEF Outboxes
  <2>6. Uploaded(outbox'.files, outbox'.at - 1, outbox'.uploaded, givenUp')
    BY <2>1, <2>4, <2>5
  <2>7. UploadInv'
    BY <1>f, <2>1, <2>5, <2>6 DEF UploadInv
  <2> QED BY <1>0, <1>f, <2>1, <2>5, <2>7, OutboxStep DEF n
<1>3. CASE UploadFails
  <2>0. /\ Uploading
        /\ UNCHANGED <<draft, blobs, delivered, submitted, unused, discarded>>
    BY <1>3 DEF UploadFails
  <2>1. CASE /\ outbox.retries + 1 < MaxRetries /\ outbox' = [outbox EXCEPT !.retries = outbox.retries + 1]
             /\ UNCHANGED givenUp
    <3>1. /\ outbox' \in Outboxes /\ outbox'.st = outbox.st /\ outbox'.text = outbox.text
          /\ outbox'.files = outbox.files /\ outbox'.at = outbox.at
          /\ outbox'.uploaded = outbox.uploaded
      <4> DEFINE more == outbox.retries + 1
      <4>1. outbox \in Outboxes /\ outbox' = [outbox EXCEPT !.retries = more]
        BY <1>0, <2>1
      <4>2. more \in 0..(MaxRetries - 1)
        BY <1>0, <2>1 DEF Outboxes, MaxRetries
      <4> HIDE DEF more
      <4> QED BY <4>1, <4>2 DEF Outboxes
    <3>2. UploadInv'
      BY <1>u, <1>f, <2>0, <2>1, <3>1 DEF UploadInv
    <3> QED BY <1>0, <1>f, <2>0, <2>1, <3>1, <3>2, OutboxStep
  <2>2. CASE outbox' = NextFile /\ givenUp' = givenUp \cup {File}
    <3>1. outbox' = [outbox EXCEPT !.at = outbox.at + 1, !.retries = 0] /\ givenUp' = givenUp \cup {f}
      BY <2>2 DEF NextFile, File
    <3>2. /\ Uploaded(outbox.files, outbox.at, outbox.uploaded, givenUp \cup {f})
          /\ (outbox.at + 1) - 1 = outbox.at
          /\ outbox.at + 1 \in Nat \ {0} /\ 0 \in 0..(MaxRetries - 1)
      BY <1>f, <2>0 DEF MaxRetries
    <3> HIDE DEF f, n
    <3>3. /\ outbox' \in Outboxes /\ outbox'.st = outbox.st /\ outbox'.text = outbox.text
          /\ outbox'.files = outbox.files /\ outbox'.at = outbox.at + 1
          /\ outbox'.uploaded = outbox.uploaded
      BY <1>0, <3>1, <3>2 DEF Outboxes
    <3>4. Uploaded(outbox'.files, outbox'.at - 1, outbox'.uploaded, givenUp')
      BY <3>1, <3>2, <3>3
    <3>5. UploadInv'
      BY <1>f, <2>0, <3>3, <3>4 DEF UploadInv
    <3> QED BY <1>0, <1>f, <2>0, <3>1, <3>3, <3>5, OutboxStep DEF n
  <2> QED BY <1>3, <2>1, <2>2 DEF UploadFails
<1> QED BY <1>1, <1>2, <1>3

-----------------------------------------------------------------------------
(* The message is taken from the draft, delivered, or put back.              *)
LEMMA AnIdleOutbox ==
    /\ Idle \in Outboxes /\ Idle.st = "idle" /\ Idle.at <= Len(Idle.files) + 1
    /\ Idle.files = <<>> /\ Idle.uploaded = <<>> /\ Content(Idle.text, Idle.files) = {}
    /\ \A files, lost : Uploaded(files, Idle.at - 1, Idle.uploaded, lost)
<1>1. <<>> \in Seq(Small) /\ Len(<<>>) = 0 /\ ToSet(<<>>) = {}
  BY NoElements
<1>2. \A files, lost : Uploaded(files, 0, <<>>, lost)
  BY <1>1 DEF Uploaded
<1>3. /\ Idle.st = "idle" /\ Idle.files = <<>> /\ Idle.uploaded = <<>> /\ Idle.at = 1 /\ Idle.text = NoText
      /\ Idle \in Outboxes
  BY <1>1 DEF Idle, Outboxes, MaxRetries
<1>4. Content(Idle.text, Idle.files) = {}
  BY <1>1, <1>3 DEF Content
<1> QED BY <1>1, <1>2, <1>3, <1>4

LEMMA AnEmptyDraft ==
    /\ EmptyDraft \in Drafts /\ EmptyDraft.picked = <<>>
    /\ Content(EmptyDraft.text, EmptyDraft.picked) = {}
<1>1. <<>> \in Seq(Small) /\ ToSet(<<>>) = {}
  BY NoElements
<1>2. EmptyDraft.picked = <<>> /\ EmptyDraft.text = NoText /\ EmptyDraft \in Drafts
  BY <1>1 DEF EmptyDraft, Drafts
<1> QED BY <1>1, <1>2 DEF Content

LEMMA SubmitStep ==
    ASSUME ComposerInv, HandleSendMessage
    PROVE  ComposerInv'
<1> DEFINE new == [text |-> draft.text, files |-> draft.picked]
<1>0. /\ draft \in Drafts /\ draft.text \in Texts \cup {NoText} /\ draft.picked \in Seq(Small)
      /\ outbox = Idle /\ blobs \subseteq Images /\ givenUp \subseteq Files
      /\ Distinct(draft.picked) /\ unused \cap DraftContent = {} /\ PreviewsAlive
  BY DEF ComposerInv, WrittenTypes, OnceInv, UploadInv, HandleSendMessage, Drafts
<1>1. /\ outbox' = [Idle EXCEPT !.st = "uploading", !.text = draft.text, !.files = draft.picked]
      /\ draft' = EmptyDraft /\ submitted' = submitted \cup {new}
      /\ UNCHANGED <<blobs, delivered, unused, givenUp, discarded>>
  BY DEF HandleSendMessage
<1>2. /\ outbox' \in Outboxes /\ outbox'.st = "uploading" /\ outbox'.text = draft.text
      /\ outbox'.files = draft.picked /\ outbox'.at = 1 /\ outbox'.uploaded = <<>>
  BY <1>0, <1>1, AnIdleOutbox DEF Outboxes, Idle
<1>3. new.text = draft.text /\ new.files = draft.picked
  OBVIOUS
<1>4. /\ OutboxContent' = DraftContent /\ DraftContent' = {} /\ OutboxContent = {}
      /\ DeliveredContent' = DeliveredContent /\ Content(new.text, new.files) = DraftContent
  BY <1>0, <1>1, <1>2, <1>3, AnIdleOutbox, AnEmptyDraft DEF OutboxContent, DraftContent, DeliveredContent
<1>5. new = [text |-> outbox'.text, files |-> outbox'.files]
  BY <1>2
<1> HIDE DEF new
<1>6. Len(draft.picked) \in Nat
  BY <1>0, Elements
<1>7. WrittenTypes'
  <2>1. outbox'.at <= Len(outbox'.files) + 1
    BY <1>2, <1>6
  <2> QED BY <1>0, <1>1, <1>2, <2>1, AnEmptyDraft DEF WrittenTypes
<1>8. OnceInv'
  <2>1. ToSet(draft'.picked) = {} /\ Distinct(draft'.picked)
    BY <1>1, AnEmptyDraft, NoElements
  <2>2. PreviewsAlive'
    BY <1>0, <1>1, <1>2, <2>1 DEF PreviewsAlive
  <2>3. Distinct(outbox'.files)
    BY <1>0, <1>2
  <2>4. unused' \cap (DraftContent' \cup OutboxContent') = {}
    BY <1>0, <1>1, <1>4
  <2> QED BY <2>1, <2>2, <2>3, <2>4 DEF OnceInv
<1>9. SubmittedInv'
  <2>1. \A m \in submitted : Content(m.text, m.files) \subseteq
            DeliveredContent \cup DraftContent \cup OutboxContent \cup givenUp \cup discarded
    BY PiecesAre DEF ComposerInv, SubmittedInv, SubmittedIsNotLost
  <2>2. Pieces' = DeliveredContent' \cup DraftContent' \cup OutboxContent'
    BY DEF Pieces, DeliveredContent, DraftContent, OutboxContent
  <2>3. \A m \in submitted' : Content(m.text, m.files) \subseteq Pieces' \cup givenUp' \cup discarded'
    BY <1>1, <1>4, <2>1, <2>2
  <2>4. \A m \in submitted' : unused' \cap Content(m.text, m.files) = {}
    BY <1>0, <1>1, <1>4 DEF ComposerInv, SubmittedInv
  <2>5. \A m \in submitted' : DraftContent' \cap Content(m.text, m.files) = {}
    BY <1>4
  <2> QED BY <2>3, <2>4, <2>5 DEF SubmittedInv, SubmittedIsNotLost
<1>10. UploadInv'
  <2>1. Uploaded(outbox'.files, outbox'.at - 1, outbox'.uploaded, givenUp')
    BY <1>2, AnIdleOutbox DEF Idle
  <2>2. [text |-> outbox'.text, files |-> outbox'.files] \in submitted'
    BY <1>1, <1>5
  <2> QED BY <1>2, <2>1, <2>2 DEF UploadInv
<1>11. DeliveredAsWritten'
  BY <1>1 DEF ComposerInv, DeliveredAsWritten
<1> QED BY <1>7, <1>8, <1>9, <1>10, <1>11 DEF ComposerInv

LEMMA DeliverStep ==
    ASSUME ComposerInv, SendSucceeds
    PROVE  ComposerInv'
<1> DEFINE new == [text |-> outbox.text, files |-> outbox.uploaded]
           was == [text |-> outbox.text, files |-> outbox.files]
<1>0. /\ outbox \in Outboxes /\ outbox.at \in Nat /\ outbox.at <= Len(outbox.files) + 1
      /\ outbox.files \in Seq(Small) /\ outbox.uploaded \in Seq(Small)
      /\ draft \in Drafts /\ blobs \subseteq Images /\ givenUp \subseteq Files
      /\ Distinct(draft.picked) /\ ToSet(draft.picked) \cap ToSet(outbox.files) = {}
      /\ unused \cap DraftContent = {} /\ PreviewsAlive
  BY DEF ComposerInv, WrittenTypes, OnceInv, Outboxes
<1>1. /\ outbox.st = "sending" /\ delivered' = delivered \cup {new}
      /\ blobs' = blobs \ ToSet(outbox.files) /\ outbox' = Idle
      /\ UNCHANGED <<draft, submitted, unused, givenUp, discarded>>
  BY DEF SendSucceeds
<1>2. /\ was \in submitted /\ outbox.at > Len(outbox.files)
      /\ Uploaded(outbox.files, outbox.at - 1, outbox.uploaded, givenUp)
  BY <1>1 DEF ComposerInv, UploadInv
<1>3. outbox.at - 1 = Len(outbox.files) /\ Len(outbox.files) \in Nat
  BY <1>0, <1>2, Elements
<1>4. /\ \A i, j \in 1..Len(outbox.uploaded) : i <= j =>
            \E a, b \in 1..Len(outbox.files) :
                /\ outbox.files[a] = outbox.uploaded[i] /\ outbox.files[b] = outbox.uploaded[j]
                /\ (i < j => a < b)
      /\ \A a \in 1..Len(outbox.files) : outbox.files[a] \in ToSet(outbox.uploaded) \cup givenUp
  BY <1>2, <1>3 DEF Uploaded
<1>5. InOrder(outbox.uploaded, outbox.files)
  BY <1>0, <1>2, <1>3, UploadedAll
<1>6. ToSet(outbox.files) \subseteq ToSet(outbox.uploaded) \cup givenUp
  BY <1>0, <1>4, Elements
<1>7. /\ new.text = outbox.text /\ new.files = outbox.uploaded
      /\ was.text = outbox.text /\ was.files = outbox.files
  OBVIOUS
<1> HIDE DEF new, was
<1>8. WrittenTypes'
  BY <1>0, <1>1, AnIdleOutbox DEF WrittenTypes
<1>9. /\ DraftContent' = DraftContent /\ OutboxContent' = {}
      /\ DeliveredContent' = DeliveredContent \cup Content(outbox.text, outbox.uploaded)
      /\ OutboxContent \subseteq Content(outbox.text, outbox.uploaded) \cup givenUp
  BY <1>1, <1>6, <1>7, AnIdleOutbox DEF DraftContent, OutboxContent, DeliveredContent, Content
<1>10. OnceInv'
  <2>1. ToSet(outbox'.files) = {} /\ Distinct(outbox'.files)
    BY <1>1, AnIdleOutbox, NoElements
  <2>2. PreviewsAlive'
    BY <1>0, <1>1, <2>1 DEF PreviewsAlive
  <2> QED BY <1>0, <1>1, <1>9, <2>1, <2>2 DEF OnceInv
<1>11. SubmittedInv'
  <2>1. \A m \in submitted : Content(m.text, m.files) \subseteq
            DeliveredContent \cup DraftContent \cup OutboxContent \cup givenUp \cup discarded
    BY PiecesAre DEF ComposerInv, SubmittedInv, SubmittedIsNotLost
  <2>2. Pieces' = DeliveredContent' \cup DraftContent' \cup OutboxContent'
    BY DEF Pieces, DeliveredContent, DraftContent, OutboxContent
  <2>3. \A m \in submitted' : Content(m.text, m.files) \subseteq Pieces' \cup givenUp' \cup discarded'
    BY <1>1, <1>9, <2>1, <2>2
  <2>4. \A m \in submitted' : unused' \cap Content(m.text, m.files) = {}
    BY <1>1 DEF ComposerInv, SubmittedInv
  <2>5. outbox'.st = "idle"
    BY <1>1, AnIdleOutbox
  <2> QED BY <2>3, <2>4, <2>5 DEF SubmittedInv, SubmittedIsNotLost
<1>12. UploadInv'
  BY <1>1, AnIdleOutbox DEF UploadInv
<1>13. DeliveredAsWritten'
  <2>1. \A d \in delivered : \E m \in submitted :
            /\ d.text = m.text /\ InOrder(d.files, m.files)
            /\ ToSet(m.files) \ ToSet(d.files) \subseteq givenUp
    BY DEF ComposerInv, DeliveredAsWritten
  <2>2. /\ new.text = was.text /\ InOrder(new.files, was.files)
        /\ ToSet(was.files) \ ToSet(new.files) \subseteq givenUp
    BY <1>5, <1>6, <1>7
  <2>3. \A d \in delivered' : \E m \in submitted' :
            /\ d.text = m.text /\ InOrder(d.files, m.files)
            /\ ToSet(m.files) \ ToSet(d.files) \subseteq givenUp'
    BY <1>1, <1>2, <2>1, <2>2
  <2> QED BY <2>3 DEF DeliveredAsWritten
<1> QED BY <1>8, <1>10, <1>11, <1>12, <1>13 DEF ComposerInv

LEMMA PutBackStep ==
    ASSUME ComposerInv, SendFails
    PROVE  ComposerInv'
<1>0. /\ outbox \in Outboxes /\ outbox.files \in Seq(Small) /\ outbox.text \in Texts \cup {NoText}
      /\ draft \in Drafts /\ blobs \subseteq Images /\ givenUp \subseteq Files
      /\ Distinct(outbox.files) /\ unused \cap OutboxContent = {} /\ PreviewsAlive
  BY DEF ComposerInv, WrittenTypes, OnceInv, Outboxes
<1>1. /\ outbox.st = "sending" /\ outbox' = Idle
      /\ draft' = [draft EXCEPT !.text = outbox.text, !.picked = outbox.files]
      /\ UNCHANGED <<blobs, delivered, submitted, unused, givenUp, discarded>>
  BY DEF SendFails
<1>2. draft' \in Drafts /\ draft'.text = outbox.text /\ draft'.picked = outbox.files
  BY <1>0, <1>1 DEF Drafts
<1>3. WrittenTypes'
  BY <1>0, <1>1, <1>2, AnIdleOutbox DEF WrittenTypes
<1>4. DraftContent' = OutboxContent /\ OutboxContent' = {} /\ DeliveredContent' = DeliveredContent
  BY <1>1, <1>2, AnIdleOutbox DEF DraftContent, OutboxContent, DeliveredContent
<1>5. OnceInv'
  <2>1. ToSet(outbox'.files) = {} /\ Distinct(outbox'.files)
    BY <1>1, AnIdleOutbox, NoElements
  <2>2. PreviewsAlive'
    BY <1>0, <1>1, <1>2, <2>1 DEF PreviewsAlive
  <2> QED BY <1>0, <1>1, <1>2, <1>4, <2>1, <2>2 DEF OnceInv
<1>6. SubmittedInv'
  <2>1. \A m \in submitted : Content(m.text, m.files) \subseteq
            DeliveredContent \cup DraftContent \cup OutboxContent \cup givenUp \cup discarded
    BY PiecesAre DEF ComposerInv, SubmittedInv, SubmittedIsNotLost
  <2>2. \A m \in submitted : DraftContent \cap Content(m.text, m.files) = {}
    BY <1>1 DEF ComposerInv, SubmittedInv
  <2>3. Pieces' = DeliveredContent' \cup DraftContent' \cup OutboxContent'
    BY DEF Pieces, DeliveredContent, DraftContent, OutboxContent
  <2>4. \A m \in submitted' : Content(m.text, m.files) \subseteq Pieces' \cup givenUp' \cup discarded'
    BY <1>1, <1>4, <2>1, <2>2, <2>3
  <2>5. \A m \in submitted' : unused' \cap Content(m.text, m.files) = {}
    BY <1>1 DEF ComposerInv, SubmittedInv
  <2>6. outbox'.st = "idle"
    BY <1>1, AnIdleOutbox
  <2> QED BY <2>4, <2>5, <2>6 DEF SubmittedInv, SubmittedIsNotLost
<1>7. UploadInv'
  BY <1>1, AnIdleOutbox DEF UploadInv
<1>8. DeliveredAsWritten'
  BY <1>1 DEF ComposerInv, DeliveredAsWritten
<1> QED BY <1>3, <1>5, <1>6, <1>7, <1>8 DEF ComposerInv

-----------------------------------------------------------------------------
LEMMA ComposerStart == ComposerInit => ComposerInv
<1> SUFFICES ASSUME ComposerInit PROVE ComposerInv
  OBVIOUS
<1>1. /\ draft = EmptyDraft /\ outbox = Idle /\ blobs = {} /\ delivered = {} /\ submitted = {} /\ givenUp = {}
  BY DEF ComposerInit
<1>2. WrittenTypes
  BY <1>1, AnIdleOutbox, AnEmptyDraft DEF WrittenTypes
<1>3. OnceInv
  <2>1. draft.picked = <<>> /\ outbox.files = <<>> /\ DraftContent = {} /\ OutboxContent = {}
    BY <1>1, AnIdleOutbox, AnEmptyDraft DEF DraftContent, OutboxContent
  <2> QED BY <2>1, NoElements DEF OnceInv, PreviewsAlive
<1>4. SubmittedInv
  BY <1>1 DEF SubmittedInv, SubmittedIsNotLost
<1>5. UploadInv
  BY <1>1, AnIdleOutbox DEF UploadInv
<1>6. DeliveredAsWritten
  BY <1>1 DEF DeliveredAsWritten
<1> QED BY <1>2, <1>3, <1>4, <1>5, <1>6 DEF ComposerInv

LEMMA ComposerStep == ComposerInv /\ [ComposerNext]_composerVars => ComposerInv'
<1> SUFFICES ASSUME ComposerInv, [ComposerNext]_composerVars PROVE ComposerInv'
  OBVIOUS
<1>1. ASSUME NEW t \in Texts, HandleTextareaChange(t) PROVE ComposerInv'
  BY <1>1, TextStep
<1>2. ASSUME NEW f \in Files, HandleFileChange(f) \/ HandlePaste(f) \/ HandleDrop(f) PROVE ComposerInv'
  <2>1. /\ f \in unused /\ unused' = unused \ {f} /\ Picked(f)
        /\ UNCHANGED <<outbox, delivered, submitted, givenUp>>
    BY <1>2 DEF HandleFileChange, HandlePaste, HandleDrop
  <2> QED BY <2>1, PickStep
<1>3. ASSUME NEW i \in DOMAIN draft.picked, RemoveFile(i) PROVE ComposerInv'
  BY <1>3, RemoveStep
<1>4. CASE HandleSendMessage
  BY <1>4, SubmitStep
<1>5. CASE UploadSucceeds \/ UploadFails \/ SendDM
  BY <1>5, UploadSteps
<1>6. CASE SendSucceeds
  BY <1>6, DeliverStep
<1>7. CASE SendFails
  BY <1>7, PutBackStep
<1>8. CASE UNCHANGED composerVars
  BY <1>8 DEF composerVars, ComposerInv, WrittenTypes, OnceInv, SubmittedInv, SubmittedIsNotLost, Pieces,
              DraftContent, OutboxContent, PreviewsAlive, UploadInv, DeliveredAsWritten
<1> QED BY <1>1, <1>2, <1>3, <1>4, <1>5, <1>6, <1>7, <1>8 DEF ComposerNext

LEMMA ComposerInvGives == ComposerInv => ComposerTypeOK /\ NothingWrittenIsLost
<1> SUFFICES ASSUME ComposerInv PROVE ComposerTypeOK /\ NothingWrittenIsLost
  OBVIOUS
<1>1. /\ draft \in Drafts /\ outbox \in Outboxes /\ outbox.at <= Len(outbox.files) + 1
      /\ blobs \subseteq Images /\ givenUp \subseteq Files
  BY DEF ComposerInv, WrittenTypes
<1>2. /\ outbox.files \in Seq(Small) /\ outbox.uploaded \in Seq(Small) /\ outbox.at \in Nat \ {0}
  BY <1>1 DEF Outboxes
<1>3. \A s \in Seq(Small) : s \in Seq(Files)
  BY DEF Small
<1>4. outbox.at \in 1..(Len(outbox.files) + 1)
  BY <1>1, <1>2, Elements
<1>5. ComposerTypeOK
  BY <1>1, <1>2, <1>3, <1>4 DEF ComposerTypeOK, Drafts, Outboxes, Small
<1>6. NothingWrittenIsLost
  BY DEF ComposerInv, OnceInv, SubmittedInv, NothingWrittenIsLost
<1> QED BY <1>5, <1>6

(* ChatSidebar: the draft, the message on its way and the object URLs have
   their types, whatever is written, attached, refused or sent meanwhile.    *)
THEOREM ComposerTypeCorrect == ComposerSpec => []ComposerTypeOK
<1>1. ComposerSpec => []ComposerInv
  BY ComposerStart, ComposerStep, PTL DEF ComposerSpec
<1> QED BY <1>1, ComposerInvGives, PTL

(* handleSendMessage, uploadAttachmentFile and their failures: what was
   submitted is on its way, delivered, back in the draft, or given up by the
   uploads or the writer; every preview has a live URL; and a message arrives
   with its text and its files in their order.                               *)
THEOREM NothingIsLostOnItsWay == ComposerSpec => []NothingWrittenIsLost
<1>1. ComposerSpec => []ComposerInv
  BY ComposerStart, ComposerStep, PTL DEF ComposerSpec
<1> QED BY <1>1, ComposerInvGives, PTL

-----------------------------------------------------------------------------
(* The socket: one connection at a time, watched while the manager has it,   *)
(* and in the room of the offers exactly while they are shown.               *)

SocketStates == {"none", "connecting", "open", "closing", "closed"}
RoomMessages == {"join_room", "leave_room"}
Managers == [ws : 0..MaxSockets, connecting : BOOLEAN, watch : BOOLEAN, should : BOOLEAN,
             attempts : 0..1, call : {"none", "token", "timer"}]
Pages == [tab : BOOLEAN, joining : BOOLEAN, on : 0..MaxSockets, turns : 0..TabTurns]

LineIsLive(s) == sock[s] \in {"connecting", "open"}

(* A connection is asked for only when none is left.                       *)
LineInv ==
    /\ \A s, t \in SocketIds : LineIsLive(s) /\ LineIsLive(t) => s = t
    /\ mgr.call # "none" => \A s \in SocketIds : ~ LineIsLive(s)

WatchInv == IsConnected => mgr.watch /\ mgr.attempts = 0

(* Where a connection is once the service has read what is on its way.     *)
WillBeIn(s) == IF posted[s] = <<>> THEN s \in rooms ELSE posted[s][Len(posted[s])] = "join_room"

MembershipInv ==
    /\ ~ page.tab => ~ page.joining
    /\ \A s \in SocketIds :
          /\ sock[s] \in {"none", "connecting"} => posted[s] = <<>> /\ s \notin rooms /\ page.on # s
          /\ sock[s] = "open" /\ page.joining /\ page.on = s => WillBeIn(s)
          /\ sock[s] = "open" /\ mgr.ws = s /\ ~ (page.joining /\ page.on = s) => ~ WillBeIn(s)

SocketInv == SocketTypeOK /\ LineInv /\ WatchInv /\ MembershipInv

LEMMA Ids == ASSUME SocketConstants PROVE SocketIds \subseteq 0..MaxSockets /\ 0 \notin SocketIds
BY DEF SocketConstants, SocketIds

LEMMA LowestIn == ASSUME SocketConstants, NEW S \in SUBSET SocketIds, S # {} PROVE Lowest(S) \in S
<1> DEFINE R == OpToRel(<, Nat)
<1>1. S \subseteq Nat
  BY DEF SocketIds, SocketConstants
<1>2. PICK x \in S : \A y \in S : <<y, x>> \notin R
  <2> HIDE DEF R
  <2>1. IsWellFoundedOn(R, Nat)
    BY NatLessThanWellFounded DEF R
  <2> QED BY <1>1, <2>1, WFMin, Zenon
<1>3. x \in S /\ \A y \in S : ~ (y < x)
  BY <1>1, <1>2 DEF OpToRel
<1>4. \A y \in S : x <= y
  BY <1>1, <1>3
<1> QED BY <1>3, <1>4 DEF Lowest

(* The manager's record after each of its handlers.                        *)
LEMMA ManagerFields ==
    ASSUME SocketConstants, NEW m \in Managers
    PROVE  LET opened == [m EXCEPT !.connecting = FALSE, !.should = TRUE, !.attempts = 0, !.watch = TRUE]
               closed == [m EXCEPT !.connecting = FALSE, !.watch = FALSE, !.ws = 0]
               again == [m EXCEPT !.attempts = 1, !.call = "timer", !.ws = 0, !.watch = FALSE,
                                  !.connecting = FALSE]
               given == [m EXCEPT !.ws = 0, !.watch = FALSE, !.connecting = FALSE]
           IN /\ opened \in Managers /\ opened.ws = m.ws /\ opened.call = m.call
              /\ opened.watch /\ opened.attempts = 0
              /\ closed \in Managers /\ closed.ws = 0 /\ closed.call = m.call
              /\ again \in Managers /\ again.ws = 0
              /\ given \in Managers /\ given.ws = 0
<1> DEFINE W == 0..MaxSockets
           A == 0..1
           C == {"none", "token", "timer"}
<1>1. /\ Managers = [ws : W, connecting : BOOLEAN, watch : BOOLEAN, should : BOOLEAN, attempts : A, call : C]
      /\ 0 \in W /\ 0 \in A /\ 1 \in A /\ "timer" \in C
  BY DEF Managers, SocketConstants
<1> HIDE DEF W, A, C
<1> QED BY <1>1

-----------------------------------------------------------------------------
(* Steps that leave the sockets and their rooms alone.                     *)
LEMMA CallStep ==
    ASSUME SocketConstants, SocketInv, NoToken \/ ReconnectTimer \/ OpenOffersTab \/ UNCHANGED socketVars
    PROVE  SocketInv'
<1>1. /\ UNCHANGED <<sock, posted, rooms>>
      /\ mgr' \in Managers /\ mgr'.ws = mgr.ws /\ mgr'.watch = mgr.watch /\ mgr'.attempts = mgr.attempts
      /\ mgr'.call # "none" => mgr.call # "none"
      /\ page' \in Pages /\ page'.joining = page.joining /\ page'.on = page.on
      /\ page'.joining => page'.tab
  <2>1. mgr \in Managers /\ page \in Pages /\ (page.joining => page.tab)
    BY DEF SocketInv, SocketTypeOK, MembershipInv, Managers, Pages
  <2>2. CASE NoToken
    <3>1. mgr.call = "token" /\ mgr' = [mgr EXCEPT !.call = "none"] /\ UNCHANGED <<sock, posted, rooms, page>>
      BY <2>2 DEF NoToken
    <3> QED BY <2>1, <3>1 DEF Managers
  <2>3. CASE ReconnectTimer
    <3>1. mgr.call = "timer" /\ mgr' = [mgr EXCEPT !.call = "token"] /\ UNCHANGED <<sock, posted, rooms, page>>
      BY <2>3 DEF ReconnectTimer
    <3> QED BY <2>1, <3>1 DEF Managers
  <2>4. CASE OpenOffersTab
    <3>1. /\ page.turns > 0 /\ ~ page.tab /\ UNCHANGED <<mgr, sock, posted, rooms>>
          /\ page' = [page EXCEPT !.tab = TRUE, !.turns = page.turns - 1]
      BY <2>4 DEF OpenOffersTab
    <3>2. page.turns - 1 \in 0..TabTurns
      BY <2>1, <3>1 DEF Pages, SocketConstants
    <3> QED BY <2>1, <3>1, <3>2 DEF Pages
  <2>5. CASE UNCHANGED socketVars
    BY <2>1, <2>5 DEF socketVars
  <2> QED BY <2>2, <2>3, <2>4, <2>5
<1>2. SocketTypeOK'
  BY <1>1 DEF SocketInv, SocketTypeOK, Managers, Pages
<1>3. LineInv' /\ WatchInv'
  BY <1>1 DEF SocketInv, LineInv, WatchInv, LineIsLive, IsConnected
<1>4. MembershipInv'
  BY <1>1 DEF SocketInv, MembershipInv, WillBeIn
<1> QED BY <1>2, <1>3, <1>4 DEF SocketInv

(* A new connection: none was left.                                        *)
LEMMA ConnectStep == ASSUME SocketConstants, SocketInv, Connect PROVE SocketInv'
<1>1. PICK s : s = Lowest(Unused)
  OBVIOUS
<1>2. /\ mgr.call = "token" /\ mgr.ws = 0 /\ Unused # {}
      /\ sock' = [sock EXCEPT ![s] = "connecting"]
      /\ mgr' = [mgr EXCEPT !.call = "none", !.connecting = TRUE, !.ws = s]
      /\ UNCHANGED <<posted, rooms, page>>
  BY <1>1 DEF Connect
<1>3. s \in SocketIds /\ sock[s] = "none"
  <2>1. Unused \in SUBSET SocketIds
    BY DEF Unused
  <2>2. s \in Unused
    BY <1>1, <1>2, <2>1, LowestIn
  <2> QED BY <2>2 DEF Unused
<1>4. /\ sock \in [SocketIds -> SocketStates] /\ mgr \in Managers
      /\ \A t \in SocketIds : ~ LineIsLive(t)
      /\ posted[s] = <<>> /\ s \notin rooms
  BY <1>2, <1>3 DEF SocketInv, SocketTypeOK, LineInv, MembershipInv, SocketStates, Managers
<1>5. /\ sock'[s] = "connecting" /\ \A t \in SocketIds : t # s => sock'[t] = sock[t]
      /\ sock' \in [SocketIds -> SocketStates]
      /\ mgr' \in Managers /\ mgr'.call = "none" /\ mgr'.ws = s
  <2>1. s \in 0..MaxSockets
    BY <1>3, Ids
  <2> QED BY <1>2, <1>3, <1>4, <2>1 DEF SocketStates, Managers
<1>6. SocketTypeOK'
  BY <1>2, <1>5 DEF SocketInv, SocketTypeOK, SocketStates, Managers
<1>7. LineInv' /\ WatchInv'
  BY <1>3, <1>4, <1>5 DEF LineInv, WatchInv, LineIsLive, IsConnected
<1>8. MembershipInv'
  BY <1>2, <1>3, <1>4, <1>5 DEF SocketInv, MembershipInv, WillBeIn
<1> QED BY <1>6, <1>7, <1>8 DEF SocketInv

LEMMA OpenStep == ASSUME SocketConstants, SocketInv, NEW s \in SocketIds, OnOpen(s) PROVE SocketInv'
<1>1. /\ sock[s] = "connecting" /\ sock' = [sock EXCEPT ![s] = "open"]
      /\ mgr' = [mgr EXCEPT !.connecting = FALSE, !.should = TRUE, !.attempts = 0, !.watch = TRUE]
      /\ UNCHANGED <<posted, rooms, page>>
  BY DEF OnOpen
<1>2. sock \in [SocketIds -> SocketStates] /\ mgr \in Managers
  BY DEF SocketInv, SocketTypeOK, SocketStates, Managers
<1>3. /\ sock'[s] = "open" /\ \A t \in SocketIds : t # s => sock'[t] = sock[t]
      /\ sock' \in [SocketIds -> SocketStates]
  BY <1>1, <1>2 DEF SocketStates
<1>4. mgr' \in Managers /\ mgr'.ws = mgr.ws /\ mgr'.call = mgr.call /\ mgr'.watch /\ mgr'.attempts = 0
  <2> DEFINE m == [mgr EXCEPT !.connecting = FALSE, !.should = TRUE, !.attempts = 0, !.watch = TRUE]
  <2>1. m \in Managers /\ m.ws = mgr.ws /\ m.call = mgr.call /\ m.watch /\ m.attempts = 0
    BY <1>2, ManagerFields, Zenon
  <2> QED BY <1>1, <2>1
<1>5. SocketTypeOK'
  BY <1>1, <1>3, <1>4 DEF SocketInv, SocketTypeOK, SocketStates, Managers
<1>6. LineInv' /\ WatchInv'
  BY <1>1, <1>3, <1>4 DEF SocketInv, LineInv, WatchInv, LineIsLive
<1>7. posted[s] = <<>> /\ s \notin rooms /\ ~ (page.joining /\ page.on = s)
  BY <1>1 DEF SocketInv, MembershipInv
<1>8. MembershipInv'
  BY <1>1, <1>3, <1>4, <1>7 DEF SocketInv, MembershipInv, WillBeIn
<1> QED BY <1>5, <1>6, <1>8 DEF SocketInv

LEMMA CloseStep == ASSUME SocketConstants, SocketInv, NEW s \in SocketIds, OnClose(s) PROVE SocketInv'
<1>1. /\ sock[s] \in {"connecting", "open", "closing"} /\ sock' = [sock EXCEPT ![s] = "closed"]
      /\ posted' = [posted EXCEPT ![s] = <<>>] /\ rooms' = rooms \ {s}
      /\ mgr' = [mgr EXCEPT !.connecting = FALSE, !.watch = FALSE, !.ws = 0] /\ UNCHANGED page
  BY DEF OnClose
<1>2. sock \in [SocketIds -> SocketStates] /\ mgr \in Managers
  BY DEF SocketInv, SocketTypeOK, SocketStates, Managers
<1>3. /\ sock'[s] = "closed" /\ \A t \in SocketIds : t # s => sock'[t] = sock[t] /\ posted'[t] = posted[t]
      /\ sock' \in [SocketIds -> SocketStates]
  BY <1>1, <1>2 DEF SocketStates, SocketInv, SocketTypeOK
<1>4. mgr' \in Managers /\ mgr'.ws = 0 /\ mgr'.call = mgr.call
  <2> DEFINE m == [mgr EXCEPT !.connecting = FALSE, !.watch = FALSE, !.ws = 0]
  <2>1. m \in Managers /\ m.ws = 0 /\ m.call = mgr.call
    BY <1>2, ManagerFields, Zenon
  <2> QED BY <1>1, <2>1
<1>5. SocketTypeOK'
  <2>1. posted' \in [SocketIds -> Seq(RoomMessages)]
    BY <1>1 DEF SocketInv, SocketTypeOK, RoomMessages
  <2> QED BY <1>1, <1>3, <1>4, <2>1 DEF SocketInv, SocketTypeOK, SocketStates, Managers, RoomMessages
<1>6. LineInv' /\ WatchInv'
  BY <1>1, <1>3, <1>4 DEF SocketInv, LineInv, WatchInv, LineIsLive, IsConnected
<1>7. MembershipInv'
  BY <1>1, <1>3, <1>4, Ids DEF SocketInv, MembershipInv, WillBeIn
<1> QED BY <1>5, <1>6, <1>7 DEF SocketInv

LEMMA ReconnectStep == ASSUME SocketConstants, SocketInv, ForceReconnect PROVE SocketInv'
<1>1. PICK s : s = mgr.ws
  OBVIOUS
<1>2. /\ mgr.watch /\ s # 0 /\ sock[s] = "open" /\ sock' = [sock EXCEPT ![s] = "closing"]
      /\ mgr' = AttemptReconnect /\ UNCHANGED <<posted, rooms, page>>
  BY <1>1 DEF ForceReconnect, IsConnected
<1>3. sock \in [SocketIds -> SocketStates] /\ mgr \in Managers /\ s \in SocketIds /\ mgr.attempts = 0
  <2>1. s \in 0..MaxSockets /\ s # 0
    BY <1>1, <1>2 DEF SocketInv, SocketTypeOK, Managers
  <2>2. s \in SocketIds
    BY <2>1 DEF SocketIds, SocketConstants
  <2> QED BY <1>1, <1>2, <2>2 DEF SocketInv, SocketTypeOK, WatchInv, IsConnected, SocketStates, Managers
<1>4. /\ sock'[s] = "closing" /\ \A t \in SocketIds : t # s => sock'[t] = sock[t]
      /\ sock' \in [SocketIds -> SocketStates]
  BY <1>2, <1>3 DEF SocketStates
<1>5. mgr' \in Managers /\ mgr'.ws = 0
  <2> DEFINE again == [mgr EXCEPT !.attempts = 1, !.call = "timer", !.ws = 0, !.watch = FALSE,
                                  !.connecting = FALSE]
             given == [mgr EXCEPT !.ws = 0, !.watch = FALSE, !.connecting = FALSE]
  <2>1. again \in Managers /\ again.ws = 0 /\ given \in Managers /\ given.ws = 0
    BY <1>3, ManagerFields, Zenon
  <2>2. mgr' = again \/ mgr' = given
    BY <1>2, <1>3 DEF AttemptReconnect
  <2> QED BY <2>1, <2>2
<1>6. \A t \in SocketIds : ~ LineIsLive(t)'
  BY <1>2, <1>3, <1>4 DEF SocketInv, LineInv, LineIsLive
<1>7. SocketTypeOK'
  BY <1>2, <1>4, <1>5 DEF SocketInv, SocketTypeOK, SocketStates, Managers
<1>8. LineInv' /\ WatchInv'
  BY <1>5, <1>6 DEF LineInv, WatchInv, IsConnected
<1>9. MembershipInv'
  BY <1>2, <1>3, <1>4, <1>5, Ids DEF SocketInv, MembershipInv, WillBeIn
<1> QED BY <1>7, <1>8, <1>9 DEF SocketInv

-----------------------------------------------------------------------------
(* The room: a message goes out on the manager's connection only, and the   *)
(* service reads the messages of a connection in their order.               *)

LEMMA SentIsLast ==
    ASSUME SocketTypeOK, NEW s \in SocketIds, NEW k \in RoomMessages,
           posted' = [posted EXCEPT ![s] = Append(posted[s], k)], UNCHANGED rooms
    PROVE  /\ posted' \in [SocketIds -> Seq(RoomMessages)]
           /\ WillBeIn(s)' <=> k = "join_room"
           /\ \A t \in SocketIds : t # s => posted'[t] = posted[t] /\ (WillBeIn(t)' <=> WillBeIn(t))
<1>1. posted \in [SocketIds -> Seq(RoomMessages)]
  BY DEF SocketTypeOK, RoomMessages
<1>2. posted[s] \in Seq(RoomMessages)
  BY <1>1
<1>3. /\ Append(posted[s], k) \in Seq(RoomMessages) /\ Append(posted[s], k) # <<>>
      /\ Append(posted[s], k)[Len(Append(posted[s], k))] = k
  BY <1>2
<1>4. posted'[s] = Append(posted[s], k) /\ \A t \in SocketIds : t # s => posted'[t] = posted[t]
  BY <1>1
<1>5. posted' \in [SocketIds -> Seq(RoomMessages)]
  BY <1>1, <1>3
<1>6. WillBeIn(s)' <=> k = "join_room"
  BY <1>3, <1>4 DEF WillBeIn
<1>7. \A t \in SocketIds : t # s => (WillBeIn(t)' <=> WillBeIn(t))
  BY <1>4 DEF WillBeIn
<1> QED BY <1>4, <1>5, <1>6, <1>7

LEMMA JoinStep == ASSUME SocketConstants, SocketInv, DoJoin PROVE SocketInv'
<1>1. PICK s : s = mgr.ws
  OBVIOUS
<1>2. /\ page.tab /\ ~ page.joining /\ s # 0 /\ sock[s] = "open"
      /\ posted' = [posted EXCEPT ![s] = Append(posted[s], "join_room")]
      /\ page' = [page EXCEPT !.joining = TRUE, !.on = s] /\ UNCHANGED <<mgr, sock, rooms>>
  BY <1>1 DEF DoJoin, IsConnected, SendRaw
<1>3. s \in SocketIds /\ s \in 0..MaxSockets
  BY <1>1, <1>2 DEF SocketInv, SocketTypeOK, SocketIds, SocketConstants
<1>4. /\ posted' \in [SocketIds -> Seq(RoomMessages)] /\ WillBeIn(s)'
      /\ \A t \in SocketIds : t # s => posted'[t] = posted[t]
  BY <1>2, <1>3, SentIsLast DEF SocketInv, RoomMessages
<1>5. page' \in Pages /\ page'.joining /\ page'.on = s /\ page'.tab
  <2> DEFINE W == 0..MaxSockets
             T == 0..TabTurns
  <2>1. page \in [tab : BOOLEAN, joining : BOOLEAN, on : W, turns : T] /\ s \in W
    BY <1>3 DEF SocketInv, SocketTypeOK
  <2> HIDE DEF W, T
  <2>2. /\ page' \in [tab : BOOLEAN, joining : BOOLEAN, on : W, turns : T]
        /\ page'.joining /\ page'.on = s /\ page'.tab
    BY <1>2, <2>1
  <2> QED BY <2>2 DEF W, T, Pages
<1>6. SocketTypeOK'
  BY <1>2, <1>4, <1>5 DEF SocketInv, SocketTypeOK, Pages, RoomMessages
<1>7. LineInv' /\ WatchInv'
  BY <1>2 DEF SocketInv, LineInv, WatchInv, LineIsLive, IsConnected
<1>8. MembershipInv'
  BY <1>1, <1>2, <1>3, <1>4, <1>5 DEF SocketInv, MembershipInv
<1> QED BY <1>6, <1>7, <1>8 DEF SocketInv

LEMMA LeaveStep == ASSUME SocketConstants, SocketInv, DoLeave PROVE SocketInv'
<1>1. /\ page.tab /\ page.turns > 0 /\ page' = [page EXCEPT !.tab = FALSE, !.joining = FALSE, !.turns = page.turns - 1]
      /\ posted' = IF page.joining THEN SendRaw(posted, "leave_room") ELSE posted
      /\ UNCHANGED <<mgr, sock, rooms>>
  BY DEF DoLeave
<1>2. page' \in Pages /\ ~ page'.joining /\ ~ page'.tab /\ page'.on = page.on
  <2> DEFINE W == 0..MaxSockets
             T == 0..TabTurns
  <2>1. page \in [tab : BOOLEAN, joining : BOOLEAN, on : W, turns : T] /\ page.turns - 1 \in T
    BY <1>1 DEF SocketInv, SocketTypeOK, SocketConstants
  <2> HIDE DEF W, T
  <2>2. /\ page' \in [tab : BOOLEAN, joining : BOOLEAN, on : W, turns : T]
        /\ ~ page'.joining /\ ~ page'.tab /\ page'.on = page.on
    BY <1>1, <2>1
  <2> QED BY <2>2 DEF W, T, Pages
<1>3. LineInv' /\ WatchInv'
  BY <1>1 DEF SocketInv, LineInv, WatchInv, LineIsLive, IsConnected
<1>4. CASE page.joining /\ IsConnected
  <2>1. PICK s : s = mgr.ws
    OBVIOUS
  <2>2. s # 0 /\ sock[s] = "open" /\ posted' = [posted EXCEPT ![s] = Append(posted[s], "leave_room")]
    BY <1>1, <1>4, <2>1 DEF IsConnected, SendRaw
  <2>3. s \in SocketIds
    BY <2>1, <2>2 DEF SocketInv, SocketTypeOK, SocketIds, SocketConstants
  <2>4. /\ posted' \in [SocketIds -> Seq(RoomMessages)] /\ ~ WillBeIn(s)'
        /\ \A t \in SocketIds : t # s => posted'[t] = posted[t]
    BY <1>1, <2>2, <2>3, SentIsLast DEF SocketInv, RoomMessages
  <2>5. SocketTypeOK'
    BY <1>1, <1>2, <2>4 DEF SocketInv, SocketTypeOK, Pages, RoomMessages
  <2>6. MembershipInv'
    BY <1>1, <1>2, <2>1, <2>2, <2>3, <2>4 DEF SocketInv, MembershipInv
  <2> QED BY <1>3, <2>5, <2>6 DEF SocketInv
<1>5. CASE ~ (page.joining /\ IsConnected)
  <2>1. posted' = posted
    BY <1>1, <1>5 DEF SendRaw
  <2>2. SocketTypeOK'
    BY <1>1, <1>2, <2>1 DEF SocketInv, SocketTypeOK, Pages
  <2>3. ASSUME NEW s \in SocketIds, sock[s] = "open", mgr.ws = s PROVE ~ WillBeIn(s)
    <3>1. IsConnected
      BY <2>3, Ids DEF IsConnected
    <3> QED BY <1>5, <2>3, <3>1 DEF SocketInv, MembershipInv
  <2>4. \A s \in SocketIds : WillBeIn(s)' <=> WillBeIn(s)
    BY <1>1, <2>1 DEF WillBeIn
  <2>5. MembershipInv'
    BY <1>1, <1>2, <2>1, <2>3, <2>4 DEF SocketInv, MembershipInv
  <2> QED BY <1>3, <2>2, <2>5 DEF SocketInv
<1> QED BY <1>4, <1>5

LEMMA HandleStep == ASSUME SocketConstants, SocketInv, NEW s \in SocketIds, HandleWS(s) PROVE SocketInv'
<1>1. /\ posted[s] # <<>> /\ sock[s] \in {"open", "closing"}
      /\ posted' = [posted EXCEPT ![s] = Tail(posted[s])]
      /\ rooms' = IF Head(posted[s]) = "join_room" THEN rooms \cup {s} ELSE rooms \ {s}
      /\ UNCHANGED <<mgr, sock, page>>
  BY DEF HandleWS
<1>2. posted \in [SocketIds -> Seq(RoomMessages)]
  BY DEF SocketInv, SocketTypeOK, RoomMessages
<1>3. PICK q : q = posted[s]
  OBVIOUS
<1>4. /\ q \in Seq(RoomMessages) /\ q # <<>> /\ Tail(q) \in Seq(RoomMessages)
      /\ Tail(q) = <<>> => Head(q) = q[Len(q)]
      /\ Tail(q) # <<>> => Tail(q)[Len(Tail(q))] = q[Len(q)]
  <2>1. q \in Seq(RoomMessages) /\ q # <<>>
    BY <1>1, <1>2, <1>3
  <2>2. Tail(q) \in Seq(RoomMessages) /\ Len(Tail(q)) = Len(q) - 1 /\ Len(q) >= 1 /\ Head(q) = q[1]
    BY <2>1
  <2>3. Tail(q) = <<>> => Len(q) = 1
    BY <2>2
  <2>4. Tail(q) # <<>> => Len(Tail(q)) >= 1
    BY <2>2
  <2>5. \A i \in 1..Len(Tail(q)) : Tail(q)[i] = q[i + 1]
    BY <2>1, <2>2
  <2> QED BY <2>5, <2>1, <2>2, <2>3, <2>4
<1>5. /\ posted'[s] = Tail(q) /\ \A t \in SocketIds : t # s => posted'[t] = posted[t]
      /\ posted' \in [SocketIds -> Seq(RoomMessages)]
  BY <1>1, <1>2, <1>3, <1>4
<1>6. \A t \in SocketIds : WillBeIn(t)' <=> WillBeIn(t)
  <2>1. ASSUME NEW t \in SocketIds, t # s PROVE WillBeIn(t)' <=> WillBeIn(t)
    <3>1. t \in rooms' <=> t \in rooms
      BY <1>1, <2>1
    <3> QED BY <1>5, <2>1, <3>1 DEF WillBeIn
  <2>2. WillBeIn(s)' <=> WillBeIn(s)
    <3>1. s \in rooms' <=> Head(q) = "join_room"
      BY <1>1, <1>3
    <3> QED BY <1>3, <1>4, <1>5, <3>1 DEF WillBeIn
  <2> QED BY <2>1, <2>2
<1>7. SocketTypeOK'
  BY <1>1, <1>5 DEF SocketInv, SocketTypeOK, RoomMessages
<1>8. LineInv' /\ WatchInv'
  BY <1>1 DEF SocketInv, LineInv, WatchInv, LineIsLive, IsConnected
<1>9. MembershipInv'
  BY <1>1, <1>5, <1>6 DEF SocketInv, MembershipInv
<1> QED BY <1>7, <1>8, <1>9 DEF SocketInv

-----------------------------------------------------------------------------
LEMMA SocketStart == ASSUME SocketConstants, SocketInit PROVE SocketInv
<1>1. SocketTypeOK
  BY DEF SocketConstants, SocketInit, SocketTypeOK, NewManager
<1>2. LineInv /\ WatchInv /\ MembershipInv
  BY Ids DEF SocketInit, LineInv, WatchInv, MembershipInv, LineIsLive, IsConnected, NewManager
<1> QED BY <1>1, <1>2 DEF SocketInv

(* The inductive invariant: a connection is asked for only when none is    *)
(* left, and what a connection is told last is what the page shows.        *)
THEOREM SocketAlways == SocketSpec => []SocketInv
<1>1. SocketInit => SocketInv
  BY SocketConstants, SocketStart
<1>2. SocketInv /\ [SocketNext]_socketVars => SocketInv'
  BY SocketConstants, CallStep, ConnectStep, OpenStep, CloseStep, ReconnectStep, JoinStep, LeaveStep,
     HandleStep DEF SocketNext
<1> QED BY <1>1, <1>2, PTL DEF SocketSpec

(* Types of the manager, the sockets, the rooms and the page; the count of  *)
(* attempts does not get past one.                                         *)
THEOREM SocketTypeCorrect == SocketSpec => []SocketTypeOK
<1>1. SocketInv => SocketTypeOK
  BY DEF SocketInv
<1> QED BY <1>1, SocketAlways, PTL

(* A tab has one connection that delivers, however late the close of an    *)
(* old one is reported.                                                    *)
THEOREM OneConnection == SocketSpec => []OneLine
<1>1. ASSUME SocketInv PROVE OneLine
  <2> DEFINE L == {s \in SocketIds : sock[s] \in {"connecting", "open"}}
  <2>1. L = {} \/ \E s \in SocketIds : L = {s}
    BY <1>1 DEF SocketInv, LineInv, LineIsLive
  <2>2. Cardinality({}) = 0 /\ \A s : Cardinality({s}) = 1
    BY FS_EmptySet, FS_Singleton
  <2>3. Cardinality(L) \in {0, 1}
    BY <2>1, <2>2
  <2> QED BY <2>3 DEF OneLine
<1> QED BY <1>1, SocketAlways, PTL

(* The connection the manager has is watched.                              *)
THEOREM ManagedIsWatched == SocketSpec => []WatchedWhileManaged
<1>1. SocketInv => WatchedWhileManaged
  BY DEF SocketInv, WatchInv, WatchedWhileManaged
<1> QED BY <1>1, SocketAlways, PTL

(* The connection is in the room exactly while the offers are shown.       *)
THEOREM RoomFollows == SocketSpec => []RoomFollowsTheTab
<1>1. SocketInv => RoomFollowsTheTab
  BY DEF SocketInv, MembershipInv, WillBeIn, RoomFollowsTheTab
<1> QED BY <1>1, SocketAlways, PTL

(* The manager has the socket in hand, for any number of sockets and turns *)
(* of the tab.                                                             *)
THEOREM Managed == SocketSpec => []SocketIsManaged
<1>1. OneLine /\ WatchedWhileManaged /\ RoomFollowsTheTab => SocketIsManaged
  BY DEF SocketIsManaged
<1> QED BY <1>1, OneConnection, ManagedIsWatched, RoomFollows, PTL

-----------------------------------------------------------------------------
(* The pages of the room as one.                                            *)

(* A step of the pages is a step of each part or leaves it as it is.        *)
LEMMA StepOfParts ==
    ASSUME [RoomPagesNext]_roomPagesVars
    PROVE  /\ [RoomNext]_roomVars /\ [ComposerNext]_composerVars /\ [ChatNext]_chatVars
           /\ [SocketNext]_socketVars /\ [AccountsNext]_accountVars /\ [EscrowNext]_escrowVars
<1>1. CASE UNCHANGED roomPagesVars
  BY <1>1 DEF roomPagesVars
<1>2. CASE OfRoom /\ UNCHANGED <<composerVars, chatVars, socketVars>>
  BY <1>2 DEF OfRoom
<1>3. CASE OfChat /\ UNCHANGED <<roomVars, accountVars, escrowVars>>
  BY <1>3 DEF OfChat
<1> QED BY <1>1, <1>2, <1>3 DEF RoomPagesNext

(* Each part behaves on the page as it does by itself.                      *)
THEOREM PartsOfThePages ==
    RoomPagesSpec => RoomSpec /\ ComposerSpec /\ ChatSpec /\ SocketSpec /\ AccountsSpec /\ EscrowSpec
<1>1. RoomPagesInit => RoomInit /\ ComposerInit /\ ChatInit /\ SocketInit /\ AccountsInit /\ EscrowInit
  BY DEF RoomPagesInit
<1>2. [RoomPagesNext]_roomPagesVars
        => /\ [RoomNext]_roomVars /\ [ComposerNext]_composerVars /\ [ChatNext]_chatVars
           /\ [SocketNext]_socketVars /\ [AccountsNext]_accountVars /\ [EscrowNext]_escrowVars
  BY StepOfParts
<1> QED BY <1>1, <1>2, PTL
        DEF RoomPagesSpec, RoomSpec, ComposerSpec, ChatSpec, SocketSpec, AccountsSpec, EscrowSpec

(* The state of every part is of its type, for every value of the constants.*)
THEOREM RoomPagesTypeCorrect == RoomPagesSpec => []RoomPagesTypeOK
<1>1. /\ RoomTypeOK /\ ComposerTypeOK /\ ChatTypeOK /\ SocketTypeOK /\ AccountsTypeOK /\ EscrowTypeOK
      => RoomPagesTypeOK
  BY DEF RoomPagesTypeOK
<1> QED BY <1>1, PartsOfThePages, RoomTypeCorrect, ComposerTypeCorrect, ChatTypeCorrect, SocketTypeCorrect,
           AccountsTypeCorrect, EscrowTypeCorrect, PTL

(* What the run checks of the pages: the room is honest with both parties,  *)
(* nothing written is lost or delivered twice, the chat is of the order on  *)
(* the page, the socket is managed, the accounts agree with their table,    *)
(* and a promise to the escrow is kept once.                                *)
THEOREM RoomPagesAreSound ==
    RoomPagesSpec => [](/\ RoomIsHonest /\ NothingWrittenIsLost /\ ChatIsOfTheRoom
                        /\ SocketIsManaged /\ AccountsAgree /\ PromisesAreTransferred)
<1> QED BY PartsOfThePages, RoomHonestAlways, NothingIsLostOnItsWay, ChatAlwaysOfTheRoom, Managed,
           AccountsAlwaysAgree, PromisesKept, PTL
=============================================================================
