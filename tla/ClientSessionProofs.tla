------------------------ MODULE ClientSessionProofs ------------------------
(* Theorems about ClientSession, for every set of pages, users and calls.   *)
EXTENDS ClientSession, SumTheorems

(* The rows of the state.                                                   *)
StoreRow == [token : 0..MaxPairs, user : Owners, light : Owners, zk : Owners]
PageRow == [at : Phases, code : Owners, user : Owners, light : Owners, zk : Owners]
RefreshRow == [st : {"none", "sent", "answered", "refused", "lost"}, token : 0..MaxPairs]
CallRow == [page : Pages \cup {None},
            st : {"idle", "held", "sent", "denied", "retrying", "failed"},
            token : 0..MaxPairs, retried : BOOLEAN, stray : BOOLEAN, tries : 0..1]
PairRow == [owner : Owners, live : BOOLEAN, next : 0..MaxPairs, replay : BOOLEAN]

LEMMA TypeRows ==
    TypeOK <=> /\ store \in StoreRow
               /\ cookie \in Pages \cup {None}
               /\ page \in [Pages -> PageRow]
               /\ refresh \in [Pages -> RefreshRow]
               /\ call \in [Calls -> CallRow]
               /\ pair \in [Pairs -> PairRow]
               /\ leaving \subseteq Pairs
               /\ crossed \in BOOLEAN
               /\ clicks \in 0..MaxClicks
BY DEF TypeOK, StoreRow, PageRow, RefreshRow, CallRow, PairRow

(* The rows that the actions write.                                         *)
LEMMA RowsIntro ==
    /\ 0 \in 0..MaxPairs /\ Pairs \subseteq 0..MaxPairs
    /\ EmptyStore \in StoreRow /\ SignedOut \in PageRow /\ NoRefresh \in RefreshRow
    /\ NoCall \in CallRow /\ Unissued \in PairRow
    /\ \A st \in {"none", "sent", "answered", "refused", "lost"}, g \in 0..MaxPairs :
          [st |-> st, token |-> g] \in RefreshRow
<1>1. MaxPairs \in Nat
  BY SessionConstants DEF SessionConstants
<1>2. 0 \in 0..MaxPairs /\ Pairs \subseteq 0..MaxPairs
  BY <1>1 DEF Pairs
<1> QED BY <1>2 DEF EmptyStore, SignedOut, NoRefresh, NoCall, Unissued, StoreRow, PageRow,
        RefreshRow, CallRow, PairRow, Owners, Phases

LEMMA IssuedRow ==
    ASSUME NEW u \in Owners
    PROVE  [Unissued EXCEPT !.owner = u, !.live = TRUE] \in PairRow
<1>1. 0 \in 0..MaxPairs
  BY RowsIntro
<1> QED BY <1>1 DEF Unissued, PairRow

LEMMA PairUpdates ==
    ASSUME NEW r \in PairRow, NEW n \in 0..MaxPairs
    PROVE  /\ [r EXCEPT !.live = FALSE] \in PairRow
           /\ [r EXCEPT !.replay = FALSE] \in PairRow
           /\ [r EXCEPT !.live = FALSE, !.next = n, !.replay = TRUE] \in PairRow
BY DEF PairRow

LEMMA CallUpdates ==
    ASSUME NEW k \in CallRow, NEW st \in {"idle", "held", "sent", "denied", "retrying", "failed"},
           NEW g \in 0..MaxPairs, NEW b \in BOOLEAN, NEW d \in BOOLEAN
    PROVE  /\ [k EXCEPT !.st = st] \in CallRow
           /\ [k EXCEPT !.st = st, !.token = g] \in CallRow
           /\ [k EXCEPT !.st = st, !.retried = b] \in CallRow
           /\ [k EXCEPT !.st = st, !.retried = b, !.stray = d] \in CallRow
BY DEF CallRow

LEMMA StoreUpdates ==
    ASSUME NEW g \in 0..MaxPairs, NEW u \in Owners, store \in StoreRow
    PROVE  /\ [store EXCEPT !.token = g] \in StoreRow
           /\ [store EXCEPT !.token = g, !.user = u] \in StoreRow
           /\ [store EXCEPT !.light = u] \in StoreRow
           /\ [store EXCEPT !.zk = u] \in StoreRow
BY DEF StoreRow

LEMMA PageUpdates ==
    ASSUME NEW r \in PageRow, NEW at \in Phases, NEW u \in Owners
    PROVE  /\ [r EXCEPT !.user = None, !.light = None, !.zk = None] \in PageRow
           /\ [r EXCEPT !.at = at, !.user = u] \in PageRow
           /\ [r EXCEPT !.at = at, !.light = u] \in PageRow
           /\ [r EXCEPT !.at = at] \in PageRow
           /\ [r EXCEPT !.at = at, !.code = None] \in PageRow
           /\ [r EXCEPT !.at = at, !.code = None, !.zk = u] \in PageRow
           /\ [SignedOut EXCEPT !.at = at] \in PageRow
           /\ [SignedOut EXCEPT !.code = u] \in PageRow
BY DEF PageRow, Owners, SignedOut, Phases

LEMMA SentType ==
    ASSUME TypeOK, NEW t \in Pages, NEW n \in 0..1
    PROVE  Sent(t, n) \in CallRow
<1>1. store.token \in 0..MaxPairs
  BY TypeRows DEF StoreRow
<1> QED BY <1>1, RowsIntro DEF Sent, NoCall, CallRow

LEMMA JoinedType ==
    ASSUME TypeOK, NEW t, NEW g \in 0..MaxPairs
    PROVE  JoinedRefresh(t, g) \in [Pages -> RefreshRow]
<1>1. refresh \in [Pages -> RefreshRow] /\ [st |-> "sent", token |-> g] \in RefreshRow
  BY TypeRows, RowsIntro
<1> QED BY <1>1 DEF JoinedRefresh

LEMMA ResetType ==
    ASSUME TypeOK, NEW t \in Pages, ResetSession(t)
    PROVE  store' \in StoreRow /\ page' \in [Pages -> PageRow]
<1>1. page \in [Pages -> PageRow] /\ EmptyStore \in StoreRow
  BY TypeRows, RowsIntro
<1>2. page' = [page EXCEPT ![t] = [page[t] EXCEPT !.user = None, !.light = None, !.zk = None]]
  BY <1>1 DEF ResetSession
<1>3. "out" \in Phases /\ None \in Owners
  BY DEF Phases, Owners
<1>4. [page[t] EXCEPT !.user = None, !.light = None, !.zk = None] \in PageRow
  BY <1>1, <1>3, PageUpdates
<1> QED BY <1>1, <1>2, <1>4 DEF ResetSession

LEMMA LoadedType ==
    ASSUME TypeOK, NEW t \in Pages, NEW u \in Owners, Loaded(t, u)
    PROVE  /\ page' \in [Pages -> PageRow]
           /\ refresh' \in [Pages -> RefreshRow]
           /\ call' \in [Calls -> CallRow]
<1> DEFINE restored == store.user # None /\ store.token # 0
<1>1. /\ store \in StoreRow /\ page \in [Pages -> PageRow] /\ refresh \in [Pages -> RefreshRow]
      /\ call \in [Calls -> CallRow]
  BY TypeRows
<1>2. store.token \in 0..MaxPairs /\ {store.user, store.light, store.zk} \subseteq Owners
      /\ None \in Owners
  BY <1>1 DEF StoreRow, Owners
<1>3. call' \in [Calls -> CallRow]
  BY <1>1, RowsIntro DEF Loaded, Unloaded
<1>4. refresh' \in [Pages -> RefreshRow]
  <2>1. [st |-> "sent", token |-> store.token] \in RefreshRow /\ NoRefresh \in RefreshRow
    BY <1>2, RowsIntro
  <2> QED BY <1>1, <2>1 DEF Loaded
<1>5. page' \in [Pages -> PageRow]
  <2> DEFINE r == [at |-> IF ~restored /\ u # None THEN "code" ELSE "out",
                   code |-> u,
                   user |-> IF restored THEN store.user ELSE None,
                   light |-> store.light,
                   zk |-> IF restored THEN store.zk ELSE None]
  <2>1. r \in PageRow
    BY <1>2 DEF PageRow, Phases
  <2>2. page' = [page EXCEPT ![t] = r]
    BY DEF Loaded
  <2> HIDE DEF r
  <2> QED BY <1>1, <2>1, <2>2
<1> QED BY <1>3, <1>4, <1>5

-----------------------------------------------------------------------------
(* Every step keeps the types.                                               *)
LEMMA ServiceTypes == TypeOK /\ ServiceSteps => TypeOK'
<1> SUFFICES ASSUME TypeOK, ServiceSteps PROVE TypeOK'
  OBVIOUS
<1>0. /\ refresh \in [Pages -> RefreshRow] /\ pair \in [Pairs -> PairRow]
      /\ \A t \in Pages : refresh[t].token \in 0..MaxPairs
      /\ \A g \in Pairs : pair[g].next \in 0..MaxPairs /\ pair[g].owner \in Owners
  BY TypeRows DEF RefreshRow, PairRow
<1>1. ASSUME NEW t \in Pages, RefreshHandler(t) PROVE TypeOK'
  <2> DEFINE g == refresh[t].token
  <2>1. /\ UNCHANGED <<store, cookie, page, call, leaving, crossed, clicks>>
        /\ \/ /\ g # 0 /\ refresh' = [refresh EXCEPT ![t] = [st |-> "answered", token |-> pair[g].next]]
              /\ UNCHANGED pair
           \/ /\ g # 0
              /\ \E n \in NextPair :
                    /\ pair' = Rotated(g, n)
                    /\ refresh' = [refresh EXCEPT ![t] = [st |-> "answered", token |-> n]]
           \/ refresh' = [refresh EXCEPT ![t].st = "refused"] /\ UNCHANGED pair
    BY <1>1 DEF RefreshHandler
  <2>2. g # 0 => g \in Pairs
    BY <1>0 DEF Pairs
  <2>3. CASE g # 0 /\ refresh' = [refresh EXCEPT ![t] = [st |-> "answered", token |-> pair[g].next]]
             /\ UNCHANGED pair
    <3>1. [st |-> "answered", token |-> pair[g].next] \in RefreshRow
      BY <1>0, <2>2, <2>3, RowsIntro
    <3>2. refresh' \in [Pages -> RefreshRow]
      BY <1>0, <2>3, <3>1
    <3> QED BY <2>1, <2>3, <3>2, TypeRows DEF TypeOK, RefreshRow
  <2>4. ASSUME NEW n \in NextPair, g # 0,
               pair' = Rotated(g, n),
               refresh' = [refresh EXCEPT ![t] = [st |-> "answered", token |-> n]]
        PROVE  TypeOK'
    <3>1. n \in Pairs /\ n \in 0..MaxPairs
      BY RowsIntro DEF NextPair
    <3>2. refresh' \in [Pages -> RefreshRow]
      BY <1>0, <2>4, <3>1, RowsIntro
    <3>3. Issued(n, pair[g].owner) \in [Pairs -> PairRow]
      BY <1>0, <2>2, <2>4, <3>1, IssuedRow DEF Issued
    <3>4. pair' \in [Pairs -> PairRow]
      <4> DEFINE p == Issued(n, pair[g].owner)
      <4>1. p \in [Pairs -> PairRow] /\ pair' = [p EXCEPT ![g].live = FALSE, ![g].next = n, ![g].replay = TRUE]
        BY <2>4, <3>3 DEF Rotated
      <4> HIDE DEF p
      <4>2. pair' = [p EXCEPT ![g] = [p[g] EXCEPT !.live = FALSE, !.next = n, !.replay = TRUE]]
        BY <4>1, <2>2, <2>4
      <4>3. [p[g] EXCEPT !.live = FALSE, !.next = n, !.replay = TRUE] \in PairRow
        BY <4>1, <2>2, <2>4, <3>1, PairUpdates
      <4> QED BY <4>1, <4>2, <4>3
    <3> QED BY <2>1, <3>2, <3>4, TypeRows DEF TypeOK, RefreshRow, PairRow
  <2>5. CASE refresh' = [refresh EXCEPT ![t].st = "refused"] /\ UNCHANGED pair
    <3>1. refresh' \in [Pages -> RefreshRow]
      BY <1>0, <2>5 DEF RefreshRow
    <3> QED BY <2>1, <2>5, <3>1 DEF TypeOK, RefreshRow
  <2> QED BY <2>1, <2>3, <2>4, <2>5
<1>2. ASSUME NEW t \in Pages, RefreshLost(t) PROVE TypeOK'
  <2>1. refresh' \in [Pages -> RefreshRow]
    BY <1>0, <1>2, RowsIntro DEF RefreshLost
  <2> QED BY <1>2, <2>1 DEF TypeOK, RefreshLost, RefreshRow
<1>3. ASSUME NEW g \in Pairs, LogoutHandler(g) PROVE TypeOK'
  <2>1. pair' \in [Pairs -> PairRow]
    BY <1>0, <1>3 DEF LogoutHandler, PairRow
  <2> QED BY <1>3, <2>1 DEF TypeOK, LogoutHandler, PairRow
<1>4. ASSUME NEW g \in Pairs, Expires(g) PROVE TypeOK'
  <2>1. \/ pair' = [pair EXCEPT ![g] = [pair[g] EXCEPT !.replay = FALSE]]
        \/ pair' = [pair EXCEPT ![g] = [pair[g] EXCEPT !.live = FALSE]]
    BY <1>0, <1>4 DEF Expires
  <2>2. pair' \in [Pairs -> PairRow]
    BY <1>0, <2>1, RowsIntro, PairUpdates
  <2>3. clicks' \in 0..MaxClicks
    BY <1>4, SessionConstants DEF Expires, Clicked, TypeOK, SessionConstants
  <2> QED BY <1>4, <2>2, <2>3 DEF TypeOK, Expires, PairRow
<1> QED BY <1>1, <1>2, <1>3, <1>4 DEF ServiceSteps

LEMMA CallTypes ==
    ASSUME TypeOK, CallsInv, NEW c \in Calls, CallSteps(c)
    PROVE  TypeOK'
<1>0. /\ refresh \in [Pages -> RefreshRow] /\ call \in [Calls -> CallRow] /\ call[c] \in CallRow
      /\ store.token \in 0..MaxPairs /\ 0 \in 0..MaxPairs /\ 1 \in 0..1 /\ 0 \in 0..1
  BY TypeRows, RowsIntro DEF StoreRow
<1>1. ASSUME NEW t \in Pages, Send(t, c) PROVE TypeOK'
  <2>1. call' \in [Calls -> CallRow]
    BY <1>0, <1>1, SentType DEF Send
  <2> QED BY <1>1, <2>1 DEF TypeOK, Send, CallRow
<1>2. CASE Answered(c)
  <2>1. \/ call' = [call EXCEPT ![c] = NoCall]
        \/ call' = [call EXCEPT ![c] = [call[c] EXCEPT !.st = "denied", !.token = 0]]
    BY <1>0, <1>2 DEF Answered
  <2>2. [call[c] EXCEPT !.st = "denied", !.token = 0] \in CallRow
    BY <1>0 DEF CallRow
  <2>3. call' \in [Calls -> CallRow]
    BY <1>0, <2>1, <2>2, RowsIntro
  <2> QED BY <1>2, <2>3 DEF TypeOK, Answered, CallRow
<1>3. CASE Denied(c)
  <2>1. /\ \/ call' = [call EXCEPT ![c] = [call[c] EXCEPT !.st = "failed"]]
           \/ call' = [call EXCEPT ![c] = [call[c] EXCEPT !.st = "retrying", !.retried = TRUE]]
        /\ refresh' = refresh \/ refresh' = JoinedRefresh(call[c].page, store.token)
    BY <1>0, <1>3 DEF Denied
  <2>2. /\ [call[c] EXCEPT !.st = "failed"] \in CallRow
        /\ [call[c] EXCEPT !.st = "retrying", !.retried = TRUE] \in CallRow
    BY <1>0 DEF CallRow
  <2>3. call' \in [Calls -> CallRow]
    BY <1>0, <2>1, <2>2
  <2>4. refresh' \in [Pages -> RefreshRow]
    BY <1>0, <2>1, JoinedType
  <2> QED BY <1>3, <2>3, <2>4 DEF TypeOK, Denied, CallRow, RefreshRow
<1>4. CASE QueryRetry(c)
  <2>1. call[c].page \in Pages
    BY <1>4 DEF QueryRetry, CallsInv
  <2>2. call' \in [Calls -> CallRow]
    BY <1>0, <1>4, <2>1, SentType DEF QueryRetry
  <2> QED BY <1>4, <2>2 DEF TypeOK, QueryRetry, CallRow
<1>5. CASE GivesUp(c)
  <2>1. call' \in [Calls -> CallRow]
    BY <1>0, <1>5, RowsIntro DEF GivesUp
  <2> QED BY <1>5, <2>1 DEF TypeOK, GivesUp, CallRow
<1> QED BY <1>1, <1>2, <1>3, <1>4, <1>5 DEF CallSteps

LEMMA PageTypes ==
    ASSUME TypeOK, NEW t \in Pages, PageSteps(t)
    PROVE  TypeOK'
<1>0. /\ store \in StoreRow /\ page \in [Pages -> PageRow] /\ refresh \in [Pages -> RefreshRow]
      /\ call \in [Calls -> CallRow] /\ pair \in [Pairs -> PairRow] /\ clicks \in 0..MaxClicks
      /\ store.token \in 0..MaxPairs /\ refresh[t].token \in 0..MaxPairs
      /\ page[t] \in PageRow /\ page[t].code \in Owners /\ None \in Owners
      /\ MaxClicks \in Nat
  BY TypeRows, SessionConstants DEF StoreRow, PageRow, RefreshRow, SessionConstants, Owners
<1>c. Clicked => clicks' \in 0..MaxClicks
  BY <1>0 DEF Clicked
<1>1. CASE RefreshSucceeds(t)
  <2> DEFINE n == refresh[t].token
             Resumed(k) == IF ~WaitsAt(k, t) THEN k
                           ELSE IF k.stray THEN [k EXCEPT !.st = "failed"]
                           ELSE [k EXCEPT !.st = "sent", !.token = n]
  <2>1. \A k \in CallRow : /\ [k EXCEPT !.st = "failed"] \in CallRow
                           /\ [k EXCEPT !.st = "sent", !.token = n] \in CallRow
    BY <1>0 DEF CallRow
  <2>2. \A k \in CallRow : Resumed(k) \in CallRow
    BY <2>1
  <2>3. call' = [c \in Calls |-> Resumed(call[c])]
    BY <1>1 DEF RefreshSucceeds
  <2> HIDE DEF Resumed
  <2>4. call' \in [Calls -> CallRow]
    BY <1>0, <2>2, <2>3
  <2>5. refresh' \in [Pages -> RefreshRow]
    BY <1>0, <1>1, RowsIntro DEF RefreshSucceeds
  <2>6. store' \in StoreRow
    BY <1>0, <1>1, StoreUpdates DEF RefreshSucceeds
  <2> QED BY <1>1, <2>4, <2>5, <2>6 DEF TypeOK, RefreshSucceeds, StoreRow, RefreshRow, CallRow
<1>2. CASE RefreshFails(t)
  <2> DEFINE Rejected(k) == IF WaitsAt(k, t) THEN [k EXCEPT !.st = "failed"] ELSE k
             After == [c \in Calls |-> Rejected(call[c])]
  <2>1. /\ \/ refresh' = [refresh EXCEPT ![t] = NoRefresh] /\ call' = After
           \/ \E c \in Calls :
                /\ \E g \in {0, store.token} :
                      refresh' = [refresh EXCEPT ![t] = [st |-> "sent", token |-> g]]
                /\ call' = [After EXCEPT ![c] =
                              [call[c] EXCEPT !.st = "retrying", !.retried = TRUE, !.stray = TRUE]]
        /\ ResetSession(t) \/ UNCHANGED <<store, page>>
        /\ crossed' \in BOOLEAN
        /\ UNCHANGED <<cookie, pair, leaving, clicks>>
    BY <1>2 DEF RefreshFails
  <2>2. /\ \A k \in CallRow : Rejected(k) \in CallRow
        /\ \A k \in CallRow :
              [k EXCEPT !.st = "retrying", !.retried = TRUE, !.stray = TRUE] \in CallRow
    BY DEF CallRow
  <2> HIDE DEF Rejected
  <2>3. After \in [Calls -> CallRow]
    BY <1>0, <2>2
  <2> HIDE DEF After
  <2>4. call' \in [Calls -> CallRow]
    <3>1. CASE call' = After
      BY <2>3, <3>1
    <3>2. ASSUME NEW c \in Calls,
                 call' = [After EXCEPT ![c] =
                            [call[c] EXCEPT !.st = "retrying", !.retried = TRUE, !.stray = TRUE]]
          PROVE  call' \in [Calls -> CallRow]
      <4>1. [call[c] EXCEPT !.st = "retrying", !.retried = TRUE, !.stray = TRUE] \in CallRow
        BY <1>0, <2>2
      <4> QED BY <2>3, <3>2, <4>1
    <3> QED BY <2>1, <3>1, <3>2
  <2>5. refresh' \in [Pages -> RefreshRow]
    <3>1. \A g \in {0, store.token} : [st |-> "sent", token |-> g] \in RefreshRow
      BY <1>0, RowsIntro
    <3>2. \E r \in RefreshRow : refresh' = [refresh EXCEPT ![t] = r]
      BY <2>1, <3>1, RowsIntro
    <3> QED BY <1>0, <3>2
  <2>6. store' \in StoreRow /\ page' \in [Pages -> PageRow]
    BY <1>0, <2>1, ResetType
  <2> QED BY <2>1, <2>4, <2>5, <2>6 DEF TypeOK, StoreRow, PageRow, RefreshRow, CallRow
<1>3. CASE Login(t)
  <2>1. page' \in [Pages -> PageRow]
    BY <1>0, <1>3, PageUpdates DEF Login, Phases
  <2>2. call' \in [Calls -> CallRow] /\ refresh' \in [Pages -> RefreshRow]
    BY <1>0, <1>3, RowsIntro DEF Login, Unloaded
  <2> QED BY <1>3, <1>c, <2>1, <2>2 DEF TypeOK, Login, PageRow, RefreshRow, CallRow
<1>4. CASE Reload(t)
  <2>1. /\ page' \in [Pages -> PageRow] /\ refresh' \in [Pages -> RefreshRow]
        /\ call' \in [Calls -> CallRow]
    BY <1>0, <1>4, LoadedType DEF Reload
  <2> QED BY <1>4, <1>c, <2>1 DEF TypeOK, Reload, PageRow, RefreshRow, CallRow
<1>5. CASE Logout(t)
  <2>1. store' \in StoreRow /\ page' \in [Pages -> PageRow]
    BY <1>5, ResetType DEF Logout
  <2>2. leaving' \subseteq Pairs
    <3>1. {store.token} \ {0} \subseteq Pairs
      BY <1>0, SessionConstants DEF Pairs, SessionConstants
    <3> QED BY <1>5, <3>1 DEF TypeOK, Logout
  <2> QED BY <1>5, <1>c, <2>1, <2>2 DEF TypeOK, Logout, StoreRow, PageRow
<1>6. ASSUME NEW u \in Users, Callback(t, u) PROVE TypeOK'
  <2>1. /\ page' \in [Pages -> PageRow] /\ refresh' \in [Pages -> RefreshRow]
        /\ call' \in [Calls -> CallRow]
    BY <1>0, <1>6, LoadedType DEF Callback, Owners
  <2> QED BY <1>6, <2>1 DEF TypeOK, Callback, PageRow, RefreshRow, CallRow
<1>7. CASE CodeExchanged(t)
  <2>1. PICK n \in NextPair :
          /\ pair' = Issued(n, page[t].code)
          /\ store' = [store EXCEPT !.token = n, !.user = page[t].code]
    BY <1>7 DEF CodeExchanged
  <2>2. n \in Pairs /\ n \in 0..MaxPairs
    BY RowsIntro DEF NextPair
  <2>3. pair' \in [Pairs -> PairRow]
    BY <1>0, <2>1, <2>2, IssuedRow DEF Issued
  <2>4. store' \in StoreRow
    BY <1>0, <2>1, <2>2, StoreUpdates
  <2>5. page' \in [Pages -> PageRow]
    <3>1. page' = [page EXCEPT ![t] = [page[t] EXCEPT !.at = "light", !.user = page[t].code]]
      BY <1>0, <1>7 DEF CodeExchanged
    <3> QED BY <1>0, <3>1, PageUpdates DEF Phases
  <2>6. crossed' \in BOOLEAN
    BY <1>7 DEF CodeExchanged
  <2> QED BY <1>7, <2>3, <2>4, <2>5, <2>6 DEF TypeOK, CodeExchanged, StoreRow, PageRow, PairRow
<1>8. CASE ExchangeFails(t)
  <2>1. store' \in StoreRow /\ page' \in [Pages -> PageRow]
    BY <1>0, <1>8, RowsIntro, PageUpdates DEF ExchangeFails, Phases
  <2> QED BY <1>8, <2>1 DEF TypeOK, ExchangeFails, StoreRow, PageRow
<1>9. CASE LightClientAnswers(t)
  <2>1. store' \in StoreRow
    BY <1>0, <1>9, StoreUpdates DEF LightClientAnswers
  <2>2. page' \in [Pages -> PageRow]
    <3>1. \/ page' = [page EXCEPT ![t] = [page[t] EXCEPT !.at = "zk", !.light = page[t].code]]
          \/ page' = [page EXCEPT ![t] = [page[t] EXCEPT !.at = "zk"]]
      BY <1>0, <1>9 DEF LightClientAnswers
    <3>2. page[t] \in PageRow /\ page[t].code \in Owners /\ "zk" \in Phases
      BY <1>0 DEF PageRow, Phases
    <3>3. /\ [page[t] EXCEPT !.at = "zk", !.light = page[t].code] \in PageRow
          /\ [page[t] EXCEPT !.at = "zk"] \in PageRow
      BY <3>2, PageUpdates
    <3> QED BY <1>0, <3>1, <3>3
  <2> QED BY <1>9, <2>1, <2>2 DEF TypeOK, LightClientAnswers, StoreRow, PageRow
<1>10. CASE ZkProofAnswers(t)
  <2>1. store' \in StoreRow
    <3>1. store' = [store EXCEPT !.zk = page[t].code] \/ store' = store
      BY <1>10 DEF ZkProofAnswers
    <3>2. page[t].code \in Owners /\ store \in StoreRow
      BY <1>0 DEF PageRow
    <3>3. [store EXCEPT !.zk = page[t].code] \in StoreRow
      BY <3>2 DEF StoreRow
    <3> QED BY <3>1, <3>2, <3>3
  <2>2. page' \in [Pages -> PageRow]
    <3>1. \/ page' = [page EXCEPT ![t] = [page[t] EXCEPT !.at = "out", !.code = None, !.zk = page[t].code]]
          \/ page' = [page EXCEPT ![t] = [page[t] EXCEPT !.at = "out", !.code = None]]
      BY <1>0, <1>10 DEF ZkProofAnswers
    <3>2. /\ [page[t] EXCEPT !.at = "out", !.code = None, !.zk = page[t].code] \in PageRow
          /\ [page[t] EXCEPT !.at = "out", !.code = None] \in PageRow
      BY <1>0 DEF PageRow, Phases
    <3> QED BY <1>0, <3>1, <3>2
  <2>3. refresh' \in [Pages -> RefreshRow]
    BY <1>0, <1>10, JoinedType DEF ZkProofAnswers
  <2> QED BY <1>10, <2>1, <2>2, <2>3 DEF TypeOK, ZkProofAnswers, StoreRow, PageRow, RefreshRow
<1> QED BY <1>1, <1>2, <1>3, <1>4, <1>5, <1>6, <1>7, <1>8, <1>9, <1>10 DEF PageSteps

LEMMA SessionTypes == TypeOK /\ CallsInv /\ [Next]_vars => TypeOK'
<1> SUFFICES ASSUME TypeOK, CallsInv, [Next]_vars PROVE TypeOK'
  OBVIOUS
<1>1. CASE UNCHANGED vars
  BY <1>1 DEF vars, TypeOK
<1> QED BY <1>1, ServiceTypes, CallTypes, PageTypes DEF Next

-----------------------------------------------------------------------------
(* The service's pairs.                                                      *)

(* What no step takes back: who a pair was issued to, and that it is at an end. *)
PairsGrow ==
    \A g \in Pairs : pair[g].owner # None =>
        /\ pair'[g].owner = pair[g].owner
        /\ ~pair[g].live /\ ~pair[g].replay => ~pair'[g].live /\ ~pair'[g].replay

LEMMA PairFacts ==
    ASSUME TypeOK
    PROVE  /\ pair \in [Pairs -> PairRow]
           /\ \A g \in Pairs : /\ pair[g] \in PairRow
                               /\ pair[g].next \in 0..MaxPairs
                               /\ pair[g].next # 0 => pair[g].next \in Pairs
           /\ 0 \notin Pairs /\ Pairs \subseteq Nat /\ 0..MaxPairs = Pairs \cup {0}
<1>1. MaxPairs \in Nat
  BY SessionConstants DEF SessionConstants
<1>2. pair \in [Pairs -> PairRow]
  BY TypeRows
<1> QED BY <1>1, <1>2 DEF PairRow, Pairs

(* A new pair takes a number that nothing refers to.                         *)
LEMMA PairIssued ==
    ASSUME TypeOK, PairsInv, NEW n \in NextPair, NEW u \in Owners, u # None,
           pair' = Issued(n, u)
    PROVE  PairsInv' /\ PairsGrow /\ pair'[n].owner = u
<1>1. n \in Pairs /\ pair[n].owner = None
  BY DEF NextPair
<1>2. /\ pair'[n].owner = u /\ pair'[n].next = 0 /\ ~pair'[n].replay
      /\ \A g \in Pairs \ {n} : pair'[g] = pair[g]
  BY <1>1, PairFacts DEF Issued, Unissued
<1>3. \A g \in Pairs : pair[g].next # n
  BY <1>1, PairFacts DEF PairsInv
<1>4. PairsGrow /\ pair'[n].owner = u
  BY <1>1, <1>2 DEF PairsGrow
<1>5. PairsInv'
  <2> SUFFICES ASSUME NEW g \in Pairs
               PROVE  /\ pair'[g].live \/ pair'[g].next # 0 => pair'[g].owner # None
                      /\ pair'[g].next # 0 => pair'[pair'[g].next].owner = pair'[g].owner
                      /\ pair'[g].live => pair'[g].next = 0
                      /\ pair'[g].replay => pair'[g].next # 0
    BY DEF PairsInv
  <2>1. CASE g = n
    BY <2>1, <1>2
  <2>2. CASE g # n
    BY <2>2, <1>2, <1>3, PairFacts DEF PairsInv
  <2> QED BY <2>1, <2>2
<1> QED BY <1>4, <1>5

(* A rotation: the pair g gives way to n.                                    *)
LEMMA PairRotated ==
    ASSUME TypeOK, PairsInv, NEW n \in NextPair, NEW g \in Pairs, pair[g].live,
           pair' = Rotated(g, n)
    PROVE  PairsInv' /\ PairsGrow /\ pair'[n].owner = pair[g].owner
<1>1. n \in Pairs /\ pair[n].owner = None /\ pair[g].owner # None /\ g # n
  BY DEF NextPair, PairsInv
<1>2. /\ pair'[n].owner = pair[g].owner /\ pair'[n].next = 0 /\ ~pair'[n].replay
      /\ pair'[g].owner = pair[g].owner /\ ~pair'[g].live /\ pair'[g].next = n
      /\ \A h \in Pairs \ {g, n} : pair'[h] = pair[h]
  BY <1>1, PairFacts DEF Issued, Rotated, PairRow, Unissued
<1>3. \A h \in Pairs : pair[h].next # n
  BY <1>1, PairFacts DEF PairsInv
<1>4. PairsGrow
  BY <1>1, <1>2 DEF PairsGrow
<1>5. PairsInv'
  <2> SUFFICES ASSUME NEW h \in Pairs
               PROVE  /\ pair'[h].live \/ pair'[h].next # 0 => pair'[h].owner # None
                      /\ pair'[h].next # 0 => pair'[pair'[h].next].owner = pair'[h].owner
                      /\ pair'[h].live => pair'[h].next = 0
                      /\ pair'[h].replay => pair'[h].next # 0
    BY DEF PairsInv
  <2>1. CASE h = n
    BY <2>1, <1>1, <1>2
  <2>2. CASE h = g
    BY <2>2, <1>1, <1>2, PairFacts
  <2>3. CASE h \notin {g, n}
    <3>1. /\ pair'[h] = pair[h]
          /\ pair[h].next # 0 => /\ pair[h].next \in Pairs \ {n}
                                 /\ pair'[pair[h].next].owner = pair[pair[h].next].owner
      BY <2>3, <1>2, <1>3, PairFacts
    <3>2. /\ pair[h].live \/ pair[h].next # 0 => pair[h].owner # None
          /\ pair[h].next # 0 => pair[pair[h].next].owner = pair[h].owner
          /\ pair[h].live => pair[h].next = 0
          /\ pair[h].replay => pair[h].next # 0
      BY DEF PairsInv
    <3> QED BY <3>1, <3>2
  <2> QED BY <2>1, <2>2, <2>3
<1> QED BY <1>1, <1>2, <1>4, <1>5

LEMMA PairsKept ==
    ASSUME PairsInv, pair' = pair
    PROVE  PairsInv' /\ PairsGrow
BY DEF PairsInv, PairsGrow

LEMMA PairsStep ==
    ASSUME TypeOK, PairsInv, LoginsInv, [Next]_vars
    PROVE  PairsInv' /\ PairsGrow
<1>1. ASSUME NEW t \in Pages, RefreshHandler(t) PROVE PairsInv' /\ PairsGrow
  <2>1. refresh[t].token \in 0..MaxPairs
    BY TypeRows DEF RefreshRow
  <2>2. \/ UNCHANGED pair
        \/ \E n \in NextPair, g \in Pairs :
              /\ pair[g].live
              /\ pair' = Rotated(g, n)
    BY <1>1, <2>1, PairFacts DEF RefreshHandler
  <2> QED BY <2>2, PairsKept, PairRotated
<1>2. ASSUME NEW g \in Pairs, LogoutHandler(g) \/ Expires(g) PROVE PairsInv' /\ PairsGrow
  <2>1. \A h \in Pairs : /\ pair'[h].owner = pair[h].owner /\ pair'[h].next = pair[h].next
                         /\ pair'[h].live => pair[h].live
                         /\ pair'[h].replay => pair[h].replay
    BY <1>2, PairFacts DEF LogoutHandler, Expires, PairRow
  <2>2. PairsGrow
    BY <2>1 DEF PairsGrow
  <2>3. \A h \in Pairs : pair[h].next # 0 => pair[h].next \in Pairs
    BY PairFacts
  <2>4. PairsInv'
    BY <2>1, <2>3 DEF PairsInv
  <2> QED BY <2>2, <2>4
<1>3. ASSUME NEW t \in Pages, CodeExchanged(t) PROVE PairsInv' /\ PairsGrow
  <2>1. page[t].code \in Owners /\ page[t].code # None
    BY <1>3, TypeRows DEF CodeExchanged, LoginsInv, PageRow
  <2> QED BY <1>3, <2>1, PairIssued DEF CodeExchanged
<1>4. ASSUME NEW t \in Pages, RefreshLost(t) PROVE pair' = pair
  BY <1>4 DEF RefreshLost
<1>5. ASSUME NEW c \in Calls, CallSteps(c) PROVE pair' = pair
  BY <1>5 DEF CallSteps, Send, Answered, Denied, QueryRetry, GivesUp
<1>6. ASSUME NEW t \in Pages, PageSteps(t), ~CodeExchanged(t) PROVE pair' = pair
  BY <1>6 DEF PageSteps, RefreshSucceeds, RefreshFails, Login, Reload, Logout, Callback,
     ExchangeFails, LightClientAnswers, ZkProofAnswers
<1>7. CASE UNCHANGED vars
  BY <1>7, PairsKept DEF vars
<1> QED BY <1>1, <1>2, <1>3, <1>4, <1>5, <1>6, <1>7, PairsKept DEF Next, ServiceSteps

-----------------------------------------------------------------------------
(* The tokens of the browser.                                                *)

(* A token that is issued once the step is over.                             *)
KnownNext(g) == g \in Pairs /\ pair'[g].owner # None

LEMMA TokensKept ==
    ASSUME TypeOK, TokensInv, PairsGrow,
           store'.token \in {0, store.token} \/ KnownNext(store'.token),
           \A t \in Pages :
              \/ refresh'[t] = refresh[t]
              \/ /\ refresh'[t].st \notin {"answered", "refused"}
                 /\ refresh'[t].token \in {0, store.token, refresh[t].token}
              \/ refresh'[t].st = "answered" /\ KnownNext(refresh'[t].token)
              \/ /\ refresh'[t].st = "refused" /\ refresh'[t].token = refresh[t].token
                 /\ refresh'[t].token # 0 =>
                       ~pair'[refresh'[t].token].live /\ ~pair'[refresh'[t].token].replay
    PROVE  TokensInv'
<1>0. 0 \notin Pairs /\ 0..MaxPairs = Pairs \cup {0}
  BY PairFacts
<1>1. store.token \in 0..MaxPairs /\ \A t \in Pages : refresh[t].token \in 0..MaxPairs
  BY TypeRows DEF StoreRow, RefreshRow
<1>2. WasIssued(store.token) /\ \A t \in Pages : WasIssued(refresh[t].token)
  BY DEF TokensInv
<1>3. \A g \in 0..MaxPairs : g # 0 /\ WasIssued(g) => pair'[g].owner # None
  BY <1>0 DEF WasIssued, PairsGrow
<1>6. store'.token # 0 => pair'[store'.token].owner # None
  BY <1>1, <1>2, <1>3 DEF KnownNext
<1>7. ASSUME NEW t \in Pages
      PROVE  /\ refresh'[t].token # 0 => pair'[refresh'[t].token].owner # None
             /\ refresh'[t].st = "answered" => refresh'[t].token # 0
             /\ refresh'[t].st = "refused" /\ refresh'[t].token # 0 =>
                   ~pair'[refresh'[t].token].live /\ ~pair'[refresh'[t].token].replay
  <2>0. /\ refresh[t].st = "answered" => refresh[t].token # 0
        /\ refresh[t].st = "refused" /\ refresh[t].token # 0 =>
              ~pair[refresh[t].token].live /\ ~pair[refresh[t].token].replay
    BY DEF TokensInv
  <2>1. CASE refresh'[t] = refresh[t]
    <3>1. refresh[t].token # 0 => refresh[t].token \in Pairs /\ pair[refresh[t].token].owner # None
      BY <1>0, <1>1, <1>2 DEF WasIssued
    <3>2. refresh[t].token # 0 => pair'[refresh[t].token].owner # None
      BY <1>1, <1>2, <1>3
    <3> QED BY <2>0, <2>1, <3>1, <3>2 DEF PairsGrow
  <2>2. CASE /\ refresh'[t].st \notin {"answered", "refused"}
             /\ refresh'[t].token \in {0, store.token, refresh[t].token}
    BY <2>2, <1>1, <1>2, <1>3
  <2>3. CASE refresh'[t].st = "answered" /\ KnownNext(refresh'[t].token)
    BY <2>3, <1>0 DEF KnownNext
  <2>4. CASE /\ refresh'[t].st = "refused" /\ refresh'[t].token = refresh[t].token
             /\ refresh'[t].token # 0 =>
                   ~pair'[refresh'[t].token].live /\ ~pair'[refresh'[t].token].replay
    BY <2>4, <1>1, <1>2, <1>3
  <2> QED BY <2>1, <2>2, <2>3, <2>4
<1> QED BY <1>6, <1>7 DEF TokensInv, WasIssued

LEMMA TokensStep ==
    ASSUME TypeOK, PairsInv, TokensInv, LoginsInv, CallsInv, PairsGrow, [Next]_vars
    PROVE  TokensInv'
<1>0. /\ store \in StoreRow /\ refresh \in [Pages -> RefreshRow]
      /\ 0 \notin Pairs /\ 0..MaxPairs = Pairs \cup {0}
      /\ store.token \in 0..MaxPairs /\ \A t \in Pages : refresh[t].token \in 0..MaxPairs
  BY TypeRows, PairFacts DEF StoreRow, RefreshRow
<1>1. ASSUME NEW t \in Pages, RefreshHandler(t) PROVE TokensInv'
  <2> DEFINE g == refresh[t].token
  <2>0. store' = store /\ g \in 0..MaxPairs
    BY <1>0, <1>1 DEF RefreshHandler
  <2>1. CASE g # 0 /\ pair[g].replay
             /\ refresh' = [refresh EXCEPT ![t] = [st |-> "answered", token |-> pair[g].next]]
             /\ UNCHANGED pair
    <3>1. pair[g].next \in Pairs /\ pair[pair[g].next].owner # None
      BY <1>0, <2>0, <2>1, PairFacts DEF PairsInv
    <3>2. KnownNext(refresh'[t].token) /\ refresh'[t].st = "answered"
      BY <1>0, <2>1, <3>1 DEF KnownNext
    <3> QED BY <1>0, <2>0, <2>1, <3>2, TokensKept
  <2>2. ASSUME NEW n \in NextPair, g # 0, pair[g].live,
               pair' = Rotated(g, n),
               refresh' = [refresh EXCEPT ![t] = [st |-> "answered", token |-> n]]
        PROVE  TokensInv'
    <3>1. g \in Pairs /\ n \in Pairs
      BY <1>0, <2>0, <2>2 DEF NextPair
    <3>2. pair'[n].owner = pair[g].owner /\ pair[g].owner # None
      <4>1. pair[g].owner # None
        BY <2>2, <3>1 DEF PairsInv
      <4> QED BY <2>2, <3>1, <4>1, PairRotated
    <3>3. KnownNext(refresh'[t].token) /\ refresh'[t].st = "answered"
      BY <1>0, <2>2, <3>1, <3>2 DEF KnownNext
    <3> QED BY <1>0, <2>0, <2>2, <3>3, TokensKept
  <2>3. CASE /\ ~(g # 0 /\ pair[g].replay) /\ ~(g # 0 /\ ~pair[g].replay /\ pair[g].live)
             /\ refresh' = [refresh EXCEPT ![t].st = "refused"] /\ UNCHANGED pair
    <3>1. /\ refresh'[t].st = "refused" /\ refresh'[t].token = g
          /\ \A s \in Pages \ {t} : refresh'[s] = refresh[s]
      BY <1>0, <2>3 DEF RefreshRow
    <3>2. g # 0 => ~pair'[g].live /\ ~pair'[g].replay
      BY <1>0, <2>0, <2>3
    <3> QED BY <2>0, <3>1, <3>2, TokensKept
  <2> QED BY <1>1, <2>1, <2>2, <2>3 DEF RefreshHandler
<1>2. ASSUME NEW t \in Pages, RefreshLost(t) PROVE TokensInv'
  <2>1. /\ store' = store /\ refresh' = [refresh EXCEPT ![t] = [st |-> "lost", token |-> 0]]
    BY <1>2 DEF RefreshLost
  <2> QED BY <1>0, <2>1, TokensKept
<1>3. ASSUME NEW g \in Pairs, LogoutHandler(g) \/ Expires(g) PROVE TokensInv'
  <2>1. store' = store /\ refresh' = refresh
    BY <1>3 DEF LogoutHandler, Expires
  <2> QED BY <2>1, TokensKept
(* A page that joins a refresh or starts one, or clears its own.             *)
<1>j. ASSUME NEW t, store'.token \in {0, store.token},
             refresh' = refresh \/ refresh' = JoinedRefresh(t, store.token)
      PROVE  TokensInv'
  <2>1. \A s \in Pages : \/ refresh'[s] = refresh[s]
                         \/ refresh'[s].st = "sent" /\ refresh'[s].token = store.token
    BY <1>0, <1>j DEF JoinedRefresh
  <2> QED BY <1>j, <2>1, TokensKept
<1>r. ASSUME NEW t \in Pages, store'.token \in {0, store.token},
             \/ refresh' = [refresh EXCEPT ![t] = NoRefresh]
             \/ \E g \in {0, store.token} : refresh' = [refresh EXCEPT ![t] = [st |-> "sent", token |-> g]]
      PROVE  TokensInv'
  <2>1. \A s \in Pages : \/ refresh'[s] = refresh[s]
                         \/ /\ refresh'[s].st \in {"none", "sent"}
                            /\ refresh'[s].token \in {0, store.token}
    BY <1>0, <1>r DEF NoRefresh
  <2> QED BY <1>r, <2>1, TokensKept
<1>4. ASSUME NEW c \in Calls, CallSteps(c) PROVE TokensInv'
  <2>1. /\ store' = store
        /\ refresh' = refresh \/ refresh' = JoinedRefresh(call[c].page, store.token)
    BY <1>4 DEF CallSteps, Send, Answered, Denied, QueryRetry, GivesUp
  <2> QED BY <2>1, <1>j
<1>5. ASSUME NEW t \in Pages, PageSteps(t) PROVE TokensInv'
  <2>1. CASE RefreshSucceeds(t)
    <3>1. /\ store'.token = refresh[t].token /\ pair' = pair /\ refresh[t].st = "answered"
          /\ refresh' = [refresh EXCEPT ![t] = NoRefresh]
      BY <1>0, <2>1 DEF RefreshSucceeds, StoreRow
    <3>2. refresh[t].token # 0 /\ WasIssued(refresh[t].token)
      BY <3>1 DEF TokensInv
    <3>3. KnownNext(store'.token)
      BY <1>0, <3>1, <3>2 DEF KnownNext, WasIssued
    <3>4. \A s \in Pages : \/ refresh'[s] = refresh[s]
                           \/ refresh'[s].st = "none" /\ refresh'[s].token = 0
      BY <1>0, <3>1 DEF NoRefresh
    <3> QED BY <3>3, <3>4, TokensKept
  <2>2. CASE RefreshFails(t)
    <3>1. \/ refresh' = [refresh EXCEPT ![t] = NoRefresh]
          \/ \E g \in {0, store.token} : refresh' = [refresh EXCEPT ![t] = [st |-> "sent", token |-> g]]
      BY <2>2 DEF RefreshFails
    <3>2. ResetSession(t) \/ store' = store
      BY <2>2 DEF RefreshFails
    <3>3. store'.token \in {0, store.token}
      BY <3>2 DEF ResetSession, EmptyStore
    <3> QED BY <3>1, <3>3, <1>r
  <2>3. CASE Login(t)
    BY <2>3, <1>r DEF Login
  <2>4. CASE Reload(t) \/ \E u \in Users : Callback(t, u)
    <3>1. /\ store' = store
          /\ \/ refresh' = [refresh EXCEPT ![t] = NoRefresh]
             \/ refresh' = [refresh EXCEPT ![t] = [st |-> "sent", token |-> store.token]]
      BY <2>4 DEF Reload, Callback, Loaded
    <3> QED BY <3>1, <1>r
  <2>5. CASE Logout(t)
    BY <2>5, <1>j DEF Logout, ResetSession, EmptyStore
  <2>6. CASE CodeExchanged(t)
    <3>0. page[t].code \in Owners /\ page[t].code # None
      BY <2>6, TypeRows DEF CodeExchanged, LoginsInv, PageRow
    <3>1. PICK n \in NextPair : pair' = Issued(n, page[t].code)
                                /\ store' = [store EXCEPT !.token = n, !.user = page[t].code]
      BY <2>6 DEF CodeExchanged
    <3>2. pair'[n].owner # None /\ n \in Pairs /\ store'.token = n
      BY <1>0, <3>0, <3>1, PairIssued DEF NextPair, StoreRow
    <3>3. KnownNext(store'.token) /\ refresh' = refresh
      BY <2>6, <3>2 DEF KnownNext, CodeExchanged
    <3> QED BY <3>3, TokensKept
  <2>7. CASE ExchangeFails(t)
    BY <2>7, <1>j DEF ExchangeFails, EmptyStore
  <2>8. CASE LightClientAnswers(t)
    <3>1. store'.token = store.token /\ refresh' = refresh
      BY <1>0, <2>8 DEF LightClientAnswers, StoreRow
    <3> QED BY <3>1, <1>j
  <2>9. CASE ZkProofAnswers(t)
    <3>1. store'.token = store.token
          /\ refresh' \in {refresh, JoinedRefresh(t, store.token)}
      BY <1>0, <2>9 DEF ZkProofAnswers, StoreRow
    <3> QED BY <3>1, <1>j
  <2> QED BY <1>5, <2>1, <2>2, <2>3, <2>4, <2>5, <2>6, <2>7, <2>8, <2>9 DEF PageSteps
<1>6. CASE UNCHANGED vars
  BY <1>6, TokensKept DEF vars
<1> QED BY <1>1, <1>2, <1>3, <1>4, <1>5, <1>6 DEF Next, ServiceSteps

-----------------------------------------------------------------------------
(* Logins and calls.                                                         *)

LEMMA LoginsStep ==
    ASSUME TypeOK, LoginsInv, [Next]_vars
    PROVE  LoginsInv'
<1>0. page \in [Pages -> PageRow] /\ None \notin Users
  BY TypeRows, SessionConstants DEF SessionConstants
<1>k. ASSUME page' = page PROVE LoginsInv'
  BY <1>k DEF LoginsInv
<1>w. ASSUME NEW t \in Pages,
             \A s \in Pages \ {t} : page'[s] = page[s],
             page'[t].at \in {"code", "light", "zk"} => page'[t].code # None
      PROVE  LoginsInv'
  BY <1>w DEF LoginsInv
<1>l. ASSUME NEW t \in Pages, NEW u, Loaded(t, u) PROVE LoginsInv'
  <2>1. /\ \A s \in Pages \ {t} : page'[s] = page[s]
        /\ \/ page'[t].at = "out"
           \/ page'[t].at = "code" /\ page'[t].code # None
    <3> DEFINE restored == store.user # None /\ store.token # 0
               at == IF ~restored /\ u # None THEN "code" ELSE "out"
    <3>1. \E user, light, zk : page' = [page EXCEPT ![t] =
             [at |-> at, code |-> u, user |-> user, light |-> light, zk |-> zk]]
      BY <1>l DEF Loaded
    <3> HIDE DEF restored
    <3>2. at = "out" \/ (at = "code" /\ u # None)
      OBVIOUS
    <3> HIDE DEF at
    <3>3. page'[t].at = at /\ page'[t].code = u /\ \A s \in Pages \ {t} : page'[s] = page[s]
      BY <1>0, <3>1
    <3> QED BY <3>2, <3>3
  <2> QED BY <2>1, <1>w
<1>r. ASSUME NEW t \in Pages, ResetSession(t) PROVE LoginsInv'
  <2>1. /\ \A s \in Pages \ {t} : page'[s] = page[s]
        /\ page'[t].at = page[t].at /\ page'[t].code = page[t].code
    BY <1>0, <1>r DEF ResetSession, PageRow
  <2> QED BY <2>1, <1>w DEF LoginsInv
<1>1. ASSUME NEW t \in Pages, PageSteps(t) PROVE LoginsInv'
  <2>1. CASE RefreshSucceeds(t)
    BY <2>1, <1>k DEF RefreshSucceeds
  <2>2. CASE RefreshFails(t)
    BY <2>2, <1>k, <1>r DEF RefreshFails
  <2>3. CASE Login(t)
    <3>1. page' = [page EXCEPT ![t] = [SignedOut EXCEPT !.at = "provider"]]
      BY <2>3 DEF Login
    <3>2. page'[t].at = "provider" /\ \A s \in Pages \ {t} : page'[s] = page[s]
      BY <1>0, <3>1 DEF SignedOut
    <3> QED BY <3>2, <1>w
  <2>4. CASE Reload(t)
    BY <2>4, <1>l DEF Reload
  <2>5. CASE Logout(t)
    BY <2>5, <1>r DEF Logout
  <2>6. CASE \E u \in Users : Callback(t, u)
    BY <2>6, <1>l DEF Callback
  <2>7. CASE CodeExchanged(t)
    <3>1. /\ page'[t].code = page[t].code /\ page[t].at = "code"
          /\ \A s \in Pages \ {t} : page'[s] = page[s]
      BY <1>0, <2>7 DEF CodeExchanged, PageRow
    <3> QED BY <3>1, <1>w DEF LoginsInv
  <2>8. CASE ExchangeFails(t)
    <3>1. page' = [page EXCEPT ![t] = [SignedOut EXCEPT !.code = page[t].code]]
      BY <2>8 DEF ExchangeFails
    <3>2. page'[t].at = "out" /\ \A s \in Pages \ {t} : page'[s] = page[s]
      BY <1>0, <3>1 DEF SignedOut
    <3> QED BY <3>2, <1>w
  <2>9. CASE LightClientAnswers(t)
    <3>1. /\ page'[t].code = page[t].code /\ page[t].at = "light"
          /\ \A s \in Pages \ {t} : page'[s] = page[s]
      BY <1>0, <2>9 DEF LightClientAnswers, PageRow
    <3> QED BY <3>1, <1>w DEF LoginsInv
  <2>10. CASE ZkProofAnswers(t)
    <3>1. page'[t].at = "out" /\ \A s \in Pages \ {t} : page'[s] = page[s]
      BY <1>0, <2>10 DEF ZkProofAnswers, PageRow
    <3> QED BY <3>1, <1>w
  <2> QED BY <1>1, <2>1, <2>2, <2>3, <2>4, <2>5, <2>6, <2>7, <2>8, <2>9, <2>10 DEF PageSteps
<1>2. ASSUME ServiceSteps PROVE page' = page
  BY <1>2 DEF ServiceSteps, RefreshHandler, RefreshLost, LogoutHandler, Expires
<1>3. ASSUME NEW c \in Calls, CallSteps(c) PROVE page' = page
  BY <1>3 DEF CallSteps, Send, Answered, Denied, QueryRetry, GivesUp
<1>4. CASE UNCHANGED vars
  BY <1>4, <1>k DEF vars
<1> QED BY <1>1, <1>2, <1>3, <1>4, <1>k DEF Next

(* Each call under way belongs to a page, and one that waits has a refresh to
   wait for.                                                                 *)
CallAwaited(k) == /\ k.st # "idle" => k.page \in Pages
                  /\ k.st \in {"held", "retrying"} => refresh'[k.page].st # "none"

LEMMA CallsIntro ==
    ASSUME \A c \in Calls : CallAwaited(call'[c])
    PROVE  CallsInv' /\ WaitingCallsAreAwaited'
BY DEF CallAwaited, CallsInv, WaitingCallsAreAwaited, Waits

LEMMA SentAwaited ==
    ASSUME NEW t \in Pages, NEW n, refresh' = refresh
    PROVE  CallAwaited(Sent(t, n))
BY DEF CallAwaited, Sent, Waits, NoCall

LEMMA CallsStep ==
    ASSUME TypeOK, CallsInv, WaitingCallsAreAwaited, [Next]_vars
    PROVE  CallsInv' /\ WaitingCallsAreAwaited'
<1>0. /\ refresh \in [Pages -> RefreshRow] /\ call \in [Calls -> CallRow]
      /\ \A c \in Calls : /\ call[c] \in CallRow
                          /\ call[c].st # "idle" => call[c].page \in Pages
                          /\ call[c].st \in {"held", "retrying"} => refresh[call[c].page].st # "none"
      /\ None \notin Pages
  BY TypeRows, SessionConstants DEF CallsInv, WaitingCallsAreAwaited, Waits, SessionConstants
<1>n. CallAwaited(NoCall)
  BY DEF CallAwaited, NoCall
<1>k. ASSUME call' = call, \A t \in Pages : refresh[t].st # "none" => refresh'[t].st # "none"
      PROVE  CallsInv' /\ WaitingCallsAreAwaited'
  BY <1>0, <1>k, CallsIntro DEF CallAwaited
<1>w. ASSUME NEW c \in Calls, NEW k, call' = [call EXCEPT ![c] = k], CallAwaited(k),
             \A t \in Pages : refresh[t].st # "none" => refresh'[t].st # "none"
      PROVE  CallsInv' /\ WaitingCallsAreAwaited'
  <2>1. call'[c] = k /\ \A d \in Calls \ {c} : call'[d] = call[d]
    BY <1>0, <1>w
  <2>2. \A d \in Calls : CallAwaited(call'[d])
    BY <1>0, <1>w, <2>1 DEF CallAwaited
  <2> QED BY <2>2, CallsIntro
<1>u. ASSUME NEW t \in Pages, call' = Unloaded(t), \A s \in Pages \ {t} : refresh'[s] = refresh[s]
      PROVE  CallsInv' /\ WaitingCallsAreAwaited'
  <2>1. \A c \in Calls : call'[c] = IF call[c].page = t THEN NoCall ELSE call[c]
    BY <1>u DEF Unloaded
  <2>2. \A c \in Calls : CallAwaited(call'[c])
    BY <1>0, <1>n, <1>u, <2>1 DEF CallAwaited
  <2> QED BY <2>2, CallsIntro
<1>1. ASSUME ServiceSteps PROVE CallsInv' /\ WaitingCallsAreAwaited'
  <2>1. call' = call
    BY <1>1 DEF ServiceSteps, RefreshHandler, RefreshLost, LogoutHandler, Expires
  <2>2. \A t \in Pages : refresh[t].st # "none" => refresh'[t].st # "none"
    <3>1. ASSUME NEW t \in Pages, RefreshHandler(t)
          PROVE  \A s \in Pages : refresh[s].st # "none" => refresh'[s].st # "none"
      <4>1. \/ \E n : refresh' = [refresh EXCEPT ![t] = [st |-> "answered", token |-> n]]
            \/ refresh' = [refresh EXCEPT ![t].st = "refused"]
        BY <3>1 DEF RefreshHandler
      <4> QED BY <1>0, <4>1 DEF RefreshRow
    <3>2. ASSUME NEW t \in Pages, RefreshLost(t)
          PROVE  \A s \in Pages : refresh[s].st # "none" => refresh'[s].st # "none"
      BY <1>0, <3>2 DEF RefreshLost
    <3>3. ASSUME NEW g \in Pairs, LogoutHandler(g) \/ Expires(g) PROVE refresh' = refresh
      BY <3>3 DEF LogoutHandler, Expires
    <3> QED BY <1>1, <3>1, <3>2, <3>3 DEF ServiceSteps
  <2> QED BY <2>1, <2>2, <1>k
<1>2. ASSUME NEW c \in Calls, CallSteps(c) PROVE CallsInv' /\ WaitingCallsAreAwaited'
  <2>1. ASSUME NEW t \in Pages, Send(t, c) PROVE CallsInv' /\ WaitingCallsAreAwaited'
    <3>1. call' = [call EXCEPT ![c] = Sent(t, 0)] /\ refresh' = refresh
      BY <2>1 DEF Send
    <3> QED BY <3>1, SentAwaited, <1>w
  <2>2. CASE Answered(c)
    <3>1. /\ \/ call' = [call EXCEPT ![c] = NoCall]
             \/ call' = [call EXCEPT ![c] = [call[c] EXCEPT !.st = "denied", !.token = 0]]
          /\ call[c].st = "sent" /\ refresh' = refresh
      BY <1>0, <2>2 DEF Answered
    <3>2. CallAwaited([call[c] EXCEPT !.st = "denied", !.token = 0])
      BY <1>0, <3>1 DEF CallAwaited, CallRow
    <3> QED BY <3>1, <3>2, <1>n, <1>w
  <2>3. CASE Denied(c)
    <3>1. /\ call[c].st = "denied"
          /\ \/ call' = [call EXCEPT ![c] = [call[c] EXCEPT !.st = "failed"]] /\ refresh' = refresh
             \/ /\ call' = [call EXCEPT ![c] = [call[c] EXCEPT !.st = "retrying", !.retried = TRUE]]
                /\ refresh' = JoinedRefresh(call[c].page, store.token)
      BY <1>0, <2>3 DEF Denied
    <3>2. CASE call' = [call EXCEPT ![c] = [call[c] EXCEPT !.st = "failed"]] /\ refresh' = refresh
      <4>1. CallAwaited([call[c] EXCEPT !.st = "failed"])
        BY <1>0, <3>1 DEF CallAwaited, CallRow
      <4> QED BY <3>2, <4>1, <1>w
    <3>3. CASE /\ call' = [call EXCEPT ![c] = [call[c] EXCEPT !.st = "retrying", !.retried = TRUE]]
               /\ refresh' = JoinedRefresh(call[c].page, store.token)
      <4>1. /\ \A t \in Pages : refresh[t].st # "none" => refresh'[t].st # "none"
            /\ refresh'[call[c].page].st # "none"
        BY <1>0, <3>1, <3>3 DEF JoinedRefresh, Waits
      <4>2. CallAwaited([call[c] EXCEPT !.st = "retrying", !.retried = TRUE])
        BY <1>0, <3>1, <4>1 DEF CallAwaited, CallRow
      <4> QED BY <3>3, <4>1, <4>2, <1>w
    <3> QED BY <3>1, <3>2, <3>3
  <2>4. CASE QueryRetry(c)
    <3>1. /\ call[c].page \in Pages /\ refresh' = refresh
          /\ call' = [call EXCEPT ![c] = Sent(call[c].page, 1)]
      BY <1>0, <2>4 DEF QueryRetry
    <3> QED BY <3>1, SentAwaited, <1>w
  <2>5. CASE GivesUp(c)
    BY <2>5, <1>n, <1>w DEF GivesUp
  <2> QED BY <1>2, <2>1, <2>2, <2>3, <2>4, <2>5 DEF CallSteps
<1>3. ASSUME NEW t \in Pages, PageSteps(t) PROVE CallsInv' /\ WaitingCallsAreAwaited'
  <2>1. CASE RefreshSucceeds(t)
    <3> DEFINE n == refresh[t].token
    <3>1. /\ \A c \in Calls :
                call'[c] = IF ~WaitsAt(call[c], t) THEN call[c]
                           ELSE IF call[c].stray THEN [call[c] EXCEPT !.st = "failed"]
                           ELSE [call[c] EXCEPT !.st = "sent", !.token = n]
          /\ \A s \in Pages \ {t} : refresh'[s] = refresh[s]
      BY <1>0, <2>1 DEF RefreshSucceeds
    <3>2. ASSUME NEW c \in Calls PROVE CallAwaited(call'[c])
      <4>1. CASE WaitsAt(call[c], t)
        <5>1. \/ call'[c] = [call[c] EXCEPT !.st = "failed"]
              \/ call'[c] = [call[c] EXCEPT !.st = "sent", !.token = n]
          BY <3>1, <4>1
        <5>2. call[c] \in CallRow /\ call[c].page = t
          BY <1>0, <4>1 DEF WaitsAt
        <5>3. call'[c].st \in {"failed", "sent"} /\ call'[c].page = t
          BY <5>1, <5>2 DEF CallRow
        <5> QED BY <5>3 DEF CallAwaited
      <4>2. CASE ~WaitsAt(call[c], t)
        <5>1. call'[c] = call[c]
          BY <3>1, <4>2
        <5>2. call[c].page # t \/ call[c].st \notin {"held", "retrying"}
          BY <4>2 DEF WaitsAt
        <5> QED BY <1>0, <3>1, <5>1, <5>2 DEF CallAwaited
      <4> QED BY <4>1, <4>2
    <3> QED BY <3>2, CallsIntro
  <2>2. CASE RefreshFails(t)
    <3> DEFINE Rejected(k) == IF WaitsAt(k, t) THEN [k EXCEPT !.st = "failed"] ELSE k
               After == [c \in Calls |-> Rejected(call[c])]
    <3>1. \/ refresh' = [refresh EXCEPT ![t] = NoRefresh] /\ call' = After
          \/ \E c \in Calls :
               /\ call[c].page = t
               /\ \E g : refresh' = [refresh EXCEPT ![t] = [st |-> "sent", token |-> g]]
               /\ call' = [After EXCEPT ![c] =
                             [call[c] EXCEPT !.st = "retrying", !.retried = TRUE, !.stray = TRUE]]
      BY <2>2 DEF RefreshFails, WaitsAt
    <3>2. \A s \in Pages \ {t} : refresh'[s] = refresh[s]
      BY <1>0, <3>1
    <3>3. ASSUME NEW c \in Calls PROVE CallAwaited(Rejected(call[c]))
      <4>1. CASE WaitsAt(call[c], t)
        <5>1. Rejected(call[c]).st = "failed" /\ Rejected(call[c]).page = t
          BY <1>0, <4>1 DEF WaitsAt, CallRow
        <5> QED BY <5>1 DEF CallAwaited
      <4>2. CASE ~WaitsAt(call[c], t)
        BY <1>0, <3>2, <4>2 DEF CallAwaited, WaitsAt
      <4> QED BY <4>1, <4>2
    <3>4. \A c \in Calls : CallAwaited(After[c])
      BY <3>3
    <3> HIDE DEF Rejected
    <3> HIDE DEF After
    <3>8. ASSUME NEW g, refresh' = [refresh EXCEPT ![t] = [st |-> "sent", token |-> g]]
          PROVE  refresh'[t].st = "sent"
      BY <1>0, <3>8
    <3>7. \/ call' = After
          \/ \E c \in Calls :
               /\ call[c].page = t /\ refresh'[t].st = "sent"
               /\ call' = [After EXCEPT ![c] =
                             [call[c] EXCEPT !.st = "retrying", !.retried = TRUE, !.stray = TRUE]]
      BY <3>1, <3>8
    <3>5. CASE call' = After
      BY <3>4, <3>5, CallsIntro
    <3>6. ASSUME NEW c \in Calls, call[c].page = t, refresh'[t].st = "sent",
                 call' = [After EXCEPT ![c] =
                             [call[c] EXCEPT !.st = "retrying", !.retried = TRUE, !.stray = TRUE]]
          PROVE  CallsInv' /\ WaitingCallsAreAwaited'
      <4> DEFINE k == [call[c] EXCEPT !.st = "retrying", !.retried = TRUE, !.stray = TRUE]
      <4>1. CallAwaited(k)
        BY <1>0, <3>6 DEF CallAwaited, CallRow
      <4> HIDE DEF k
      <4>2. call'[c] = k /\ \A d \in Calls \ {c} : call'[d] = After[d]
        BY <3>6 DEF k, After
      <4> QED BY <3>4, <4>1, <4>2, CallsIntro
    <3> QED BY <3>5, <3>6, <3>7
  <2>3. CASE Login(t)
    <3>1. call' = Unloaded(t) /\ \A s \in Pages \ {t} : refresh'[s] = refresh[s]
      BY <1>0, <2>3 DEF Login
    <3> QED BY <3>1, <1>u
  <2>4. ASSUME NEW u, Loaded(t, u) PROVE CallsInv' /\ WaitingCallsAreAwaited'
    <3>1. call' = Unloaded(t) /\ \A s \in Pages \ {t} : refresh'[s] = refresh[s]
      BY <1>0, <2>4 DEF Loaded
    <3> QED BY <3>1, <1>u
  <2>5. CASE ZkProofAnswers(t)
    <3>1. call' = call /\ refresh' \in {refresh, JoinedRefresh(t, store.token)}
      BY <2>5 DEF ZkProofAnswers
    <3>2. \A s \in Pages : refresh[s].st # "none" => refresh'[s].st # "none"
      BY <1>0, <3>1 DEF JoinedRefresh, Waits
    <3> QED BY <3>1, <3>2, <1>k
  <2>6. ASSUME Logout(t) \/ CodeExchanged(t) \/ ExchangeFails(t) \/ LightClientAnswers(t)
        PROVE  CallsInv' /\ WaitingCallsAreAwaited'
    <3>1. call' = call /\ refresh' = refresh
      BY <2>6 DEF Logout, CodeExchanged, ExchangeFails, LightClientAnswers
    <3> QED BY <3>1, <1>k
  <2> QED BY <1>3, <2>1, <2>2, <2>3, <2>4, <2>5, <2>6 DEF PageSteps, Reload, Callback
<1>4. CASE UNCHANGED vars
  BY <1>4, <1>k DEF vars
<1> QED BY <1>1, <1>2, <1>3, <1>4 DEF Next

-----------------------------------------------------------------------------
(* The credentials.                                                          *)

(* A pair that belongs to the user of the storage once the step is over.     *)
OursNext(g) == g \in Pairs /\ pair'[g].owner = store.user

(* The user of the storage stays: every key and every refresh is as it was, or
   was written for the same user.                                            *)
LEMMA OneUserKept ==
    ASSUME TypeOK, TokensInv, PairsGrow, OneUser,
           store'.user = store.user,
           store'.token \in {0, store.token} \/ OursNext(store'.token),
           store'.light \in {None, store.light, store.user},
           store'.zk \in {None, store.zk, store.user},
           \A t \in Pages : \/ page'[t].at \notin {"light", "zk"}
                            \/ page'[t].code = store.user
                            \/ page'[t].at = page[t].at /\ page'[t].code = page[t].code,
           \A t \in Pages : \/ refresh'[t] = refresh[t]
                            \/ refresh'[t].st \notin {"sent", "answered"}
                            \/ refresh'[t].token \in {0, store.token}
                            \/ OursNext(refresh'[t].token)
    PROVE  OneUser'
<1>0. /\ 0..MaxPairs = Pairs \cup {0} /\ 0 \notin Pairs
      /\ store.token \in 0..MaxPairs /\ \A t \in Pages : refresh[t].token \in 0..MaxPairs
  BY TypeRows, PairFacts DEF StoreRow, RefreshRow
<1>1. store.token # 0 => pair'[store.token].owner = store.user
  BY <1>0 DEF TokensInv, WasIssued, PairsGrow, OneUser
<1>2. store'.token # 0 => pair'[store'.token].owner = store'.user
  BY <1>1 DEF OursNext
<1>3. ASSUME NEW t \in Pages, refresh'[t].st \in {"sent", "answered"}, refresh'[t].token # 0
      PROVE  pair'[refresh'[t].token].owner = store'.user
  <2>1. CASE refresh'[t] = refresh[t]
    <3>1. /\ refresh[t].token \in Pairs /\ pair[refresh[t].token].owner # None
          /\ pair[refresh[t].token].owner = store.user
      BY <1>0, <1>3, <2>1 DEF TokensInv, WasIssued, OneUser
    <3>2. pair'[refresh[t].token].owner = store.user
      BY <3>1 DEF PairsGrow
    <3> QED BY <2>1, <3>2
  <2>2. CASE refresh'[t].token \in {0, store.token}
    BY <1>1, <1>3, <2>2
  <2>3. CASE OursNext(refresh'[t].token)
    BY <2>3 DEF OursNext
  <2> QED BY <1>3, <2>1, <2>2, <2>3
<1>4. \A t \in Pages : page'[t].at \in {"light", "zk"} => page'[t].code = store'.user
  BY DEF OneUser
<1>5. store'.light \in {None, store'.user} /\ store'.zk \in {None, store'.user}
  BY DEF OneUser
<1> QED BY <1>2, <1>3, <1>4, <1>5 DEF OneUser

(* The storage is cleared, and nothing is half way.                          *)
LEMMA OneUserCleared ==
    ASSUME store' = EmptyStore,
           \A t \in Pages : page'[t].at \notin {"light", "zk"},
           \A t \in Pages : refresh'[t].st = "none"
    PROVE  OneUser'
BY DEF OneUser, EmptyStore

LEMMA OneUserStep ==
    ASSUME TypeOK, PairsInv, TokensInv, LoginsInv, ~crossed => OneUser, PairsGrow, [Next]_vars,
           ~crossed'
    PROVE  OneUser'
<1>0. /\ store \in StoreRow /\ page \in [Pages -> PageRow] /\ refresh \in [Pages -> RefreshRow]
      /\ store.token \in 0..MaxPairs /\ \A t \in Pages : refresh[t].token \in 0..MaxPairs
      /\ 0 \notin Pairs /\ 0..MaxPairs = Pairs \cup {0}
  BY TypeRows, PairFacts DEF StoreRow, RefreshRow
(* Steps that leave the storage and the logins alone.                        *)
<1>k. ASSUME OneUser, store' = store, page' = page,
             \A t \in Pages : \/ refresh'[t] = refresh[t]
                              \/ refresh'[t].st \notin {"sent", "answered"}
                              \/ refresh'[t].token \in {0, store.token}
                              \/ OursNext(refresh'[t].token)
      PROVE  OneUser'
  BY <1>k, OneUserKept
<1>1. ASSUME OneUser, NEW t \in Pages, RefreshHandler(t) PROVE OneUser'
  <2> DEFINE g == refresh[t].token
  <2>1. /\ store' = store /\ page' = page /\ g \in 0..MaxPairs
        /\ refresh[t].st = "sent" /\ g # 0 => g \in Pairs /\ pair[g].owner = store.user
    BY <1>0, <1>1 DEF RefreshHandler, OneUser
  <2>2. \/ /\ g # 0 /\ pair[g].replay /\ UNCHANGED pair
           /\ refresh' = [refresh EXCEPT ![t] = [st |-> "answered", token |-> pair[g].next]]
        \/ \E n \in NextPair :
              /\ g # 0 /\ pair[g].live
              /\ pair' = Rotated(g, n)
              /\ refresh' = [refresh EXCEPT ![t] = [st |-> "answered", token |-> n]]
        \/ refresh' = [refresh EXCEPT ![t].st = "refused"]
    BY <1>1 DEF RefreshHandler
  <2>3. CASE /\ g # 0 /\ pair[g].replay /\ UNCHANGED pair
             /\ refresh' = [refresh EXCEPT ![t] = [st |-> "answered", token |-> pair[g].next]]
    <3>1. g \in Pairs /\ pair[g].owner = store.user
      BY <1>1, <2>1, <2>3 DEF RefreshHandler
    <3>2. OursNext(pair[g].next)
      BY <2>3, <3>1, PairFacts DEF PairsInv, OursNext
    <3> QED BY <1>0, <1>1, <1>k, <2>1, <2>3, <3>2
  <2>4. ASSUME NEW n \in NextPair, g # 0, pair[g].live,
               pair' = Rotated(g, n),
               refresh' = [refresh EXCEPT ![t] = [st |-> "answered", token |-> n]]
        PROVE  OneUser'
    <3>1. g \in Pairs /\ n \in Pairs /\ pair[g].owner = store.user
      BY <1>1, <2>1, <2>4 DEF RefreshHandler, NextPair
    <3>2. OursNext(n)
      BY <2>4, <3>1, PairRotated DEF OursNext
    <3> QED BY <1>0, <1>1, <1>k, <2>1, <2>4, <3>2
  <2>5. CASE refresh' = [refresh EXCEPT ![t].st = "refused"]
    <3>1. refresh'[t].st = "refused" /\ \A s \in Pages \ {t} : refresh'[s] = refresh[s]
      BY <1>0, <2>5 DEF RefreshRow
    <3> QED BY <1>1, <1>k, <2>1, <3>1
  <2> QED BY <2>2, <2>3, <2>4, <2>5
<1>2. ASSUME OneUser, NEW t \in Pages, RefreshLost(t) PROVE OneUser'
  <2>1. /\ store' = store /\ page' = page
        /\ refresh' = [refresh EXCEPT ![t] = [st |-> "lost", token |-> 0]]
    BY <1>2 DEF RefreshLost
  <2> QED BY <1>0, <1>2, <1>k, <2>1
<1>3. ASSUME OneUser, NEW g \in Pairs, LogoutHandler(g) \/ Expires(g) PROVE OneUser'
  <2>1. store' = store /\ page' = page /\ refresh' = refresh
    BY <1>3 DEF LogoutHandler, Expires
  <2> QED BY <1>3, <1>k, <2>1
<1>4. ASSUME OneUser, NEW c \in Calls, CallSteps(c) PROVE OneUser'
  <2>1. /\ store' = store /\ page' = page
        /\ refresh' = refresh \/ refresh' = JoinedRefresh(call[c].page, store.token)
    BY <1>4 DEF CallSteps, Send, Answered, Denied, QueryRetry, GivesUp
  <2>2. \A s \in Pages : refresh'[s] = refresh[s] \/ refresh'[s].token = store.token
    BY <1>0, <2>1 DEF JoinedRefresh
  <2> QED BY <1>4, <1>k, <2>1, <2>2
<1>5. ASSUME OneUser, NEW t \in Pages, PageSteps(t) PROVE OneUser'
  <2>h. ASSUME ~HalfWay PROVE /\ \A s \in Pages : page[s].at \notin {"light", "zk"}
                              /\ \A s \in Pages : refresh[s].st = "none"
    BY <2>h DEF HalfWay, LoginHalfWay, Waits
  <2>1. CASE RefreshSucceeds(t)
    <3>1. /\ store' = [store EXCEPT !.token = refresh[t].token] /\ page' = page /\ pair' = pair
          /\ refresh' = [refresh EXCEPT ![t] = NoRefresh] /\ refresh[t].st = "answered"
      BY <2>1 DEF RefreshSucceeds
    <3>2. refresh[t].token \in Pairs /\ OursNext(refresh[t].token)
      BY <1>0, <1>5, <3>1 DEF TokensInv, OneUser, OursNext
    <3>3. /\ store'.token = refresh[t].token /\ store'.user = store.user
          /\ store'.light = store.light /\ store'.zk = store.zk
      BY <1>0, <3>1 DEF StoreRow
    <3>4. \A s \in Pages : refresh'[s] = refresh[s] \/ refresh'[s].st = "none"
      BY <1>0, <3>1 DEF NoRefresh
    <3> QED BY <1>5, <3>1, <3>2, <3>3, <3>4, OneUserKept
  <2>2. CASE RefreshFails(t)
    <3> DEFINE Ends == \E c \in Calls : WaitsAt(call[c], t) /\ call[c].st = "retrying"
               Strays == IF refresh[t].st = "refused" /\ refresh[t].token # 0
                         THEN {c \in Calls : WaitsAt(call[c], t) /\ call[c].st = "held"} ELSE {}
    <3>1. \/ Strays = {} /\ refresh' = [refresh EXCEPT ![t] = NoRefresh]
          \/ \E c \in Strays : \E g \in (IF Ends THEN {0, store.token} ELSE {store.token}) :
                refresh' = [refresh EXCEPT ![t] = [st |-> "sent", token |-> g]]
      BY <2>2 DEF RefreshFails
    <3>4. IF Ends THEN ResetSession(t) ELSE UNCHANGED <<store, page>>
      BY <2>2 DEF RefreshFails
    <3>6. crossed' = (crossed \/ (Ends /\ (LoginHalfWay \/ Strays # {}
                                              \/ \E s \in Pages \ {t} : Waits(s))))
      BY <2>2 DEF RefreshFails
    <3> HIDE DEF Ends, Strays
    <3>5. ~ (Ends /\ (LoginHalfWay \/ (\E s \in Pages \ {t} : Waits(s)) \/ Strays # {}))
      BY <3>6
    <3>2. CASE Ends
      <4>1. /\ refresh' = [refresh EXCEPT ![t] = NoRefresh] /\ ResetSession(t)
            /\ ~LoginHalfWay /\ \A s \in Pages \ {t} : refresh[s].st = "none"
        BY <3>1, <3>2, <3>4, <3>5 DEF Waits
      <4>2. \A s \in Pages : refresh'[s].st = "none"
        BY <1>0, <4>1 DEF NoRefresh
      <4>3. store' = EmptyStore /\ \A s \in Pages : page'[s].at = page[s].at
        BY <1>0, <4>1 DEF ResetSession, PageRow
      <4> QED BY <4>1, <4>2, <4>3, OneUserCleared DEF LoginHalfWay
    <3>3. CASE ~Ends
      <4>1. store' = store /\ page' = page
        BY <3>3, <3>4
      <4>2. \A s \in Pages : \/ refresh'[s] = refresh[s]
                             \/ refresh'[s].st = "none"
                             \/ refresh'[s].token \in {0, store.token}
        BY <1>0, <3>1 DEF NoRefresh
      <4> QED BY <1>5, <1>k, <4>1, <4>2
    <3> QED BY <3>2, <3>3
  <2>3. CASE Login(t)
    <3>1. /\ store' = store /\ page' = [page EXCEPT ![t] = [SignedOut EXCEPT !.at = "provider"]]
          /\ refresh' = [refresh EXCEPT ![t] = NoRefresh]
      BY <2>3 DEF Login
    <3>2. page'[t].at = "provider" /\ \A s \in Pages \ {t} : page'[s] = page[s]
      BY <1>0, <3>1 DEF SignedOut
    <3>3. \A s \in Pages : refresh'[s] = refresh[s] \/ refresh'[s].st = "none"
      BY <1>0, <3>1 DEF NoRefresh
    <3> QED BY <1>5, <3>1, <3>2, <3>3, OneUserKept
  <2>4. ASSUME NEW u, store' = store, Loaded(t, u) PROVE OneUser'
    <3>1. \E at \in {"out", "code"} : \E user, light, zk : page' = [page EXCEPT ![t] =
             [at |-> at, code |-> u, user |-> user, light |-> light, zk |-> zk]]
      BY <2>4 DEF Loaded
    <3>2. page'[t].at \in {"out", "code"} /\ \A s \in Pages \ {t} : page'[s] = page[s]
      BY <1>0, <3>1
    <3>3. \/ refresh' = [refresh EXCEPT ![t] = [st |-> "sent", token |-> store.token]]
          \/ refresh' = [refresh EXCEPT ![t] = NoRefresh]
      BY <2>4 DEF Loaded
    <3>4. \A s \in Pages : \/ refresh'[s] = refresh[s]
                           \/ refresh'[s].st = "none"
                           \/ refresh'[s].token = store.token
      BY <1>0, <3>3 DEF NoRefresh
    <3> QED BY <1>5, <2>4, <3>2, <3>4, OneUserKept
  <2>5. CASE Logout(t)
    <3>1. store' = EmptyStore /\ ~HalfWay /\ refresh' = refresh /\ ResetSession(t)
      BY <2>5 DEF Logout, ResetSession
    <3>2. \A s \in Pages : page'[s].at = page[s].at
      BY <1>0, <3>1 DEF ResetSession, PageRow
    <3> QED BY <2>h, <3>1, <3>2, OneUserCleared
  <2>6. CASE CodeExchanged(t)
    <3> DEFINE u == page[t].code
    <3>1. /\ ~HalfWay /\ store.user = None /\ page[t].at = "code" /\ refresh' = refresh
          /\ page' = [page EXCEPT ![t] = [page[t] EXCEPT !.at = "light", !.user = u]]
      BY <1>0, <2>6 DEF CodeExchanged
    <3>2. PICK n \in NextPair : pair' = Issued(n, u) /\ store' = [store EXCEPT !.token = n, !.user = u]
      BY <2>6 DEF CodeExchanged
    <3>3. u \in Owners /\ u # None
      BY <1>0, <3>1 DEF LoginsInv, PageRow
    <3> HIDE DEF u
    <3>4. pair'[n].owner = u
      BY <3>2, <3>3, PairIssued
    <3>5. /\ store'.token = n /\ store'.user = u
          /\ store'.light = store.light /\ store'.zk = store.zk
      BY <1>0, <3>2 DEF StoreRow
    <3>6. store.light = None /\ store.zk = None
      BY <1>5, <3>1 DEF OneUser
    <3>7. /\ page'[t].code = u
          /\ \A s \in Pages \ {t} : page'[s].at \notin {"light", "zk"}
      BY <1>0, <2>h, <3>1 DEF PageRow, u
    <3>8. \A s \in Pages : refresh'[s].st = "none"
      BY <2>h, <3>1
    <3>9. \A s \in Pages : page'[s].at \in {"light", "zk"} => page'[s].code = store'.user
      BY <3>5, <3>7
    <3> QED BY <3>4, <3>5, <3>6, <3>8, <3>9 DEF OneUser
  <2>7. CASE ExchangeFails(t)
    <3>1. /\ store' = EmptyStore /\ ~HalfWay /\ refresh' = refresh
          /\ page' = [page EXCEPT ![t] = [SignedOut EXCEPT !.code = page[t].code]]
      BY <2>7 DEF ExchangeFails
    <3>2. page'[t].at = "out" /\ \A s \in Pages \ {t} : page'[s] = page[s]
      BY <1>0, <3>1 DEF SignedOut
    <3>3. \A s \in Pages : page'[s].at \notin {"light", "zk"}
      BY <2>h, <3>1, <3>2
    <3> QED BY <2>h, <3>1, <3>3, OneUserCleared
  <2>8. CASE LightClientAnswers(t)
    <3>1. /\ page[t].at = "light" /\ refresh' = refresh
          /\ store' \in {store, [store EXCEPT !.light = page[t].code]}
          /\ \/ page' = [page EXCEPT ![t] = [page[t] EXCEPT !.at = "zk", !.light = page[t].code]]
             \/ page' = [page EXCEPT ![t] = [page[t] EXCEPT !.at = "zk"]]
      BY <1>0, <2>8 DEF LightClientAnswers
    <3>2. page[t].code = store.user
      BY <1>5, <3>1 DEF OneUser
    <3>3. /\ store'.token = store.token /\ store'.user = store.user
          /\ store'.light \in {store.light, store.user} /\ store'.zk = store.zk
      BY <1>0, <3>1, <3>2 DEF StoreRow
    <3>4. page'[t].code = store.user /\ \A s \in Pages \ {t} : page'[s] = page[s]
      <4> DEFINE row == page[t]
      <4>1. row \in PageRow /\ row.code = store.user /\ page \in [Pages -> PageRow]
        BY <1>0, <3>2
      <4>2. \E r : page' = [page EXCEPT ![t] = r] /\ r.code = store.user
        <5>1. /\ [row EXCEPT !.at = "zk", !.light = row.code].code = row.code
              /\ [row EXCEPT !.at = "zk"].code = row.code
          BY <4>1 DEF PageRow
        <5> QED BY <3>1, <4>1, <5>1
      <4> QED BY <4>1, <4>2
    <3> QED BY <1>5, <3>1, <3>3, <3>4, OneUserKept
  <2>9. CASE ZkProofAnswers(t)
    <3>1. /\ page[t].at = "zk" /\ refresh' \in {refresh, JoinedRefresh(t, store.token)}
          /\ store' \in {store, [store EXCEPT !.zk = page[t].code]}
      BY <2>9 DEF ZkProofAnswers
    <3>2. page[t].code = store.user
      BY <1>5, <3>1 DEF OneUser
    <3>3. /\ store'.token = store.token /\ store'.user = store.user
          /\ store'.zk \in {store.zk, store.user} /\ store'.light = store.light
      BY <1>0, <3>1, <3>2 DEF StoreRow
    <3>4. \/ page' = [page EXCEPT ![t] = [page[t] EXCEPT !.at = "out", !.code = None, !.zk = page[t].code]]
          \/ page' = [page EXCEPT ![t] = [page[t] EXCEPT !.at = "out", !.code = None]]
      BY <1>0, <2>9 DEF ZkProofAnswers
    <3>5. page'[t].at = "out" /\ \A s \in Pages \ {t} : page'[s] = page[s]
      BY <1>0, <3>4 DEF PageRow
    <3>6. \A s \in Pages : refresh'[s] = refresh[s] \/ refresh'[s].token = store.token
      BY <1>0, <3>1 DEF JoinedRefresh
    <3> QED BY <1>5, <3>3, <3>5, <3>6, OneUserKept
  <2> QED BY <1>5, <2>1, <2>2, <2>3, <2>4, <2>5, <2>6, <2>7, <2>8, <2>9
       DEF PageSteps, Reload, Callback
<1>6. CASE UNCHANGED vars
  BY <1>6, <1>k DEF vars, OneUser
<1>7. ~crossed
  BY DEF Next, ServiceSteps, RefreshHandler, RefreshLost, LogoutHandler, Expires, CallSteps, Send, Answered,
     Denied, QueryRetry, GivesUp, PageSteps, RefreshSucceeds, RefreshFails, Login, Reload, Logout,
     Callback, CodeExchanged, ExchangeFails, LightClientAnswers, ZkProofAnswers, vars
<1> QED BY <1>1, <1>2, <1>3, <1>4, <1>5, <1>6, <1>7 DEF Next, ServiceSteps

-----------------------------------------------------------------------------
(* The rotation of a pair.                                                   *)

(* One unfolding of the recursive function Latest.                           *)
LatestStep(f, g) ==
    IF g = 0 THEN 0 ELSE IF pair[g].next \in (g + 1)..MaxPairs THEN f[pair[g].next] ELSE g

(* There is a function that satisfies the recursion: one for the last n pairs,
   for every n.                                                              *)
LEMMA LatestExists == \E f : f = [g \in 0..MaxPairs |-> LatestStep(f, g)]
<1> DEFINE From(n, f) == \A g \in 0..MaxPairs : g + n >= MaxPairs => f[g] = LatestStep(f, g)
           N == {n \in Nat : \E f : From(n, f)}
<1>0. MaxPairs \in Nat
  BY SessionConstants DEF SessionConstants
<1>1. 0 \in N
  <2> DEFINE f == [g \in 0..MaxPairs |-> g]
  <2>1. From(0, f)
    BY <1>0 DEF LatestStep
  <2> QED BY <2>1
<1>2. ASSUME NEW n \in Nat, n \in N PROVE n + 1 \in N
  <2>1. PICK f : From(n, f)
    BY <1>2
  <2> DEFINE h == [g \in 0..MaxPairs |-> IF g + n >= MaxPairs THEN f[g] ELSE LatestStep(f, g)]
  <2>2. ASSUME NEW g \in 0..MaxPairs, g + (n + 1) >= MaxPairs PROVE h[g] = LatestStep(h, g)
    <3>1. LatestStep(h, g) = LatestStep(f, g)
      <4>1. ASSUME NEW k \in (g + 1)..MaxPairs PROVE h[k] = f[k]
        BY <1>0, <2>2, <4>1
      <4> HIDE DEF h
      <4> QED BY <4>1 DEF LatestStep
    <3>2. h[g] = LatestStep(f, g)
      <4> HIDE DEF LatestStep
      <4> QED BY <2>1
    <3> QED BY <3>1, <3>2
  <2> HIDE DEF h, From
  <2>3. From(n + 1, h)
    BY <2>2 DEF From
  <2> QED BY <2>3
<1>3. MaxPairs \in N
  <2> HIDE DEF N
  <2> QED BY <1>0, <1>1, <1>2, NatSetInduction
<1>4. PICK f : \A g \in 0..MaxPairs : f[g] = LatestStep(f, g)
  BY <1>0, <1>3
<1> DEFINE h == [g \in 0..MaxPairs |-> f[g]]
<1>5. \A g \in 0..MaxPairs : LatestStep(h, g) = LatestStep(f, g)
  BY <1>0 DEF LatestStep
<1>6. \A g \in 0..MaxPairs : h[g] = LatestStep(h, g)
  <2> HIDE DEF LatestStep
  <2> QED BY <1>4, <1>5
<1>7. h = [g \in 0..MaxPairs |-> LatestStep(h, g)]
  <2> HIDE DEF LatestStep
  <2> QED BY <1>6
<1> QED BY <1>7

(* A pair that nothing has replaced is its own latest.                       *)
LEMMA LatestOfLast ==
    ASSUME NEW g \in Pairs, pair[g].next = 0
    PROVE  Latest[g] = g
<1>0. MaxPairs \in Nat
  BY SessionConstants DEF SessionConstants
<1>1. Latest = CHOOSE f : f = [k \in 0..MaxPairs |-> LatestStep(f, k)]
  BY DEF Latest, LatestStep
<1>2. Latest = [k \in 0..MaxPairs |-> LatestStep(Latest, k)]
  <2> HIDE DEF LatestStep
  <2> QED BY <1>1, LatestExists, Zenon
<1>3. g \in 0..MaxPairs /\ g # 0
  BY <1>0 DEF Pairs
<1>4. Latest[g] = LatestStep(Latest, g)
  <2> HIDE DEF LatestStep
  <2>1. \A f : f = [k \in 0..MaxPairs |-> LatestStep(f, k)] => f[g] = LatestStep(f, g)
    BY <1>3
  <2> QED BY <1>2, <2>1
<1> QED BY <1>0, <1>3, <1>4 DEF LatestStep

-----------------------------------------------------------------------------
(* The theorems.                                                             *)

LEMMA SessionInit == Init => TypeOK /\ SessionInv
<1> SUFFICES ASSUME Init PROVE TypeOK /\ SessionInv
  OBVIOUS
<1>0. MaxPairs \in Nat /\ MaxClicks \in Nat /\ 0 \notin Pairs
  BY SessionConstants DEF SessionConstants, Pairs
<1>1. TypeOK
  <2>1. clicks \in 0..MaxClicks
    BY <1>0 DEF Init
  <2> QED BY <2>1, RowsIntro, TypeRows DEF Init
<1>2. /\ \A g \in Pairs : pair[g] = Unissued
      /\ \A t \in Pages : page[t] = SignedOut /\ refresh[t] = NoRefresh
      /\ \A c \in Calls : call[c] = NoCall
      /\ store = EmptyStore
  BY DEF Init
<1>3. PairsInv
  BY <1>2 DEF PairsInv, Unissued
<1>4. TokensInv
  BY <1>2 DEF TokensInv, WasIssued, NoRefresh, EmptyStore
<1>5. CallsInv /\ WaitingCallsAreAwaited
  BY <1>2 DEF CallsInv, WaitingCallsAreAwaited, NoCall
<1>6. LoginsInv
  BY <1>2 DEF LoginsInv, SignedOut
<1>7. OneUser
  BY <1>2 DEF OneUser, EmptyStore, SignedOut, NoRefresh
<1> QED BY <1>1, <1>3, <1>4, <1>5, <1>6, <1>7 DEF SessionInv

LEMMA SessionStep == TypeOK /\ SessionInv /\ [Next]_vars => TypeOK' /\ SessionInv'
<1> SUFFICES ASSUME TypeOK, SessionInv, [Next]_vars PROVE TypeOK' /\ SessionInv'
  OBVIOUS
<1> USE DEF SessionInv
<1>1. TypeOK'
  BY SessionTypes
<1>2. PairsInv' /\ PairsGrow
  BY PairsStep
<1>3. TokensInv'
  BY <1>2, TokensStep
<1>4. LoginsInv'
  BY LoginsStep
<1>5. CallsInv' /\ WaitingCallsAreAwaited'
  BY CallsStep
<1>6. ~crossed' => OneUser'
  BY <1>2, OneUserStep
<1> QED BY <1>1, <1>2, <1>3, <1>4, <1>5, <1>6

(* Every state of a run has the shape of the storage, the providers, the
   interceptors and the service's list, and satisfies SessionInv.            *)
THEOREM SessionAlways == Spec => [](TypeOK /\ SessionInv)
BY SessionInit, SessionStep, PTL DEF Spec

(* The state keeps the shape of the storage, the providers and the interceptors. *)
THEOREM SessionTypeCorrect == Spec => []TypeOK
BY SessionAlways, PTL

(* A call that the interceptors hold always has a refresh of its page to wait
   for (axios.service.ts): none is left behind when a refresh settles, a page
   reloads or a session ends.                                                *)
THEOREM NoCallIsForgotten == Spec => []WaitingCallsAreAwaited
<1>1. TypeOK /\ SessionInv => WaitingCallsAreAwaited
  BY DEF SessionInv
<1> QED BY <1>1, SessionAlways, PTL

(* Unless a sign-out cut into a login or a refresh, the keys of the storage
   belong to one user, however logins, refreshes, reloads and answers of any
   number of pages interleave.                                               *)
THEOREM StorageIsOfOneUser == Spec => []CredentialsOfOneUser
<1>1. TypeOK /\ SessionInv => CredentialsOfOneUser
  <2> SUFFICES ASSUME TypeOK, OneUser PROVE Cardinality(StoredOwners) <= 1
    BY DEF SessionInv, CredentialsOfOneUser
  <2>1. StoredOwners \in SUBSET {store.user}
    BY DEF OneUser, StoredOwners
  <2>2. IsFiniteSet({store.user}) /\ Cardinality({store.user}) = 1
    BY FS_Singleton
  <2>3. Cardinality(StoredOwners) <= Cardinality({store.user})
    BY <2>1, <2>2, FS_Subset
  <2> QED BY <2>2, <2>3
<1> QED BY <1>1, SessionAlways, PTL

(* A refresh that fails drops the session only when it had no answer, no token,
   a pair whose kept answer had run out, or a pair that a logout or its age had
   ended: repeated refreshes of one pair, from any number of pages, are answered
   with the pair that replaced it while the service has it.                  *)
THEOREM SessionsEndForACause == Spec => SessionEndsForACause
<1> DEFINE Cause(t) == LET g == refresh[t].token
                       IN \/ refresh[t].st = "lost" \/ g = 0
                          \/ pair[g].next # 0 /\ ~pair[g].replay
                          \/ ~pair[Latest[g]].live
           A == \A t \in Pages : RefreshFails(t) /\ store.token # 0 /\ store'.token = 0 => Cause(t)
<1>1. TypeOK /\ SessionInv => A
  <2> SUFFICES ASSUME TypeOK, SessionInv, NEW t \in Pages, RefreshFails(t),
                      refresh[t].st # "lost", refresh[t].token # 0,
                      ~(pair[refresh[t].token].next # 0 /\ ~pair[refresh[t].token].replay)
               PROVE  ~pair[Latest[refresh[t].token]].live
    OBVIOUS
  <2>1. refresh[t].st = "refused"
    BY DEF RefreshFails
  <2>2. ~pair[refresh[t].token].live /\ ~pair[refresh[t].token].replay
    BY <2>1 DEF SessionInv, TokensInv
  <2>3. refresh[t].token \in Pairs
    BY TypeRows, PairFacts DEF RefreshRow
  <2> QED BY <2>2, <2>3, LatestOfLast
<1> HIDE DEF A
<1>2. Spec => [][A]_vars
  BY <1>1, SessionAlways, PTL DEF Spec
<1> QED BY <1>2 DEF A, SessionEndsForACause
=============================================================================
