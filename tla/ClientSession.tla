--------------------------- MODULE ClientSession ---------------------------
(***************************************************************************)
(* The session of the web frontend (src/frontend): the pages a browser has *)
(* open share one localStorage, and each page keeps the state of           *)
(* AppProvider, one refresh promise (AuthenticationService.refreshPromise) *)
(* and the calls that went through the axios client of the dong-service.   *)
(* The dong-service's side is its list of live token pairs, the replay     *)
(* cache of RefreshHandler and the check of its middleware.                *)
(*                                                                         *)
(* A token pair is a number; access and refresh token of a pair share it   *)
(* (they share token_id in the code), and 0 is no token.                   *)
(***************************************************************************)
EXTENDS Naturals, FiniteSets

CONSTANTS
    Pages,      \* the pages (tabs) of one browser
    Users,      \* the accounts people sign in with on it
    Calls,      \* the calls that may be under way at once
    MaxPairs,   \* how many token pairs the service issues in a run
    MaxClicks,  \* how often people sign in, sign out, reload or stay away in a run
    None

ASSUME SessionConstants == /\ MaxPairs \in Nat \ {0} /\ MaxClicks \in Nat
                           /\ None \notin Pages \cup Users

VARIABLES
    store,    \* localStorage: the token pair, and whose credentials the other keys are
    cookie,   \* the cookie of the OAuth state: the page whose login it belongs to
    page,     \* AppProvider of each page, and how far its login has come
    refresh,  \* each page's refreshPromise: the call to /refresh it waits for
    call,     \* calls under way, as the interceptors see them
    pair,     \* the service: owner and standing of every pair it has issued
    leaving,  \* the pairs whose logout is on its way to the service
    crossed,  \* a sign-out met a login or a refresh half way (history)
    clicks    \* the clicks that the bound leaves

vars == <<store, cookie, page, refresh, call, pair, leaving, crossed, clicks>>

Pairs == 1..MaxPairs
Owners == Users \cup {None}

EmptyStore == [token |-> 0, user |-> None, light |-> None, zk |-> None]
SignedOut == [at |-> "out", code |-> None, user |-> None, light |-> None, zk |-> None]
NoRefresh == [st |-> "none", token |-> 0]
NoCall == [page |-> None, st |-> "idle", token |-> 0, retried |-> FALSE, stray |-> FALSE, tries |-> 0]
Unissued == [owner |-> None, live |-> FALSE, next |-> 0, replay |-> FALSE]

Init ==
    /\ store = EmptyStore /\ cookie = None
    /\ page = [t \in Pages |-> SignedOut]
    /\ refresh = [t \in Pages |-> NoRefresh]
    /\ call = [c \in Calls |-> NoCall]
    /\ pair = [g \in Pairs |-> Unissued]
    /\ leaving = {} /\ crossed = FALSE
    /\ clicks = MaxClicks

\* A pair that the service has not issued yet; pairs are issued in order.
NextPair == {g \in Pairs : /\ pair[g].owner = None
                           /\ \A h \in Pairs : h < g => pair[h].owner # None}

Issued(g, u) == [pair EXCEPT ![g] = [Unissued EXCEPT !.owner = u, !.live = TRUE]]

Clicked == clicks > 0 /\ clicks' = clicks - 1

----------------------------------------------------------------------------
(* The service *)

\* The middleware lets a call through when the pair is on the list and the
\* access token has not run out; how long it lasts is left open.
Accepts(g) == g # 0 /\ pair[g].live

\* A pair gives way to its successor, and the answer is kept to be replayed.
Rotated(g, n) == [Issued(n, pair[g].owner) EXCEPT ![g].live = FALSE, ![g].next = n, ![g].replay = TRUE]

\* A variant in which the handler does not look for a kept answer.
RefreshWithoutReplay(t) ==
    LET g == refresh[t].token
        Rotates == g # 0 /\ pair[g].live
    IN /\ refresh[t].st = "sent"
       /\ \/ /\ Rotates
             /\ \E n \in NextPair :
                   /\ pair' = Rotated(g, n)
                   /\ refresh' = [refresh EXCEPT ![t] = [st |-> "answered", token |-> n]]
          \/ ~Rotates /\ refresh' = [refresh EXCEPT ![t].st = "refused"] /\ UNCHANGED pair
       /\ UNCHANGED <<store, cookie, page, call, leaving, crossed, clicks>>

\* RefreshHandler answers a repeated request from its cache while it is there,
\* rotates a pair that is on the list, and refuses anything else.
RefreshHandler(t) ==
    LET g == refresh[t].token
        Answer(n) == refresh' = [refresh EXCEPT ![t] = [st |-> "answered", token |-> n]]
        Replayed == g # 0 /\ pair[g].replay
        Rotates == g # 0 /\ ~pair[g].replay /\ pair[g].live
    IN /\ refresh[t].st = "sent"
       /\ \/ /\ Replayed
             /\ Answer(pair[g].next)
             /\ UNCHANGED pair
          \/ /\ Rotates
             /\ \E n \in NextPair : pair' = Rotated(g, n) /\ Answer(n)
          \/ /\ ~Replayed /\ ~Rotates
             /\ refresh' = [refresh EXCEPT ![t].st = "refused"]
             /\ UNCHANGED pair
       /\ UNCHANGED <<store, cookie, page, call, leaving, crossed, clicks>>

\* Redis drops what has run out: an answer kept for a repeated request (after 20
\* seconds), or, when a browser is left alone for five days, a pair of the list.
Expires(g) ==
    /\ \/ /\ pair[g].replay /\ UNCHANGED clicks
          /\ pair' = [pair EXCEPT ![g].replay = FALSE]
       \/ /\ pair[g].live /\ Clicked
          /\ pair' = [pair EXCEPT ![g].live = FALSE]
    /\ UNCHANGED <<store, cookie, page, refresh, call, leaving, crossed>>

\* A call to /refresh gets no answer: the network, the lock of the handler
\* that is taken, or an error of the service after or before it rotated.
RefreshLost(t) ==
    /\ refresh[t].st \in {"sent", "answered"}
    /\ refresh' = [refresh EXCEPT ![t] = [st |-> "lost", token |-> 0]]
    /\ UNCHANGED <<store, cookie, page, call, pair, leaving, crossed, clicks>>

LogoutHandler(g) ==
    /\ g \in leaving
    /\ leaving' = leaving \ {g}
    /\ pair' = [pair EXCEPT ![g].live = FALSE]
    /\ UNCHANGED <<store, cookie, page, refresh, call, crossed, clicks>>

----------------------------------------------------------------------------
(* Calls of a page *)

Waits(t) == refresh[t].st # "none"

\* refreshLogin: a page joins the refresh under way, or starts one with g.
JoinedRefresh(t, g) ==
    IF Waits(t) THEN refresh ELSE [refresh EXCEPT ![t] = [st |-> "sent", token |-> g]]

\* The request interceptor holds a call while its page refreshes, and gives
\* it the token that is in the storage.
Sent(t, tries) == IF Waits(t) THEN [NoCall EXCEPT !.page = t, !.st = "held", !.tries = tries]
                  ELSE [NoCall EXCEPT !.page = t, !.st = "sent", !.token = store.token,
                                      !.tries = tries]

Send(t, c) ==
    /\ call[c].st = "idle"
    /\ call' = [call EXCEPT ![c] = Sent(t, 0)]
    /\ UNCHANGED <<store, cookie, page, refresh, pair, leaving, crossed, clicks>>

Answered(c) ==
    /\ call[c].st = "sent"
    /\ \/ /\ Accepts(call[c].token)
          /\ call' = [call EXCEPT ![c] = NoCall]
       \/ call' = [call EXCEPT ![c].st = "denied", ![c].token = 0]
    /\ UNCHANGED <<store, cookie, page, refresh, pair, leaving, crossed, clicks>>

\* The response interceptor: the first 401 of a call refreshes the token in
\* the storage, whatever token the call had; the second one is final.
Denied(c) ==
    /\ call[c].st = "denied"
    /\ \/ /\ call[c].retried
          /\ call' = [call EXCEPT ![c].st = "failed"]
          /\ UNCHANGED refresh
       \/ /\ ~call[c].retried
          /\ call' = [call EXCEPT ![c].st = "retrying", ![c].retried = TRUE]
          /\ refresh' = JoinedRefresh(call[c].page, store.token)
    /\ UNCHANGED <<store, cookie, page, pair, leaving, crossed, clicks>>

\* The query client runs a failed query once more, as a new call.
QueryRetry(c) ==
    /\ call[c].st = "failed" /\ call[c].tries = 0
    /\ call' = [call EXCEPT ![c] = Sent(call[c].page, 1)]
    /\ UNCHANGED <<store, cookie, page, refresh, pair, leaving, crossed, clicks>>

\* The page gives up a call that failed twice.
GivesUp(c) ==
    /\ call[c].st = "failed" /\ call[c].tries = 1
    /\ call' = [call EXCEPT ![c] = NoCall]
    /\ UNCHANGED <<store, cookie, page, refresh, pair, leaving, crossed, clicks>>

WaitsAt(k, t) == k.page = t /\ k.st \in {"held", "retrying"}

\* A variant in which the calls held by the request interceptor are forgotten.
RefreshResumesDenied(t) ==
    /\ refresh[t].st = "answered"
    /\ refresh' = [refresh EXCEPT ![t] = NoRefresh]
    /\ store' = [store EXCEPT !.token = refresh[t].token]
    /\ call' = [c \in Calls |-> IF call[c].page = t /\ call[c].st = "retrying"
                               THEN [call[c] EXCEPT !.st = "sent", !.token = refresh[t].token]
                               ELSE call[c]]
    /\ UNCHANGED <<cookie, page, pair, leaving, crossed, clicks>>

\* A refresh that succeeded: the pair goes to the storage, and the calls
\* that waited leave with it. A stray call (see RefreshFails) repeats the
\* refresh that was refused instead of itself, and is refused again.
RefreshSucceeds(t) ==
    LET n == refresh[t].token
        Resumed(k) == IF ~WaitsAt(k, t) THEN k
                      ELSE IF k.stray THEN [k EXCEPT !.st = "failed"]
                      ELSE [k EXCEPT !.st = "sent", !.token = n]
    IN /\ refresh[t].st = "answered"
       /\ refresh' = [refresh EXCEPT ![t] = NoRefresh]
       /\ store' = [store EXCEPT !.token = n]
       /\ call' = [c \in Calls |-> Resumed(call[c])]
       /\ UNCHANGED <<cookie, page, pair, leaving, crossed, clicks>>

LoginHalfWay == \E t \in Pages : page[t].at \in {"light", "zk"}
HalfWay == LoginHalfWay \/ \E t \in Pages : Waits(t)

\* A variant in which the key of the light client is not among the keys cleared.
ResetKeepsLightClient(t) ==
    /\ store' = [EmptyStore EXCEPT !.light = store.light]
    /\ page' = [page EXCEPT ![t].user = None, ![t].light = None, ![t].zk = None]

\* clearAuthStorage and resetSession. What a login or a refresh half way still
\* writes afterwards is not called back: crossed remembers that.
ResetSession(t) ==
    /\ store' = EmptyStore
    /\ page' = [page EXCEPT ![t].user = None, ![t].light = None, ![t].zk = None]

\* A refresh that failed rejects the calls that waited. A call that had been
\* denied ends the session (onSessionExpired). A held call is rejected with the
\* error of the refresh, which the response interceptor takes for the call's
\* own: after a 401 the first held call (the stray one) refreshes once more,
\* before or after the session has ended.
RefreshFails(t) ==
    LET Ends == \E c \in Calls : WaitsAt(call[c], t) /\ call[c].st = "retrying"
        Unauthorized == refresh[t].st = "refused" /\ refresh[t].token # 0
        Strays == IF Unauthorized THEN {c \in Calls : WaitsAt(call[c], t) /\ call[c].st = "held"} ELSE {}
        Rejected(k) == IF WaitsAt(k, t) THEN [k EXCEPT !.st = "failed"] ELSE k
        After == [c \in Calls |-> Rejected(call[c])]
    IN /\ refresh[t].st \in {"refused", "lost"}
       /\ \/ /\ Strays = {}
             /\ refresh' = [refresh EXCEPT ![t] = NoRefresh]
             /\ call' = After
          \/ \E c \in Strays :
             /\ \E g \in (IF Ends THEN {0, store.token} ELSE {store.token}) :
                   refresh' = [refresh EXCEPT ![t] = [st |-> "sent", token |-> g]]
             /\ call' = [After EXCEPT ![c] =
                           [call[c] EXCEPT !.st = "retrying", !.retried = TRUE, !.stray = TRUE]]
       /\ IF Ends THEN ResetSession(t) ELSE UNCHANGED <<store, page>>
       /\ crossed' = (crossed \/ (Ends /\ (LoginHalfWay \/ Strays # {}
                                            \/ \E s \in Pages \ {t} : Waits(s))))
       /\ UNCHANGED <<cookie, pair, leaving, clicks>>

----------------------------------------------------------------------------
(* Signing in and out *)

\* What the account panels offer: the menu with the logout to a user, the
\* login to anybody else. ProtectedRoute shows its page by the same test.
PanelOffers(t) == IF page[t].user # None THEN {"logout"} ELSE {"login"}
ShowsProtected(t) == page[t].user # None

\* login and the route oauth2/login: the state of this login becomes the cookie.
Unloaded(t) == [c \in Calls |-> IF call[c].page = t THEN NoCall ELSE call[c]]

Login(t) ==
    /\ page[t].at = "out" /\ "login" \in PanelOffers(t)
    /\ page' = [page EXCEPT ![t] = [SignedOut EXCEPT !.at = "provider"]]
    /\ cookie' = t
    /\ call' = Unloaded(t)
    /\ refresh' = [refresh EXCEPT ![t] = NoRefresh]
    /\ Clicked
    /\ UNCHANGED <<store, pair, leaving, crossed>>

\* A variant that restores the user from the token's key.
LoadedFromToken(t, u) ==
    /\ page' = [page EXCEPT ![t] = [at |-> "out", code |-> u, user |-> store.token,
                                   light |-> store.light, zk |-> store.zk]]
    /\ refresh' = [refresh EXCEPT ![t] = NoRefresh]
    /\ call' = call

\* The effect of AppProvider on a page that has just loaded: a user and a token
\* in the storage restore the session, and the socket that connects refreshes
\* the pair; otherwise a code in the address is exchanged.
Loaded(t, u) ==
    LET restored == store.user # None /\ store.token # 0
    IN /\ page' = [page EXCEPT ![t] =
                     [at |-> IF ~restored /\ u # None THEN "code" ELSE "out",
                      code |-> u,
                      user |-> IF restored THEN store.user ELSE None,
                      light |-> store.light,
                      zk |-> IF restored THEN store.zk ELSE None]]
       /\ refresh' = [refresh EXCEPT ![t] =
                        IF restored THEN [st |-> "sent", token |-> store.token] ELSE NoRefresh]
       /\ call' = Unloaded(t)

\* The provider sends the browser back, and the route oauth2/callback compares
\* the state it returns with the cookie, which lasts five minutes and belongs to
\* the last login, before it hands the code to the page.
Callback(t, u) ==
    /\ page[t].at = "provider"
    /\ \/ cookie = t /\ Loaded(t, u)
       \/ Loaded(t, None)
    /\ UNCHANGED <<store, cookie, pair, leaving, crossed, clicks>>

\* The user reloads a page: its memory and its calls are gone, the storage stays.
Reload(t) ==
    /\ page[t].at # "provider"
    /\ Loaded(t, page[t].code)
    /\ Clicked
    /\ UNCHANGED <<store, cookie, pair, leaving, crossed>>

\* handleAuthentication: the code becomes a pair (oauth2/userinfo and
\* OauthHandler); pair, key pair and user are stored together.
CodeExchanged(t) ==
    LET u == page[t].code IN
    /\ page[t].at = "code"
    /\ \E n \in NextPair :
          /\ pair' = Issued(n, u)
          /\ store' = [store EXCEPT !.token = n, !.user = u]
    /\ page' = [page EXCEPT ![t].at = "light", ![t].user = u]
    /\ crossed' = (crossed \/ HalfWay \/ store.user # None)
    /\ UNCHANGED <<cookie, refresh, call, leaving, clicks>>

\* The exchange fails: handleAuthentication resets the session, the one of
\* another page included.
ExchangeFails(t) ==
    /\ page[t].at = "code"
    /\ store' = EmptyStore
    /\ page' = [page EXCEPT ![t] = [SignedOut EXCEPT !.code = page[t].code]]
    /\ crossed' = (crossed \/ HalfWay)
    /\ UNCHANGED <<cookie, refresh, call, pair, leaving, clicks>>

\* createLightClient answers, or fails and leaves everything as it is.
LightClientAnswers(t) ==
    LET u == page[t].code IN
    /\ page[t].at = "light"
    /\ \/ /\ store' = [store EXCEPT !.light = u]
          /\ page' = [page EXCEPT ![t].at = "zk", ![t].light = u]
       \/ /\ page' = [page EXCEPT ![t].at = "zk"]
          /\ UNCHANGED store
    /\ UNCHANGED <<cookie, refresh, call, pair, leaving, crossed, clicks>>

\* fetchAndStoreZkProof answers or fails; then the socket connects, which
\* refreshes the pair in the storage, if there is one, and the code leaves
\* the address.
ZkProofAnswers(t) ==
    LET u == page[t].code IN
    /\ page[t].at = "zk"
    /\ \/ /\ store' = [store EXCEPT !.zk = u]
          /\ page' = [page EXCEPT ![t].at = "out", ![t].code = None, ![t].zk = u]
       \/ /\ page' = [page EXCEPT ![t].at = "out", ![t].code = None]
          /\ UNCHANGED store
    /\ refresh' = IF store.token = 0 THEN refresh ELSE JoinedRefresh(t, store.token)
    /\ UNCHANGED <<cookie, call, pair, leaving, crossed, clicks>>

\* logout: the service is told about the pair in the storage, and the storage
\* and the page are cleared without waiting for it.
Logout(t) ==
    /\ page[t].at # "provider" /\ "logout" \in PanelOffers(t)
    /\ leaving' = leaving \cup ({store.token} \ {0})
    /\ ResetSession(t)
    /\ crossed' = (crossed \/ HalfWay)
    /\ Clicked
    /\ UNCHANGED <<cookie, refresh, call, pair>>

----------------------------------------------------------------------------

ServiceSteps == \/ \E t \in Pages : RefreshHandler(t) \/ RefreshLost(t)
                \/ \E g \in Pairs : LogoutHandler(g) \/ Expires(g)

CallSteps(c) == \/ \E t \in Pages : Send(t, c)
                \/ Answered(c) \/ Denied(c) \/ QueryRetry(c) \/ GivesUp(c)

PageSteps(t) == \/ RefreshSucceeds(t) \/ RefreshFails(t)
                \/ Login(t) \/ Reload(t) \/ Logout(t)
                \/ \E u \in Users : Callback(t, u)
                \/ CodeExchanged(t) \/ ExchangeFails(t)
                \/ LightClientAnswers(t) \/ ZkProofAnswers(t)

Next == \/ ServiceSteps
        \/ \E t \in Pages : PageSteps(t)
        \/ \E c \in Calls : CallSteps(c)

Spec == Init /\ [][Next]_vars

----------------------------------------------------------------------------
(* Properties *)

Phases == {"out", "provider", "code", "light", "zk"}

\* The state has the shape of the storage, the providers and the interceptors.
TypeOK ==
    /\ store \in [token : 0..MaxPairs, user : Owners, light : Owners, zk : Owners]
    /\ cookie \in Pages \cup {None}
    /\ page \in [Pages -> [at : Phases, code : Owners, user : Owners, light : Owners, zk : Owners]]
    /\ refresh \in [Pages -> [st : {"none", "sent", "answered", "refused", "lost"},
                             token : 0..MaxPairs]]
    /\ call \in [Calls -> [page : Pages \cup {None}, st : {"idle", "held", "sent", "denied", "retrying", "failed"},
                                    token : 0..MaxPairs, retried : BOOLEAN,
                                    stray : BOOLEAN, tries : 0..1]]
    /\ pair \in [Pairs -> [owner : Owners, live : BOOLEAN, next : 0..MaxPairs, replay : BOOLEAN]]
    /\ leaving \subseteq Pairs
    /\ crossed \in BOOLEAN
    /\ clicks \in 0..MaxClicks

StoredOwners == ({store.user, store.light, store.zk}
                   \cup (IF store.token = 0 THEN {} ELSE {pair[store.token].owner})) \ {None}

\* The keys of the storage are written at four moments of a login and by every
\* refresh, and cleared together (clearAuthStorage). Unless a sign-out or a
\* second login cut into one of them, they all belong to one user: nobody
\* chats or proves as the user who was signed in before.
CredentialsOfOneUser == ~crossed => Cardinality(StoredOwners) <= 1

\* Where the rotation of a pair has arrived.
Latest[g \in 0..MaxPairs] ==
    IF g = 0 THEN 0 ELSE IF pair[g].next \in (g + 1)..MaxPairs THEN Latest[pair[g].next] ELSE g

\* Pages that refresh the same pair at once, answers that cross and reloads
\* that lose an answer do not end a session while the service still has its
\* answer: a page drops the session in the storage after a refresh only if the
\* refresh got no answer, had no token at all, came for a pair that had been
\* rotated and whose kept answer had run out, or its pair was ended by a
\* logout or its age (RefreshHandler, onSessionExpired).
SessionEndsForACause ==
    [][\A t \in Pages :
          RefreshFails(t) /\ store.token # 0 /\ store'.token = 0
            => LET g == refresh[t].token
               IN \/ refresh[t].st = "lost" \/ g = 0
                  \/ pair[g].next # 0 /\ ~pair[g].replay
                  \/ ~pair[Latest[g]].live]_vars

\* A call that waits for a refresh has one to wait for: a call the interceptors
\* hold, or that was denied, resumes or fails when the refresh of its page
\* settles, and no page settles its refresh and leaves one of them behind.
WaitingCallsAreAwaited ==
    \A c \in Calls : call[c].st \in {"held", "retrying"} => Waits(call[c].page)

----------------------------------------------------------------------------
(* The invariant behind these properties *)

\* What the service knows of its pairs: a live or rotated pair was issued to
\* somebody, and its successor to the same; only the answer of a rotation is kept.
PairsInv ==
    \A g \in Pairs :
        /\ pair[g].live \/ pair[g].next # 0 => pair[g].owner # None
        /\ pair[g].next # 0 => pair[pair[g].next].owner = pair[g].owner
        /\ pair[g].live => pair[g].next = 0
        /\ pair[g].replay => pair[g].next # 0

\* Tokens that the browser holds were issued; one that was refused to a
\* refresh is not live and has no kept answer, and stays so.
WasIssued(g) == g # 0 => pair[g].owner # None
TokensInv ==
    /\ WasIssued(store.token)
    /\ \A t \in Pages :
          /\ WasIssued(refresh[t].token)
          /\ refresh[t].st = "answered" => refresh[t].token # 0
          /\ refresh[t].st = "refused" /\ refresh[t].token # 0 =>
                ~pair[refresh[t].token].live /\ ~pair[refresh[t].token].replay

\* A call under way is a page's, and a login under way somebody's.
CallsInv == \A c \in Calls : call[c].st # "idle" => call[c].page \in Pages
LoginsInv == \A t \in Pages : page[t].at \in {"code", "light", "zk"} => page[t].code # None

\* Unless they were crossed, the storage, the logins and the refreshes that
\* still write to it are of one user.
OneUser ==
    /\ store.token # 0 => pair[store.token].owner = store.user
    /\ store.light \in {None, store.user}
    /\ store.zk \in {None, store.user}
    /\ \A t \in Pages : page[t].at \in {"light", "zk"} => page[t].code = store.user
    /\ \A t \in Pages : refresh[t].st \in {"sent", "answered"} /\ refresh[t].token # 0 =>
                           pair[refresh[t].token].owner = store.user

SessionInv == /\ PairsInv /\ TokensInv /\ CallsInv /\ LoginsInv
              /\ WaitingCallsAreAwaited
              /\ ~crossed => OneUser
============================================================================
