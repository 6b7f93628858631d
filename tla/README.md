# Verification of mmn-tx-explorer

The repository is a block explorer and a small financial product on top of the MMN
blockchain. This directory holds TLA+ models of the parts in which money or blocks can be lost
and of the pages through which users move them, TLC runs of small instances, and TLAPS proofs
for instances of every size. Paths below are relative to the repository; `dong` stands for
`dong-service`.

1. [The system](#1-the-system)
2. [Plan](#2-plan)
3. [Models and the code](#3-models-and-the-code)
4. [Runs](#4-runs)
5. [Fairness](#5-fairness)
6. [Proofs](#6-proofs)
7. [Simplifications, and what is not modelled](#7-simplifications-and-what-is-not-modelled)
8. [Disagreements found](#8-disagreements-found)

## 1. The system

Three Go services and a Next.js frontend. `dong-service` (HTTP handlers, services,
repositories, schedulers) runs donation campaigns, red envelopes and peer-to-peer trading.
`indexer` polls the chain, stages blocks, and commits them to Postgres. `socket-service`
pushes Kafka events to browsers over WebSockets. The frontend creates and signs the
transfers itself, and shows what requests, caches, timers and events tell it.
Three facts shape everything else:

* **The tables `dong_schema.*` have two writers.** `dong-service` changes offers, orders
  and envelopes on behalf of users; the indexer changes the *same rows* when it commits a
  block with a transaction that mentions them (`indexer/internal/storage/postgres.go`,
  `red_envelope.go`).
* **There is no transaction across the stores.** A table row, a Redis key, a balance on
  the chain and the memory of a goroutine change one at a time; a crash, a timeout or
  another request may come between any two.
* **A page acts on what it has read before.** Answers come late, out of order or not at all;
  events are told once; a navigation is computed from the address of the last render, and a
  callback writes the state of the render that made it.

| Component | State | Operations | Talks to | Hard behaviour | What makes it correct |
|---|---|---|---|---|---|
| P2P trading (`dong/services/p2p_*`, `handlers/p2p_*`, `repository/p2p_*`) | `p2p_offers`, `p2p_orders` | create, cancel offers; create, confirm (buyer, seller), reopen orders | wallets, chain, indexer | handlers read without locks and act on copies; a chain transfer inside a transaction; a refund before a commit | the escrow pays only what was deposited; amounts add up; closed offers stay closed |
| Schedulers and the expired order job (`dong/scheduler`) | ticker goroutines, a list in memory | expire orders, give amounts back, refund | same tables, chain | one UPDATE over many orders of one offer; refunds after the commit | overdue orders settle; no refund of what was never paid in |
| Escrow wallets (`dong/repository/intermediary_wallet_repository.go`, `services/wallet_pool_service.go`) | `intermediary_wallet` | allocate, release, disable old, create new | P2P, red envelopes | several owners over time; maintenance against allocation | a wallet serves one owner at a time |
| Chain client (`dong/blockchain/transfer_grpc.go`) | none (nonce and balance live on the chain) | `TransferMoney` | MMN node over gRPC | the status poll gives up on a transaction that finalizes later | an error may still have moved the money |
| Indexer settlement of trades (`indexer/internal/storage/postgres.go`) | same tables as trading | confirm or fail offers and orders | node's blocks | duplicate and wrong deposits; deposits that land after a cancellation | only the exact deposit opens an offer or order |
| Red envelopes (`dong/services/red_envelope_service.go`, `repository/red_envelope_*`, `scheduler/red_envelope_expiry_job.go`, `indexer/internal/storage/red_envelope.go`) | `red_envelope`, `red_envelope_claim`, a Redis list and hash per envelope | create, publish, claim in three phases, cancel, close, expire | Redis, wallets, chain, indexer (HTTP call back to dong) | four stores per claim; a call over HTTP from inside the indexer's open transaction | nobody is paid twice or unfunded; counts are exact; no amount is handed out twice |
| Indexer pipeline (`indexer/internal/orchestrator`, `worker`, `publisher`) | last polled/committed/published block, staging tables | poll, stage, commit, publish | node, Postgres, Kafka | goroutines that share the staging table; work modes; restarts; concurrent inserts of one batch | no block is skipped, committed in order, published once it is committed |
| Reorganizations and failure recovery (`reorg_handler.go`, `failure_recoverer.go`) | block failures, committed blocks | replace a fork, retry failed blocks | pipeline's tables | walks back while the committer moves forward | the committed chain is a chain |
| Indexer query API (`indexer/internal/handlers`) | none | queries | tables | none | not a protocol |
| RPC client, serialization (`indexer/internal/rpc`, `common`) | none | fetch, decode | node | partial batches | results are data to the pipeline |
| Donation campaigns (`dong/handlers/donation_campaign*`, `repository/donation_campaign_*`) | campaigns, updates of the feed, statistics | create with a slug, change status, hide, recompute | indexer's tables, campaign pages | checks and writes are separate statements; statistics recomputed beside writes | status follows its life cycle; a slug is free when it is chosen |
| Authentication, sessions, whitelist (`dong/handlers/auth_handlers.go`, `middleware`, `database/whitelist.go`) | live token pairs and a replay cache in Redis | log in, refresh, log out | browser session | the same refresh token twice | only listed pairs pass; a repeated refresh gets the answer of the first |
| Payment info (`dong/services/user_payment_service.go`) | one row per bank of a user | save, delete, set primary | the two pages that edit it | four statements per deletion, without a lock | a user with accounts has one primary account |
| Socket service (`socket-service`) | hub's clients and rooms | register, join, leave, broadcast | Kafka, browser socket | channels, slow clients | an event goes to the clients of its room |
| Look-ups, uploads, health | none | queries | Postgres | none | - |
| Browser session (`frontend/providers`, `modules/auth`, `service/index.ts`) | `localStorage` of all tabs; per tab the provider, one refresh promise, the calls | sign in, call, refresh, sign out | authentication | tabs refresh and sign out independently | the stored credentials are one user's; no call waits for nothing |
| Browser socket (`frontend/lib/websocket`) | the manager's socket, timers, the room joined | connect, retry, join, leave | socket service | a replaced socket closes late | one watched connection, in the room of the page shown |
| Trading room and its chat (`frontend/modules/p2p/components/trading-room`) | the fetched order and a status laid over it; draft, uploads, connection, thread | confirm, release, reopen; write, attach, send | trading, chat service, browser socket | optimistic status against events and refetches; runs of one effect overtake each other | shows and announces only what happened; loses no message |
| Offers page (`frontend/modules/p2p/components/p2p-trading`) | tab, filters and page in the address; cached lists; dialogs | filter, page, cancel, reopen, look at orders | trading, browser socket | navigations replace each other; answers cross events | lists are those asked for, as new as what the page heard |
| Payment accounts, escrow forms (`create-offer-form`, `buy-amount-section.tsx`, `modules/transfer/hooks`) | forms, accounts as fetched, submissions under way | edit accounts; create an offer or order and transfer its amount | payment info, trading, chain | two tabs; overlapping submissions share a nonce | the account shown is the one offered; a row is paid once |
| Lucky money pages (`frontend/modules/lucky-money`) | form and its wait; claim page; owner's dashboard | create, deposit, share, open, claim, close | red envelopes, browser socket | an event races a timer and an answer; tabs | a code is shared for a decided envelope; what was shown is what is paid |
| Campaign pages (`frontend/modules/donation-campaign`) | forms, images, infinite feed, two lists, viewer | create, edit, publish, post, hide, filter, view | campaigns, IPFS | callbacks of an earlier render; cursor against changes | a wallet's key is saved; what is published is what was shown |
| Money dialogs (`donate-dialog.tsx`, `transfer-dialog.tsx`, `modules/transfer`) | form, balance, receipt | donate, withdraw, transfer | chain | a dialog is opened again during its transfer | a receipt is true |
| Search and wallet history (`modules/global-search`, `transaction-history-card.tsx`) | query and its answer; filters in the address; export | type, filter, page, export | indexer's API | late answers; an effect that navigates | results are of the text asked for; the page is there |
| Explorer, swap, game and developer pages, component library | none shared | queries | indexer's API | none | - |

The browser parts meet the services in three ways: HTTP calls whose answer may be lost, rows
another tab or party changes, and events of the socket service. Among themselves they share
`localStorage`, the cache of queries (react-query), and the address of the page.

`PROJECT.json` lists the same components with what is and is not modelled of each, and,
under `hazards`, each place where the code could go wrong in a way a test would hardly
reach, with the properties that look there.

## 2. Plan

In the order of what a mistake costs:

1. `P2PTrading` - offers, orders, escrow, the expiry job, the indexer's settlement.
   `OrderEscrow`, the abstract life of an order's money, and the refinement. **Done, proved.**
2. `RedEnvelope` - deposit, publication through the indexer, claims, ending. `ClaimLedger`, what
   becomes of an envelope's money and of each user's share, and the refinement. **Done, proved.**
3. `BlockPipeline` - poller, monitor, committer, publisher and cleanup of the indexer, with
   work modes, partial answers, partial batches and restarts. **Done, proved.** The abstract
   specification one would like, that the committed blocks grow as a prefix of the chain,
   is not what the code implements (section 8); what is proved instead says exactly where
   a missing block can come from.
4. `ClientSession`, then the pages: `TradingRoom`, `ChatComposer`, `ChatConnection`, `RoomSocket`,
   `PaymentAccounts`, `EscrowTransfers` (together `MCRoomPages`), `OfferListing`, `OfferDesk`,
   `TradeOrders`, `EnvelopeForm`, `EnvelopePages`, `CampaignPages`, `CampaignUpdate`,
   `CampaignFeed`, `CampaignList`, `ImageViewer`, `MoneyDialogs`, `GlobalSearch`,
   `WalletHistory` (together `MCSitePages`). **Done, proved.**
5. `BlockReorg` - the reorganization handler beside the committer, over chains that fork:
   it replaces rows the trades have already acted on. Runs: two forks of three blocks.
6. `WalletPool` - allocation and release (composed with the owners of wallets) beside the
   maintenance job that disables old wallets selected earlier. Theorem: an allocated wallet
   has one owner, under the conditions for which it holds.
7. `RandomSplit` - `GenerateRandomAmounts` with its int64 arithmetic as a function, against
   the set of splits that `RedEnvelope` uses.
8. `SocketHub`, `Whitelist` - delivery of an event to the connections of a room.

Every safety property that a run checks is a theorem (section 6), the two refinements included.
Theorems still worth proving need new statements: the owner of a wallet in `WalletPool`, and, for
the pipeline, the prefix specification for a run of the system in which no insertion fails
half way, as a refinement under that restriction.

## 3. Models and the code

In all models an action is what the code does without another actor in between: one
database transaction that holds its locks, one statement outside a transaction, one Redis
script, one transfer. A handler that reads a row without a lock and writes later takes two
actions or more, with what it still uses of the read kept in a variable. `map` in
`PROJECT.json` gives the lines of each definition.

### P2PTrading

| Variable | Code |
|---|---|
| `offers`, `orders` | rows of `p2p_offers`, `p2p_orders`; `due` is `expires_at` in the past |
| `wallets`, `balance` | status of `intermediary_wallet`; the wallet's balance on the chain |
| `pool`, `sent` | deposits on the chain that no committed block has settled |
| `slot` | a request's goroutine: what it has read and where it is |
| `refunding` | the slice `processRefunds` still has to work off |
| `paid`, `deposited`, `disturbed`, `lost` | history, read by properties only |

* `CreateOffer` is two actions: `CountActiveOffers` runs before the transaction.
* `ReadOfferForOrder` / `CreateOrder`: the handler checks the offer on an unlocked copy; the
  transaction locks the row but never looks at the status again.
* `ReadOrderForConfirm` / `BuyerConfirm` / `SellerTransfer`, `SellerComplete`,
  `SellerLosesCommit`: the seller's transaction first updates the order (its lock is
  `Locked(o)`), then transfers, then completes. An error after the transfer rolls all of it
  back, but not the money.
* `ReadOfferForCancel`, `CheckDisputes`, `CheckActive`, `RefundOffer`, `CancelCommit`: the
  cancellation's four statements and its transfer, each at its own time.
* `CancelExpiredOrders` is the one SQL statement of the job; UPDATE ... FROM joins an offer
  with one of its expired orders, so of two orders of one offer that expire together only
  one gives its amount back (`lost`). `RefundExpiredOrder` is one turn of `processRefunds`.
* `IndexBlock` commits a block with its four updates in the indexer's order.
* `Abandon` and `Crash` end a request, or all of them, anywhere.

### RedEnvelope

| Variable | Code |
|---|---|
| `envelopes`, `claims` | rows of `red_envelope`, `red_envelope_claim` |
| `queue`, `reserved` | the Redis list of amounts and hash of reservations |
| `wallets`, `balance`, `mined` | wallet status, balance, transactions of blocks not committed |
| `held` | rows whose `FOR UPDATE` lock is kept by a transaction that nothing ends, with the user whose request it was |
| `recent`, `lost` | what a request may have looked at before: claims written, and reservations that ran out, since the service started |
| `claiming` | the request of a claim: between its phases, after its transfer |
| `proc`, `todo` | cancel and close requests; the expiry job and the list it read |
| `indexing` | the block transaction the indexer has open, with what it validated |
| `payouts`, `deposited`, `stuck`, `taken` | history, read by properties only |

* `ReadBlock`, `PublishEnvelopes`, `FailEnvelopes`, `CommitBlock`: the indexer reads which
  PENDING envelopes a block funds, calls `dong-service` over HTTP (which writes at once),
  and commits later. `AbandonBlock` rolls the indexer back, not the calls; the block
  comes again.
* `AttemptClaim` is the Lua script; `ReserveClaim`, `PayClaim`, `SettleClaim` are the three
  phases of `ExecuteClaim`; `SettleClaimFails` is the update that fails after the transfer.
* The handler looks for a claim of its user, and for his reservation, without a lock, and begins
  `ExecuteClaim` later: `HasNotClaimed` and `VerifyReservation` are what such a request may have
  seen, in a service that has not been restarted since. Two requests of one user may therefore
  both reach phase 1.
* `RefuseClaim` is phase 1 on an envelope that is not published or has no turn left: it
  returns without a rollback, and the row stays locked (section 8). A second request of a user
  who took the last turn ends there, before the unique constraint could refuse its row.
* `CancelRedEnvelope`, `CloseSession`, `ProcessExpired` begin the three ways to end an envelope;
  `Refund`, `CancelWithoutRefund`, `UpdateRedEnvelope`, `ReleaseWallet` are their common steps.
* `Splits` is the set of lists `GenerateRandomAmounts` or the even split may write.
* `ClaimLedger` is what all this amounts to, without tables, Redis, blocks or requests: `Fund`,
  `Claim` and `Settle` of an envelope and a user's share of it. `Fund`, `Taken` and `Share` map the
  model to it: the deposit that arrived, the amount of a claim's row, and what became of it, where
  the chain's payment counts and not what the row says.

### BlockPipeline

| Variable | Code |
|---|---|
| `latest` | the node's last block, as `GetLatestBlockNumber` answers |
| `staged`, `committed` | the block numbers in `block_data` and in `blocks` |
| `monitor`, `mail` | `WorkModeMonitor.currentMode`; the channel of one element of each listener |
| `poller` | work mode, `lastPolledBlock`, whether `pollCtx` is alive |
| `worker` | each poll goroutine: idle, with a range it has computed, or waiting for the node |
| `committer` | work mode, `lastCommittedBlock`, and the batch of the tick: polled because it is missing (`filling`), or being inserted, with the blocks not done yet |
| `publishing`, `lastPublished`, `cleaning` | the publish goroutine's batch, its counter, the cleanup goroutine and what it has read |
| `torn`, `unreported` | history, read by properties only |

* `GetNextBlockRange` and `StartPoll` are two steps because the mutex of the range does not
  cover the assignment of `lastPolledBlock`: two workers may take one range, and a mode
  change in between may set the position back. `PollEnds` is the answer: any subset of the range
  arrives (a call that fails as a whole retries one block of its chunk and drops the
  others), the upsert into staging may fail, and an empty answer ends all polling.
* `MonitorChecks` puts the mode into each channel that is empty and drops it otherwise.
* `CommitStaged`, `PollMissing`, `CommitLive` are the outcomes of a tick of the committer: a
  batch without a gap from `MAX(block_number) + 1` on, a poll of what is missing, or a batch
  from the node. A block that the node reports as failed ends a live tick with nothing committed
  (`LivePoll`); one of a call that failed as a whole may be neither there nor reported. 0 means "no block" to `GetMaxBlockNumber`, so block 0 alone is committed again.
* `InsertBlock(n)` and `InsertBlockFails(n)` are the end of one block's transaction, with
  `Connections` of them open at a time; a failure stops the blocks that have not begun.
  `CommitFails` and `CommitSucceeds` are the `select` at the end of `InsertBlockData`. Both are
  possible after a failure, because both channels may be ready by then.
* `PublishEnds` and the cleanup (`CleanupReadsCommitted`, `CleanupReadsPublished`,
  `CleanupProcessedStagingBlocks`) are goroutines of their own. `Crash` stops
  everything and is the restart too: `NewPoller`, `NewCommitter` and the cleanup in
  `Committer.Start`.

### The pages

Every module below models one page, or one object a page keeps, of `frontend`: its React state
and refs, its timers, the requests under way, and as much of the service, the chain or the
socket as the page can see. An action is what runs between two waits: a click with all the
state it sets, an answer with the effects it triggers, an event, a timer. Values captured by a
callback (`data` of a confirmation, the status a button was drawn with) are variables.
react-query and the Next.js router are external: a query keeps its data until an answer or an
invalidation, cancels a read that is asked for again, and drops what nobody mounts; a
`router.replace` is computed from the address last rendered, takes time, and takes the place of
one under way. What users do is bounded by clicks, submissions or rows; every bound is a
constant. A variable marked *history* in its module only records which exception of a property
applies.

| Module | Code | State | Actions |
|---|---|---|---|
| `ClientSession` | `providers/AppProvider.tsx`, `modules/auth`, `service`, `dong/handlers/auth_handlers.go`, `dong/middleware` | `store` (localStorage), each tab's `page`, `refresh` promise and `call`; the service's pairs | login in its four writes, intercepted calls, the shared refresh, the replay cache and its end, sign-out and its lost request, reload |
| `TradingRoom` | `trading-room.tsx`, its buttons and sections, `useP2POrder`, `useReopenOrder` | `order` of the service; `room` (fetched order and `localStatus`); requests, fetches, events; `talk` | confirm, release, reopen, their answers, events, timers, the automatic message; scheduler, indexer and the other party on the service |
| `ChatComposer` | `chat-sidebar.tsx` (writing), upload hooks | `draft`, `outbox`, object URLs | write, attach, remove, submit, upload with retries, send, recover |
| `ChatConnection` | `chat-sidebar.tsx` (`initChat`, list of messages) | state and refs of the chat, runs of its effect, listeners | start, each wait of a run, cleanup, delivery, open and close the sheet |
| `RoomSocket` | `lib/websocket`, `useJoinRoom`, rooms of `socket-service` | `mgr`, `sock`, messages to the service, its `rooms` | connect, open, close early or late, retry, watch, join, leave, switch tabs |
| `PaymentAccounts` | `payment-section.tsx`, profile page, `user_payment_service.go` | the table, each tab's fetch, the form, the offer to confirm | fetch, type, save, delete in its four statements, any of which may fail, set primary, create the offer |
| `EscrowTransfers` | `create-offer-form`, `buy-amount-section.tsx`, `p2p-offers-list.tsx`, `useTransfer` | the form, submissions by step, rows, ledger and nonces | type, confirm, create the row, read the nonce, send, each answer or its loss |
| `OfferListing` | filters, pager and tabs of the offers page | address, navigation under way, filters typed, timers, layout | type, timer, pick, sort, page, switch tab or layout, follow a link |
| `OfferDesk` | `useP2POffers`, `useP2PMyOffers`, rows, `cancel-confirm-dialog.tsx` | one offer with an order; cached lists, debounce, dialogs | events, refetch, switch tab, cancel with its delayed refetch, mount and unmount of a row |
| `TradeOrders` | `useMyOrders`, `mobile/order-card.tsx`, `offer-orders-modal.tsx` | one order; cached list, debounce, dialog and its requests | events, refetch, reopen, open and close the dialog, late and failed answers |
| `EnvelopeForm` | `red-envelope-form`, `CreateRedEnvelopeContext.tsx`, `qr-review` | fields and messages, `phase`, QR code, timer; envelopes and deposits | type with revalidation, create, deposit, mark failed, event, timer |
| `EnvelopePages` | claim page, owner's dashboard and page of a session | the envelope; each tab's step; cache, reads and events | load, open, claim, answers; read, event, debounce, close |
| `CampaignPages` | `CreateCampaignContext`, `campaign-actions.tsx`, `donation_campaign_repository.go` | rows, create page and its wallet, edit pages, requests | fill, generate, download, submit, slug and insert, check and write of a status, leave |
| `CampaignUpdate` | `UpdateDonationContext`, `useUpdateForm.ts`, `UploadDonationImage.ts` | the form, the picker, batches and readers under way | pick, check types, compress, read, remove, submit |
| `CampaignFeed` | `useDonationFeed.ts`, `donation-feed.tsx`, the feed's query | rows of `user_content`, pages held, read under way | index, next page, read again page by page, a read that fails, hide and unhide |
| `CampaignList` | `active-campaign.tsx`, `useDualPaginationQueryParam.ts` | address, navigation, local pages, filters | type, filter, own campaigns, page, reload |
| `ImageViewer` | `image-viewer-modal.tsx`, image lists of posts and versions | expanded posts, viewer, touches | click, turn, close, touch |
| `MoneyDialogs` | `donate-dialog.tsx`, `transfer-dialog.tsx`, `modules/transfer` | the page, its transfer, the account | open, type, confirm, read the nonce, post, close, receipt |
| `GlobalSearch` | `global-search.tsx`, `useDebounce` | the box, the timer, requests | type, rest, answer, close, open |
| `WalletHistory` | `transaction-history-card.tsx`, filter dropdown, export dialog | address, navigation, dates, list, dialog | filter, page, clamp, pick dates, export and its answer |

### MC modules

`MCP2PTrading` and `MCRedEnvelope` add symmetry sets and, for runs about what follows it, a
starting point: the state that creation, deposit and settlement reach. Every property of a
run from such a state is about behaviours that continue from there; the runs `p2p_sell` and
`red_publish` start from the empty tables and reach it themselves. Two runs bound what happens
besides: `RequestsInTime` has the owner's requests end before `end_date`, `CalmAfterwards`
spares the second envelope of `red_overdue` the late claims that the first one has. `BlockPipeline` needs
neither and is run as it is.

`MCClientSession` adds the symmetry of tabs, users and calls. `MCRoomPages` and `MCSitePages`
put the pages of one part of the site into one run each: `part` chooses the page that is
followed, the others stay in one of their initial states, and the state space is the *sum* of
the pages', not their product. What pages share (the order's row, the socket's events) is in
each page's own model as its environment. That each page behaves there as it does by itself,
so that nothing is hidden by putting it beside the others, is a theorem (`PartsOfThePages` for
`MCRoomPages`, `PartsOfTheSite` for `MCSitePages`). The VIEW of these runs (`RoomFollowed`,
`PageFollowed`) is the page that is followed with its variables: the variables of the others keep
the one value they begin with, so that two states that agree on it are equal.

## 4. Runs

All passing runs finish by exhausting the state space. Deadlock is not checked for trades,
envelopes and pages: they end, or their bounds do, and so does the model. It is checked for the
pipeline, where it says little, since a restart is always possible.

| Run | Instance | Shows |
|---|---|---|
| `p2p_sell` | empty tables; one SELL offer of 2, two orders of 1, deposits of right and wrong amounts, requests beside job and indexer | types; spending was funded; COMPLETED was paid; the books balance; closed offers stay closed |
| `p2p_wallets` | empty tables; a SELL and a BUY offer one after the other on one wallet, an order, two deposits each | `P2PTrading` refines `OrderEscrow`, also when the wallet holds somebody else's dong |
| `p2p_overdue` | a BUY offer of 2 that trades, two orders that bring their escrow, a request beside the job | every overdue active order is settled; the books balance where each order has its own deposit |
| `red_publish` | empty tables; one envelope, two deposits of a right or wrong amount, one owner request in time, the job | types; only exact deposits make an envelope claimable; an ended envelope stays ended |
| `red_claims` | a published envelope of 3, one or two turns, two claimers with repeated requests, an owner request in time, the job, keys that expire | `claimed_count` is exact; what was handed out stays within the total; only the repeated request of a user who has a turn locks an open envelope |
| `red_overdue` | two envelopes one after the other on one wallet, a claimer, the job, crashes that end | SUCCESS was paid; an overdue envelope is ended, or tried and reported, or locked by a refused claim; `RedEnvelope` refines `ClaimLedger`, so that nobody is paid twice |
| `pipe_blocks` | a chain of up to three blocks, a poll worker, batches of three with two inserts at a time | a hole, a lost staged copy, a published block that is not there and a halted committer each need an insertion that went wrong; a live committer reaches the head |
| `session_pages` | two tabs, two users, two token pairs, three clicks | the stored credentials are one user's; a call that waits has a refresh to wait for; a session ends for a cause |
| `room_pages` | the six models of trading room, chat, socket, accounts and escrow forms | see below |
| `site_pages` | the thirteen models of the other pages | see below |

The properties of the page runs are conjunctions, one part per hazard, each with its comment
and its mutant (several have two or more):

| Property | Parts |
|---|---|
| `RoomIsHonest` | `NothingShownAhead`, `MessagesAreTrue`, `BusyButtonsAwait`, `PaidIsNotAskedAgain`, `GreetingKept`, `RightParty` |
| `NothingWrittenIsLost` | `SubmittedIsNotLost`, `PreviewsAlive`, `DeliveredAsWritten` |
| `ChatIsOfTheRoom` | `ChatFollowsTheRoom`, `ConnectedToTheParty`, `UnreadIsCounted`, `GroupsAreOfOneSender` |
| `SocketIsManaged` | `OneLine`, `WatchedWhileManaged`, `RoomFollowsTheTab` |
| `AccountsAgree` | `IdMatchesAccount`, `OfferedAsShown`, `PrimaryKept` |
| `PromisesAreTransferred` | `OneTransferPerRow`, `AnnouncedIsFunded` |
| `OffersAreCurrent` | `PageIsReset`, `TypedFilterIsShown`, `ShownIsHeard`, `OffersWhatIsAccepted`, `TradesAreHeard`, `OrdersOfTheOffer` |
| `FormIsHonest` | `ConfirmedIsAccepted`, `ErrorsAreCurrent`, `WaitingEnds`, `SharedIsDecided` |
| `AnnouncedIsTrue` | `ClaimedAsShown`, `StatusAsAnnounced`, `ReceiptIsTrue` |
| `CampaignsAreAsEdited` | `WalletsAreHeld`, `DeletedIsDraft`, `ChosenSlugIsFree`, `FormIsShown`, `PublishedAsShown` |
| `FeedsAreWhole` | `NothingTwice`, `NothingLeftOut`, `ToggledIsShown`, `NewFiltersFirstPage`, `OpensAtTheClick`, `TapsDoNotTurn`, `ResultsAreAskedFor`, `SearchEnds`, `PageIsThere`, `FiltersAreKept`, `ExportsAsPicked` |

Many of them have an exception ("unless a navigation was replaced"). Each
exception stands for a counterexample that TLC showed; what happens under it is in section 8, and
the notes of `hazards` say which of those outcomes a property forbids and which it only
confines to its cause.

The runs `p2p_wallet_claim` and `red_task_claim` each refute one sentence of the repository
(section 8).

**Bounds, and why they are enough.** Two orders on one offer are needed for the race over
the last amount, the joint expiry and the early release of a wallet; requests, job, indexer
and chain are actors of their own, and each race of the code is between one stale reader and
one writer. One wallet for two offers, or for two envelopes, forces reuse. Amounts 1 and 2
distinguish a partial from a whole order, and a wrong from an exact deposit; `MaxDeposits =
2` gives the double deposit. A total of 3 in two turns has a remainder, and random splits
have two solutions; one that comes out even is the even split, and is not started from a second
time. `Multiplier = 2` separates chain units from table units. Two claimers race for one turn when
the limit is 1. The refinement of `ClaimLedger` is checked where envelopes follow each other on one
wallet, with one claimer, equal shares and crashes; that two claimers keep within the deposit is
`PromisesWithinTotal` of `red_claims`, and the proof has any number of both. `MaxActiveOffers` and `MaxActiveOrders` are constants
of the code; 2 is high enough not to hide a race. Blocks of deposits are arbitrary non-empty
subsets of what waits, so every split into blocks, and every order of them, occurs.

In the pipeline three blocks are the least with a block below, in and above a gap of one batch;
a batch of three with two connections has a block in flight, one done and one not begun at
once; `LiveModeThreshold = 1` makes the chain's growth switch the modes in both
directions, and polls of two blocks are shorter than the batch, so that the committer meets
staging half full. The proofs hold for any number of workers and any chain; the same
invariants were checked by TLC on a chain of four blocks too.

On the pages a race needs two of something: two tabs and two token pairs (the refresh of one
against the logout of the other), two fetches that can overtake each other and an event between
them, three sockets (one that closes late, its successor, and the successor's own), two runs of
the chat's effect, two submissions that read one nonce, two accounts to choose from, two
dialogs or tabs of one user. Where one actor's history matters the bound is his clicks: three in
the session, two in the room (confirm and reopen, or reopen twice), four turns of the tab, four
changes of an order in the list of trades (through expiry and reopening back to where it was). The
market of an offer changes once, with an order that may be there when the page is opened. The late
answer to a first reopening that replaces a newer one needs three clicks (pay, reopen, reopen
again) and three terms: TLC showed it on such an instance, with twice the states, and the proof of
`RoomIsHonest` covers it; the run stops at two clicks. Lists have two pages, so that there is a page
above the last one a new filter has; the feed has pages of one post and three posts, so that the
next page and the reading again cross at every boundary; images are limited to two, with one already
posted, so that the limit is met by both. In the envelope form totals of 0 to 4 lie on both sides of
the balance of 3, counts of 0 to 3 on both sides of 2, and the limits of a random share go from 0 to 2, which
is below, at and above what an even share can be. Two payments and three openings of a money dialog
give a receipt of one transfer beside the form of the next.

**Mutants.** For every property of a passing run, `PROJECT.json` names a definition and a
plausible mistake in it (a missing WHERE, an ignored error, LINDEX for LPOP, an off-by-one
in the split, a timer that is not cleared, an answer of an earlier request that is let in); TLC
finds the property violated with it. A conjunction has a mutant for the parts in each module.

## 5. Fairness

* P2P: weak fairness of each request's next step, since a handler either ends or is cut off
  by its context (`BeginTx` uses the request's context, which rolls back with it), of the job
  (`scheduler.runTask` runs it on a ticker) and of each refund. Nothing is assumed of
  users, the chain's deposits or the indexer. A crash empties the slots and the job comes back.
* Red envelopes: weak fairness of the job's start and next envelope and of its steps, and
  that the service does not crash for ever and again (`<>[][~Crash]_vars`); without the
  last, a crash in every run of the job could keep one envelope from ever being handled.
  Nothing is assumed of claims, requests or the indexer.
  A row that a refused claim left locked is the exception of `OverdueEnvelopesHandled`; that
  the job then waits for good is finding `red_task_claim`, checked under the same fairness.

* Pipeline: weak fairness of a `CommitLive` that gets the whole batch it asked for and of the
  end of an insertion, strong fairness of `InsertBlock`. The first says that the committer's
  ticker runs and that the node at some time answers a whole batch, without a failed block,
  which is what a tick of `fetchBlockData` needs; it is only about a committer that
  stays in live mode, the premise of `LiveCatchesUp`. The last says that Postgres does not
  refuse every insertion for ever, however often it does. Nothing is assumed of the chain,
  the monitor, the poller, the publisher or of restarts: a process that restarts for ever
  leaves live mode, and the property then promises nothing. No such property holds of
  backfill mode: a poll that returns no block ends all polling
  (`orchestrator/poller.go:301`) until the process restarts.
* Pages: none. Users stop whenever they like, answers may never come, and the bounds on clicks
  end every run; the properties of the pages are about safety. "Something must end" is stated
  as what is missing when it cannot: a wait without a timer (`WaitingEnds`), a busy button
  without a request (`BusyButtonsAwait`), a held call without a refresh
  (`WaitingCallsAreAwaited`), a loading line at rest (`SearchEnds`).

## 6. Proofs

TLAPS checks every theorem for all values of the constants under the named assumptions of the
modules: the sets of rows, users, wallets, pages, banks, texts and files are of any size, amounts
are positive, and `Multiplier > 1` (`TokenMultiplier` is a power of ten); the chain is of any
length, with any batch sizes, threshold and number of connections; pages of a list are of any
size; runs, requests, submissions, sockets, clicks and turns are as many as one likes. The only
other things assumed are that a value that stands for "nothing" is none of the others, that there
is something to choose from (a bank, a fetch, a last page), and that what a form can hold is a
finite set. **Every safety property that a run expects to hold is a theorem.**

| Module | Proves, for every value of the constants |
|---|---|
| `SumTheorems` | what a sum over a finite set or a sequence is |
| `P2PTradingProofs` | `TypeOK`, `SpendingWasFunded`, `CompletedOrdersWerePaid`, `ClosedOffersStayClosed`, `BooksBalance`, the refinement of `OrderEscrow` |
| `RedEnvelopeProofs` | `TypeOK`, `ClaimsWereFunded`, `ClaimsPaidOnce`, `SuccessWasPaid`, `CountMatchesClaims`, `EndedEnvelopesStayEnded`, `PromisesWithinTotal`, `OnlyRepeatsLock`, the refinement of `ClaimLedger` |
| `BlockPipelineProofs` | `TypeOK`, `HolesComeFromTornInserts`, `PublishedAreCommitted`, `OnlyFalseSuccessHalts`, `StagedUntilCommitted` |
| `ClientSessionProofs` | `TypeOK`, `CredentialsOfOneUser`, `WaitingCallsAreAwaited`, `SessionEndsForACause` |
| `RoomPagesProofs` | six sections, one for each page of `MCRoomPages`, each with its inductive invariant: `RoomIsHonest`, `AccountsAgree`, `PromisesAreTransferred`, `ChatIsOfTheRoom`, `NothingWrittenIsLost`, `SocketIsManaged` and `RoomPagesTypeOK`, of each page and of the composed pages |
| `CampaignPagesProofs` | the same of the five pages of campaigns: creation and edit, updates, feed, lists, viewer |
| `SitePagesProofs` | the same of the other eight pages of `MCSitePages`; from both, `OffersAreCurrent`, `FormIsHonest`, `AnnouncedIsTrue`, `CampaignsAreAsEdited`, `FeedsAreWhole` and `SitePagesTypeOK` of the composed pages |

**Sums and maxima without induction over operators.** The library's induction theorems take an
operator, which no installed prover instantiates. Induction over a *set* can be stated:
`NatSetInduction` (a set that has 0 and with n also n + 1 has all naturals) and `SetInduction`
(the same for subsets of a finite set) follow from a minimal counterexample, which
well-foundedness of the naturals gives (`WFMin`), and each use defines the set of those for
which the claim holds. `SumTheorems` derives from them that `SumFunctionOnSet` is an integer,
that any element may be taken out first (`SumTakeOut`: the fold chooses one by CHOOSE), and how
a sum changes when its indices are renamed or some terms change. `MaxOfBlocks`, `LeastOf` and
`LatestOf` are the same argument for CHOOSE of a maximum or a minimum.

**Trading.** `TypeCorrect` is not only bookkeeping: that `available_amount` and balances stay
natural numbers depends on the WHERE of `ReserveQuantity` and on the chain refusing an
overdraft. (`TypeOK` says too that the deposits waiting for a block are finitely many; the sums
the indexer computes need it.) `SpendingWasFunded` is not inductive: a request that has read a
CONFIRMED offer pays later. `FundedInv` (`AlwaysFunded`) therefore says, of every holder of
stale knowledge, that what it holds was funded when it was read: `OffersInv` (an offer that
trades has its escrow), `OrdersInv` (an order beyond WAITING_TRANSFER has one, and an EXPIRED
order remembers from where it came, because reopening restores it), `SlotsInv` (what requests
have read), `RefundsInv` (what the job still refunds), `PoolInv` (an exact deposit that waits
for its block is on the chain). It is preserved because `deposited` only grows and every status
that spends is entered through `ConfirmedOffers` or `OpenedOrders`. The refinement is a step
simulation: a placement, a first exact deposit, or a first payment is the abstract step, and all
else stutters; an order's phase never goes back because its offer never changes.
`BooksAlwaysBalance`: `BooksInv` adds to the equation that only orders that exist are charged
and that these are finitely many. A step changes the charge of one order and `available` by the
same amount; the expiry job and a block change many at once, one order of each offer or all the
failed ones of it, which is where `SumTaken` and `SumRenamed` are needed.

**Red envelopes.** `RedInv` (`RedInvariant`) has `EnvelopeInv` (published, or claimed from,
means funded), `ClaimInv` (where a claim's request is against its row and its payments: a
request that is about to pay has a row that holds a turn and no payment yet, which is what makes
a second payment impossible), `TxInv` for waiting transactions, and `InsertionInv` for the block
the indexer has open, whose validated envelopes were funded although they may have been canceled
since. `ClaimedCountIsExact` adds the cardinality of the rows that hold a turn. `PromisesInv`
(`PromisesAlways`) is about the amounts: nothing is promised before publication, then the sum of
what was taken and is queued stays within the total, and the number of takers and of amounts left
within the turns; whatever a request may carry of its user, reserved now or before, was taken.
Both parts are needed for each other's steps; the second gives `OpenOnlyRepeatsLock`, because a
user who carries an amount and has no row that holds a turn is a taker whose turn is not counted
yet, so that he finds one.

*The refinement* (`EnvelopesImplementClaimLedger`) is a step simulation again. The deposit of the
exact amount is `Fund`, phase 1 of a claim is `Claim`, and `Settle` is the transfer that goes
through, or, without one, the row that is written FAILED; the later update of the row, by the
request or by the indexer, stutters, because a share that was paid reads "paid" whatever its row
says. `RedInv` gives the payments (`ClaimInv`: one at most, and none before its row),
`PromisesInv` that the shares taken stay within the deposit (`SharesPromised`). What neither says
is that the total of an envelope does not change once its deposit has come: `LedgerInv`
(`LedgerAlways`) adds that the deposits, the job's list, and the requests of an owner refer to rows
that exist, and `RowLasts` that such a row keeps its total.

**Pipeline.** `HolesComeFromTornInserts` is not inductive: nothing in it says what a batch
leaves behind *when it ends*. `PipelineInv` adds `BatchComesNext` (a batch lies above every
other committed block), `NoOtherHoles` (the same statement for the blocks of the batch, done or
not), `RangesAreOnChain` for the workers and `LastIsAccounted` (all below `lastCommittedBlock` is
committed, torn, or was reported by a false success), with `LimitIsAccounted` for what the
cleanup has read of it. They keep the cleanup safe: it reads two counters in a goroutine of its
own and deletes later, and every staged block below the lower one is accounted for whichever
values it caught. After a restart the counters come from the table, and the step from the broken
batch to `torn` is what makes the first cleanup safe too (`Restart`).

**Session.** `SessionInv` (`SessionAlways`): tokens in the browser were issued, and the
successor of a pair belongs to its owner, and only the answer of a rotation is kept (`PairsInv`,
`TokensInv`); calls and logins under way
are somebody's; and, unless a sign-out cut into a login or a refresh (`crossed`), the storage
and everything that will still write to it are of one user (`OneUser`), which is what makes
`CredentialsOfOneUser` survive a late answer. The proof found an error of the
model: when a refresh fails and the session ends, a call that was held may start another refresh
of the same page, and the history variable recorded that as crossing only where there were other
pages (`RefreshFails`).

**Trading room.** `RoomIsHonest` speaks of the screen; `RoomInv` of everything that may still
reach it. `Told(o, ...)`: an order that the service has given out at some time is an earlier one
of its present life (`Later`), whatever refresh carries it (`GetInv`) and whatever the page shows
(`ViewInv`); `PostInv` ties the answers under way to what the service has done, `TalkInv` the
chat's messages to the payment and the release. `PaidIsNotAskedAgain` needs the most: a buyer
who has paid sees OPEN again only through an answer older than his payment, so `ReopenInv` and
`BuyerInv` say which fetches can be under way before and after it. The attempt to prove it for
any number of terms failed for a reason: after a *second* reopening the refresh of the first may
still be on its way and its answer may come last. TLC shows it with three terms and three clicks,
and the property names it as an exception; nothing in `useP2POrder.ts` numbers its refreshes.

**Accounts and forms.** `AccountsInv` keeps one primary account at most, in each table a tab
holds as well as in the service's (`OnePrimary`), and says of a form that is not behind that it
shows what the table has (`ShownInv`); `PromotingInv` follows a deletion between its
statements: as long as none overlapped, failed or missed that its account was primary, it is the
only one, and before its row is marked there is a primary account.
`EscrowInv` (`EscrowAlways`) says that the row comes before its transfer and the transfer before
its announcement (`RowsInv`), that each transfer in the ledger is its submission's only one
(`LedgerInv`) and has a nonce not above the pool's (`NonceInv`), which is what makes the chain
refuse the second of two overlapping submissions; and that whatever is confirmed was checked
(`DealInv`, `SubmissionInv`). For the types, `PoolInv` counts: the pool's nonce is the number of
submissions that have sent.

**Chat and socket.** `ChatInv`: of the runs of `initChat` one at most is live (`RunsInv`); unless
one was overtaken while it connected, socket and channel are those of the live run (`FollowInv`),
and the badge is the number of messages heard since the sheet was closed, because a run is given
each message once (`DueInv`). `ComposerInv`: a text or file is in one place at a time
(`OnceInv`), what was submitted is accounted for (`SubmittedInv`), and the files uploaded so far
are those before the one at hand, in their order, but for those given up (`UploadInv`).
`SocketInv` (`SocketAlways`) adds `LineInv` (a connection is asked for only when none is left
that could deliver) and `MembershipInv` over `WillBeIn`: where a connection is once the service
has read what is on its way, which is the last message sent, and only `rooms` when there is none.

**The pages of the room as one.** `PartsOfThePages` is a lemma about the composition: a behaviour of `RoomPagesSpec` is one of each
of its six parts, since a step of the pages is a step of one part that leaves the others as they
are. What is proved of a part therefore holds of the composition: `RoomPagesTypeCorrect`,
`RoomPagesAreSound`.

**Envelope form.** `SharedIsDecided` is not inductive: nothing says that the QR code is that of
the envelope the page waits for. `FormInv` (`FormAlways`) adds `SessionsInv` (envelopes are
created in the order of their numbers, deposited only when created, and an event is sent of a
decided one) and `PhaseInv` (what each phase relies on: while it creates, a number is free; while
it pays, the newest envelope is its own; while it waits, its deposit is accepted and the QR code
is that of the envelope awaited; a timer's id that is set has its timer, unless a wait was given
up). `ErrorsAreCurrent` follows because a field that changes revalidates those that depend on it
and are on the page; those that the switch to random amounts brings back are `unchecked` until
then.

**Offers and orders.** `ListingInv`: a page chosen under other filters is already being left for
the first one, and the popover's timer is there only with its popover and behind the row's
(`PopoverInv`), so that the last of them to write is the one in sight. `HeardInv` and `ToldInv`
speak of what is on its way as well as of what is shown (`AsHeard`, `AsTold`): a fetch that has
been asked for but not answered is new enough, an answer is when it is as new as what was heard.
`ModalInv` says of the dialog that, unless answers crossed, every request under way is for the
offer it shows.

**Lucky money.** `ShownInv`: as long as an amount is reserved no tab shows another, and once no
reservation is left nothing remains to be popped for a tab that shows an amount; a page can
therefore not be paid what another tab has seen. `CacheInv` rests on `Due`: an untold change of a
session is being read, announced by an event, behind a timer, or will be found by the next mount.

**Money dialogs.** `MoneyInv`: while a transfer is under way the form that names it keeps its
amount and no receipt is drawn, unless the page was left and came back in between (`cut`).

**Campaigns.** `CampaignInv` follows a wallet from its generation (`CreationInv`: the create page
lets go of it only when its key was saved) through a request (`GoodCall`) to the row, where slugs
and wallets are unique (`GoodRows`). A slug that was just chosen is free because the
numbering starts above every stored one (`SlugIsFree`); an insertion that comes between may take
it, and then the unique column decides.

**Updates.** `UpdateInv`: unless somebody went on while images were handled (`crossed`),
there is one batch of `handleImageChange` or one read at most, and it carries the text and the
images of its render (`OneAtATime`), so that its late write of the form changes nothing else. The
upload may answer the new pictures in any order: what is published is the posted ones followed
by a permutation of the new ones.
What is left of a batch after compression is described by increasing index functions (`InOrder`):
each file's compression fails by itself, and those that succeed keep their order.

**Feed.** `FeedInv` is about the rows a reader has, page by page, read at different times of a
table that grows: each page has each root once, in descending times, and lies strictly below the
last post of the one before it (`Descend`); a root whose place did not change since (`moved`) is
on a page, below the last, or has exactly the time a page ended with (`Covers`) - the last
exception is the one `NothingLeftOut` makes, because the cursor is a time and the query says
`<`. The same holds of the pages of a read under way (`job.got`) with what moved since it began,
so that its answer may take their place. One page of the service is given by rank (`PlaceIn`): row
i is the root with i - 1 roots before it, and `Placed` shows of any finite set in a strict order
that each rank up to its size has its element. That is the SQL's `ORDER BY ... LIMIT`, in a form that can be
reasoned about without a sorted sequence.

**Lists, viewer, search, history.** `ListInv`: pages are reset with the filters, or the navigation
under way does it. `ViewerInv` keeps an index within its list, also in a closed viewer that will
be opened again, and nothing of a touch beyond its end. `SearchInv`: the live request is that of
the text searched last, and what it has not brought is on its way or was missed; late answers of
others find a controller that was aborted. `HistoryInv`: the list is on a page it has, a
navigation that replaced no other keeps the filters applied last, and the dates of the dialog
are both set and in order once it was open. Proving it found a missing assumption: a pager
without a last page (`LastPage = 0`) has no initial state of its type.

**The pages of the site as one.** `PartsOfTheSite`, as for the room: a behaviour of
`SitePagesSpec` is one of each of its thirteen parts.

**What stays with TLC alone**: liveness (`OverdueOrdersSettle`, `OverdueEnvelopesHandled`,
`LiveCatchesUp`) and the fairness it rests on, which need ENABLED; the two properties that
are expected to fail; and what the recursive or sorted forms of an algorithm would compute, which
the models avoid by stating what the result is.

## 7. Simplifications, and what is not modelled

* `TransferMoney` that reports an error but finalizes later moves the money at once. Its
  readers cannot tell: no code looks at a balance between the two.
* Orders of amount zero are not created (validation refuses them).
* Per-order limits, prices and payment details are validated against immutable columns.
* The checks of a claim before its transaction (`HasUserClaimed`, the reservation's check) are
  not an action: phase 1 chooses what they may have seen at some time since the service started
  (`recent`, `lost`). Of the requests of one user only the one whose row was written goes on.
* Wallet allocation (`FOR UPDATE SKIP LOCKED`) is serialized; two concurrent allocations
  take two wallets in either order.
* An indexer settlement waits for a row lock held by a request, in the database; the models
  let it come before or after instead of blocking it, except where a lock lasts (`Locked`,
  `held`).
* The expired Redis keys go any time after `end_date`; the code adds a grace period.
* Pipeline: registering a channel, `NewPoller` and `Committer.Start` are part of `Init` and
  `Crash`: a listener that registers before or after the first broadcast gets the mode
  either way. The two reads of the monitor are one step, and so are the reads a range is
  computed from: a later value of `latest` only gives a range that another step could have
  asked for. `FOR UPDATE SKIP LOCKED` skips a row that is being upserted: that is the
  deletion before the upsert.
* Failed reads of the database skip a tick and are left out, like every skipped tick.
* `block_failures` is written and never read: the recoverer is disabled in the configurations.
  The validator lets every block of this chain pass, since the transaction count it compares
  is the length of the list (`indexer/internal/rpc/serializer.go:79`).
* The publisher runs in its default mode, and a message that Kafka refuses is logged and
  counts as sent. `fromBlock` and `untilBlock` are 0.
* Pages: the service's handlers take one step where the models of the services have several,
  but for the deletion of an account, whose statements another page can come between; what the chain, Postgres and other users do between is an action of the page's environment.
* `RoomSocket` leaves the heartbeat's own messages out, and keeps its timer as `watch`.
* `OfferDesk` does not tell apart how an order ended; `TradeOrders` has one order on a SELL offer,
  and one card at most that is gone with its request under way.
* `EnvelopePages` has one request to close at a time; the lists of recipients and claims and
  the statistics are queries beside the ones modelled.
* `CampaignPages` leaves the texts out, and all campaigns have one name; `CampaignUpdate`
  measures sizes in images; `CampaignList` leaves the limits per page out.
* `WalletHistory` numbers days and counts a year as the days from 0.
* Not modelled yet: items 5 to 8 of the plan. Not going to be modelled: the query API, the
  RPC client, uploads, health checks, and the explorer, swap, game and developer pages with the
  component library - they change no shared state, or are single-row writes.

Hazards met in the services that no property covers, because their component or the step is
not modelled (those of the indexer are in section 8):

* The maintenance job disables wallets it selected earlier, by id only: one allocated in
  between is disabled in use (`dong/repository/intermediary_wallet_repository.go:89`).
* `max_amount * total_claims` is computed in `int64` (`dong/handlers/red_envelope.go:735`).
* The refunds of expired orders live in the job's memory only: after a failed transfer or a stop
  nobody tries again (`dong/scheduler/cancel_expired_orders_job.go:139`).
* A reorganization replaces blocks whose transactions have already confirmed offers, orders and
  envelopes (`indexer/internal/orchestrator/reorg_handler.go:54`).

## 8. Disagreements found

Each is a run that ends in a counterexample; `findings` in `PROJECT.json` quotes the sentence.

| Run | The code or its documents say | What happens |
|---|---|---|
| `p2p_wallet_claim` | a READY wallet is free | it is released while another order's escrow is in it |
| `red_task_claim` | a task runs on its interval | a refused claim leaves its row locked and the job waits for it for good |

Other behaviour that was met while modelling. It is in the models, so the properties above
hold in spite of it or name it as an exception, but no run is spent on it. In the services:

* The seller's confirmation tests PENDING on a copy read before the transaction: an order that
  expired meanwhile is paid (`dong/services/p2p_order_service.go:277`).
* The indexer is to reconcile PENDING claims, but compares chain units with table units
  and never does (`dong/repository/red_envelope_repository.go:882`).
* `indexer/README.md:53` says that blocks are committed sequentially; a batch that stops half
  way leaves a block out below its highest one, and the next batch starts above both
  (`indexer/internal/storage/postgres.go:715`).
* Reopening restores any previous status, an order that never had its deposit included
  (`dong/services/p2p_order_service.go:429`).
* `in_dispute` is set when a PENDING order expires and never cleared: a settled order still
  blocks its offer's cancellation (`dong/repository/p2p_order_repository.go:90`).
* Disputed and active orders are looked up in two statements; an order that expires between them
  is in neither answer (`dong/services/p2p_offer_service.go:326`).
* An envelope is PUBLISHED before its queue exists and stays so when the queue cannot be
  written (`dong/services/red_envelope_service.go:92`).
* A second request of one user that looked for a claim before the first wrote it meets the
  limit before the unique constraint: when the first took the last turn, the row of a PUBLISHED
  envelope stays locked (`dong/repository/red_envelope_repository.go:797`; the exception of
  `OnlyRepeatsLock`).
* A refresh token that was rotated is answered again for 20 seconds only: a lost answer, or
  another tab's old token after that, ends the session (`dong/handlers/auth_handlers.go:424`,
  [ClientSession]).
* The turn of a failed claim comes back without its amount: nobody can take it
  (`dong/repository/red_envelope_repository.go:918`).
* Closing or canceling releases a wallet from which a reserved claim is still to be paid
  (`dong/services/red_envelope_service.go:137`).
* When the last insert of a batch fails, `select` may take the end of all inserts for
  success (`indexer/internal/storage/postgres.go:732`). The committer then remembers a
  block the table does not have, and waits for it until the process restarts
  (`orchestrator/committer.go:270`).
* A poll without any block ends polling for good, as if `untilBlock` had been reached, where
  `indexer/README.md:47` says that the poller continuously fetches
  (`orchestrator/poller.go:301`).
* A batch that is committed while another is being published is never published
  (`orchestrator/committer.go:238`), and a mode that finds a full channel is not sent again
  (`orchestrator/work_mode_monitor.go:135`).
* `GetBlockFailures` appends `AND` conditions to a query without `WHERE`
  (`indexer/internal/storage/postgres.go:291`), outside the models: the recoverer is not
  modelled.

In the pages (`frontend/`; the module that has it in brackets):

* A failed envelope is announced as created, because the event's status is not read, and an event
  that comes before the answer of the transfer is lost (`CreateRedEnvelopeContext.tsx:153`,
  [EnvelopeForm]). The timer that gives a wait up leaves its id, and the effect's cleanup then
  clears the timer of the next wait, which may last for ever (`:51`). The switch to random amounts
  validates before the limits are mounted again: a wrong limit is shown without its message
  (`basic-info.tsx:185`). An event refetches the statistics but not the recipients, and joins a first
  read under way, whose answer may be older (`useRedEnvelopes.ts:66`, [EnvelopePages]).
* Overlapping submissions of an offer read the same nonce: the second row stays without its
  escrow (`isPending` covers the POST only, [EscrowTransfers]).
* The deletion of an account looks for the primary one and deletes later: a deletion that
  overlaps another, an account made primary in between, a failed look, or a failed promotion,
  whose error is dropped, leaves a user without a primary one (`user_payment_service.go:32`); a stale tab that sets another as primary undoes an edit
  ([PaymentAccounts]).
* A party who reopens an order sees OPEN whatever status was restored, and a buyer may be
  asked to pay what he has paid (`trading-room.tsx:443`, [TradingRoom]). Refreshes are not
  numbered: after a second reopening the late answer to the first may be the one that stays
  (`useP2POrder.ts`, `PaidIsNotAskedAgain`'s last exception).
* What is written while a message is on its way is overwritten when that message fails
  (`chat-sidebar.tsx:266`); an upload that answers null is tried for ever (`:228`,
  [ChatComposer]). A run of `initChat` that was overtaken sets its refs later: the chat
  listens twice, or is connected and says it is not ([ChatConnection]).
* A socket that closes late clears the manager's new one; after a close by the service nothing
  reconnects, and after a reconnection nothing joins again (`lib/websocket`, [RoomSocket]).
* The second of two navigations replaces the first: pages stay under new filters, and a
  hidden filter wipes the one in sight half a second later ([OfferListing], [CampaignList],
  `transaction-history-card.tsx:125` [WalletHistory]).
* The refetch a cancellation schedules is dropped with its row (`useCancelOffer.ts:25`,
  [OfferDesk]); a late or failed answer leaves another offer's orders in the dialog, and expired
  or reopened orders are not announced to lists (`offer-orders-modal.tsx:30`, [TradeOrders]).
* A status is checked and then written without a condition: a campaign that is published
  meanwhile is deleted. The slug check skips deleted rows, which the unique constraint does not
  (`donation_campaign_repository.go:490`, `:722`, [CampaignPages]).
* Taking a posted image away drops the new ones from the form, and readers write the form of an
  earlier render (`UploadDonationImage.ts:163`, `useUpdateForm.ts:24`). New pictures are published
  in the order of a Go map (`dong/handlers/donation_campaign_feed.go:228`, [CampaignUpdate]).
* The cursor of the feed skips posts of the very same millisecond, and reading on drops the
  refetch after a Hide (`useDonationFeed.ts:22`, `donation-feed.tsx:34`); when that refetch fails,
  the pages stay as they were, under a toast of success ([CampaignFeed]).
* A receipt is drawn from the form: a dialog opened again during its transfer shows an emptied
  one (`donate-dialog.tsx:40`, `transfer-dialog.tsx:48`, [MoneyDialogs]).
* The viewer, opened again at the same image, shows the one it was left at; a broken-off touch
  turns a page later (`image-viewer-modal.tsx:28`, `:45`, [ImageViewer]).
* The same text typed again within 400 ms after closing shows no results
  (`global-search.tsx:22`, [GlobalSearch]); a date of export that is emptied may leave the range
  reversed (`ExportTransactionsModal.tsx:26`, [WalletHistory]).
