----------------------------- MODULE RedEnvelope -----------------------------
(***************************************************************************)
(* Red envelopes ("lucky money") of the dong-service: an owner funds an    *)
(* envelope on the chain, the indexer sees the deposit and has the         *)
(* dong-service publish it, users take amounts from a queue in Redis and   *)
(* are paid from the envelope's wallet, and what is left goes back to the  *)
(* owner when the envelope is canceled, closed or expires.                 *)
(*                                                                         *)
(* Four stores change one at a time, with no transaction across them: the  *)
(* tables, Redis, the chain, and the memory of the running requests.  An   *)
(* action is one database transaction or statement, one Redis script, or   *)
(* one transfer; a crash of the dong-service may come between any two.     *)
(***************************************************************************)
EXTENDS Integers, Sequences, FiniteSets, Functions

CONSTANTS
    Envelopes,      \* rows of red_envelope
    Users,          \* claimers
    Wallets,        \* intermediary wallets
    Requests,       \* requests that cancel or close, running at once
    Job,            \* the expiry job
    Totals,         \* total amounts, in the units of the table
    ClaimLimits,    \* values of total_claims
    MinAmount, MaxAmount,   \* min_amount and max_amount of random envelopes
    Multiplier,     \* TokenMultiplier: chain units in one unit of the table
    MaxDeposits     \* bound: deposits sent for one envelope

Procs == Requests \cup {Job}
NoReservation == -1

ASSUME RedAssumption ==
    /\ Envelopes # {} /\ Users # {} /\ Wallets # {}
    /\ IsFiniteSet(Users)
    /\ Job \notin Requests
    /\ Totals \subseteq Nat \ {0}
    /\ ClaimLimits \subseteq Nat \ {0}
    /\ MinAmount \in Nat /\ MaxAmount \in Nat
    /\ Multiplier \in Nat \ {0, 1}
    /\ MaxDeposits \in Nat

VARIABLES
    envelopes,  \* red_envelope
    claims,     \* red_envelope_claim, one row per envelope and claimer
    wallets,    \* status column of intermediary_wallet
    queue,      \* Redis: amounts nobody has taken; a list without elements is no key
    reserved,   \* Redis: the amount a user has taken
    balance,    \* what each wallet holds on the chain
    mined,      \* transactions in blocks the indexer has not committed
    recent,     \* claims written since the dong-service started
    lost,       \* reservations that ran out since then
    held,       \* rows whose lock a transaction holds that nothing ends, and whose request it was
    sent,       \* deposits sent for each envelope
    claiming,   \* where the request that executes a claim is
    proc,       \* what each cancel or close request, and the job, is doing
    todo,       \* expired envelopes the job has selected and not processed
    indexing,   \* the block the indexer is inserting
    taken,      \* history: what each user has taken from the queue
    payouts,    \* history: transfers the chain made for a claim
    deposited,  \* history: envelopes whose exact amount reached their wallet
    stuck       \* history: envelopes the job could not expire in some run

redis == <<queue, reserved, taken>>
chain == <<balance, mined>>
requests == <<recent, lost>>
history == <<payouts, deposited, stuck>>
vars == <<envelopes, claims, wallets, queue, reserved, taken, balance, mined, sent, recent,
          lost, held, claiming, proc, todo, indexing, payouts, deposited, stuck>>

-----------------------------------------------------------------------------
Status == {"NONE", "PENDING", "PUBLISHED", "EXPIRED", "FAILED", "CLOSED"}
ClaimStatus == {"NONE", "PENDING", "SUCCESS", "FAILED"}
WalletStatus == {"NONE", "READY", "IN_USE", "PREPARE_REPLACE"}

EnvelopeRow == [status : Status, total : Nat, limit : Nat, count : Nat,
                random : BOOLEAN, wallet : Wallets, due : BOOLEAN]
ClaimRow == [status : ClaimStatus, amount : Int]
Funding == [kind : {"fund"}, env : Envelopes, amount : Nat, ok : BOOLEAN, n : Nat]
Payment == [kind : {"claim"}, env : Envelopes, user : Users, amount : Int]

Idle == [op |-> "idle"]
Ending == [op : {"cancel", "close", "expire"}, stage : {"refund", "mark", "release"},
           env : Envelopes, amount : Int]
Insertion == [op : {"publish", "fail", "commit"}, block : SUBSET (Funding \cup Payment),
              valid : SUBSET Envelopes]

Locked(e) == \E u \in Users : <<e, u>> \in held
Open == {"PENDING", "PUBLISHED"}
Ended == {"EXPIRED", "FAILED", "CLOSED"}
Remaining(e) ==
    envelopes[e].total
      - SumFunctionOnSet([u \in Users |-> claims[e][u].amount],
                         {u \in Users : claims[e][u].status = "SUCCESS"})

(* A request looks for a claim of its user without a lock, and goes on for as
   long as the dong-service runs; so it may be one that looked before the claim
   was written, as the second request of a user may.                        *)
HasNotClaimed(e, u) == claims[e][u].status = "NONE" \/ <<e, u>> \in recent

(* It goes on with the amount it finds reserved, or found before that ran out. *)
VerifyReservation(e, u) ==
    lost[e][u] \cup {a \in {reserved[e][u]} : HasNotClaimed(e, u) /\ a # NoReservation}

(* TransferMoney: an error leaves the money where it was, or moves it all the
   same when the transaction finalizes after the status poll gave up.       *)
Outcomes(w, a) ==
    {[err |-> TRUE, moved |-> FALSE]} \cup
    (IF balance[w] >= a
     THEN {[err |-> FALSE, moved |-> TRUE], [err |-> TRUE, moved |-> TRUE]} ELSE {})
Debit(w, a, r) == balance' = IF r.moved THEN [balance EXCEPT ![w] = @ - a] ELSE balance

(* The even split: the first total % n amounts are one larger.              *)
EvenSplit(total, n) ==
    [i \in 1 .. n |-> IF i - 1 < total % n THEN total \div n + 1 ELSE total \div n]

(* GenerateRandomAmounts, as far as a reader of the queue can tell.         *)
RandomSplits(total, n) ==
    {s \in [1 .. n -> MinAmount .. MaxAmount] : SumFunction(s) = total}
Splits(e) ==
    IF envelopes[e].random THEN RandomSplits(envelopes[e].total, envelopes[e].limit)
    ELSE {EvenSplit(envelopes[e].total, envelopes[e].limit)}

Init ==
    /\ envelopes = [e \in Envelopes |->
           [status |-> "NONE", total |-> 0, limit |-> 0, count |-> 0, random |-> FALSE,
            wallet |-> CHOOSE w \in Wallets : TRUE, due |-> FALSE]]
    /\ claims = [e \in Envelopes |-> [u \in Users |-> [status |-> "NONE", amount |-> 0]]]
    /\ wallets = [w \in Wallets |-> "NONE"]
    /\ queue = [e \in Envelopes |-> <<>>]
    /\ reserved = [e \in Envelopes |-> [u \in Users |-> NoReservation]]
    /\ balance = [w \in Wallets |-> 0]
    /\ mined = {}
    /\ sent = [e \in Envelopes |-> 0]
    /\ taken = [e \in Envelopes |-> [u \in Users |-> 0]]
    /\ recent = {}
    /\ lost = [e \in Envelopes |-> [u \in Users |-> {}]]
    /\ held = {}
    /\ claiming = [e \in Envelopes |-> [u \in Users |-> "idle"]]
    /\ proc = [p \in Procs |-> Idle]
    /\ todo = {}
    /\ indexing = Idle
    /\ payouts = [e \in Envelopes |-> [u \in Users |-> 0]]
    /\ deposited = {}
    /\ stuck = {}

-----------------------------------------------------------------------------
(* Create: one transaction takes a READY wallet, or makes a new one when there
   is none, and inserts the row.  ValidateRequest comes first.              *)
CreateRedEnvelope(e, w, total, limit, random) ==
    /\ envelopes[e].status = "NONE"
    /\ total >= limit
    /\ random => /\ MinAmount <= MaxAmount
                 /\ total >= limit * MinAmount
                 /\ total <= limit * MaxAmount
    /\ \/ wallets[w] = "READY"
       \/ wallets[w] = "NONE" /\ \A v \in Wallets : wallets[v] # "READY"
    /\ wallets' = [wallets EXCEPT ![w] = "IN_USE"]
    /\ envelopes' = [envelopes EXCEPT ![e] =
           [status |-> "PENDING", total |-> total, limit |-> limit, count |-> 0,
            random |-> random, wallet |-> w, due |-> FALSE]]
    /\ UNCHANGED <<claims, redis, chain, sent, requests, held, claiming, proc, todo,
                   indexing, history>>

(* The owner's deposit gets into a block, finalized (ok) or failed.         *)
SendDeposit(e, a, ok) ==
    /\ envelopes[e].status # "NONE"
    /\ sent[e] < MaxDeposits
    /\ sent' = [sent EXCEPT ![e] = @ + 1]
    /\ mined' = mined \cup {[kind |-> "fund", env |-> e, amount |-> a, ok |-> ok, n |-> sent[e]]}
    /\ balance' = IF ok THEN [balance EXCEPT ![envelopes[e].wallet] = @ + a] ELSE balance
    /\ deposited' = IF ok /\ a = envelopes[e].total * Multiplier
                    THEN deposited \cup {e} ELSE deposited
    /\ UNCHANGED <<envelopes, claims, wallets, redis, requests, held, claiming, proc, todo, indexing,
                   payouts, stuck>>

(* end_date passes.                                                         *)
Lapse(e) ==
    /\ envelopes[e].status # "NONE"
    /\ ~envelopes[e].due
    /\ envelopes' = [envelopes EXCEPT ![e].due = TRUE]
    /\ UNCHANGED <<claims, wallets, redis, chain, sent, requests, held, claiming, proc,
                   todo, indexing, history>>

(* After end_date the keys run out, each at a time of its own.              *)
QueueExpires(e) ==
    /\ envelopes[e].due
    /\ \/ /\ queue[e] # <<>>
          /\ queue' = [queue EXCEPT ![e] = <<>>]
          /\ UNCHANGED <<reserved, lost>>
       \/ /\ \E u \in Users : reserved[e][u] # NoReservation
          /\ reserved' = [reserved EXCEPT ![e] = [u \in Users |-> NoReservation]]
          /\ lost' = [lost EXCEPT ![e] = [u \in Users |-> VerifyReservation(e, u)]]
          /\ UNCHANGED queue
    /\ UNCHANGED <<envelopes, claims, wallets, taken, chain, sent, recent, held, claiming, proc,
                   todo, indexing, history>>

-----------------------------------------------------------------------------
(* The indexer inserts a block in one transaction, and has the dong-service
   publish or fail envelopes, over HTTP, while it is open.                  *)

(* validateRedEnvelopeTransactions: the deposits of a block that are exact, of
   envelopes that are PENDING when it looks.                                 *)
ValidatedAnyAmount(block, ok) ==        \* mutant: the amount is not compared
    {e \in Envelopes : /\ envelopes[e].status = "PENDING"
                       /\ \E t \in block : t.kind = "fund" /\ t.env = e /\ t.ok = ok}
Validated(block, ok) ==
    {e \in Envelopes : /\ envelopes[e].status = "PENDING"
                       /\ \E t \in block : /\ t.kind = "fund" /\ t.env = e /\ t.ok = ok
                                           /\ t.amount = envelopes[e].total * Multiplier}

ReadBlock(block) ==
    /\ indexing = Idle
    /\ block # {}
    /\ indexing' = [op |-> "publish", block |-> block, valid |-> Validated(block, TRUE)]
    /\ UNCHANGED <<envelopes, claims, wallets, redis, chain, sent, requests, held, claiming,
                   proc, todo, history>>

(* UpdateStatusInternal: UPDATE ... WHERE id = $4 AND status = 'PENDING'.    *)
UpdateStatusAnyway(e) == TRUE           \* mutant: no WHERE on the status
UpdateStatusInternal(e) == envelopes[e].status = "PENDING"

(* InternalUpdateStatusBatch with PUBLISHED: what cannot be updated is skipped,
   what cannot be queued is published all the same.                         *)
PublishEnvelopes ==
    /\ indexing.op = "publish"
    /\ \E done \in SUBSET {e \in indexing.valid : UpdateStatusInternal(e)} :
       \E queued \in SUBSET done :
       \E split \in [queued -> UNION {Splits(e) : e \in queued}] :
          /\ \A e \in queued : split[e] \in Splits(e)
          /\ envelopes' = [e \in Envelopes |->
                 [envelopes[e] EXCEPT !.status = IF e \in done THEN "PUBLISHED" ELSE @]]
          /\ queue' = [e \in Envelopes |-> IF e \in queued THEN queue[e] \o split[e] ELSE queue[e]]
    /\ indexing' = [indexing EXCEPT !.op = "fail"]
    /\ UNCHANGED <<claims, wallets, reserved, taken, chain, sent, requests, held, claiming,
                   proc, todo, history>>

(* The same with FAILED, for the failed deposits; the wallet is released.   *)
FailEnvelopes ==
    /\ indexing.op = "fail"
    /\ \E done \in SUBSET Validated(indexing.block, FALSE) :
       \E released \in SUBSET done :
          /\ envelopes' = [e \in Envelopes |->
                 [envelopes[e] EXCEPT !.status = IF e \in done THEN "FAILED" ELSE @]]
          /\ wallets' = [w \in Wallets |->
                 IF \E e \in released : envelopes[e].wallet = w THEN "READY" ELSE wallets[w]]
    /\ indexing' = [indexing EXCEPT !.op = "commit"]
    /\ UNCHANGED <<claims, redis, chain, sent, requests, held, claiming, proc, todo, history>>

(* updateRedEnvelopeClaimStatus: the claims a block's transfers paid.  The value
   of the transfer is in chain units, the amount of the row is not.         *)
Reconciled(block) ==
    {c \in Envelopes \X Users :
        /\ claims[c[1]][c[2]].status = "PENDING"
        /\ \E t \in block : /\ t.kind = "claim" /\ t.env = c[1] /\ t.user = c[2]
                            /\ t.amount = claims[c[1]][c[2]].amount}

CommitBlock ==
    /\ indexing.op = "commit"
    /\ claims' = [e \in Envelopes |-> [u \in Users |->
           [claims[e][u] EXCEPT !.status =
               IF <<e, u>> \in Reconciled(indexing.block) THEN "SUCCESS" ELSE @]]]
    /\ mined' = mined \ indexing.block
    /\ indexing' = Idle
    /\ UNCHANGED <<envelopes, wallets, redis, balance, sent, requests, held, claiming, proc,
                   todo, history>>

(* A call or the commit fails, or the indexer stops: the block comes again,
   but what the dong-service has done stays done.                           *)
AbandonBlock ==
    /\ indexing # Idle
    /\ indexing' = Idle
    /\ UNCHANGED <<envelopes, claims, wallets, redis, chain, sent, requests, held, claiming,
                   proc, todo, history>>

-----------------------------------------------------------------------------
(* AttemptClaim, a script that Redis runs alone: a user who holds a reservation
   keeps it, any other takes the next amount.                               *)
TakeNext(e, u) ==
    /\ HasNotClaimed(e, u)
    /\ reserved[e][u] = NoReservation
    /\ queue[e] # <<>>
    /\ reserved' = [reserved EXCEPT ![e][u] = Head(queue[e])]
    /\ taken' = [taken EXCEPT ![e][u] = @ + Head(queue[e])]
    /\ UNCHANGED <<envelopes, claims, wallets, chain, sent, requests, held, claiming, proc, todo,
                   indexing, history>>
AttemptClaimPeeks(e, u) == TakeNext(e, u) /\ UNCHANGED queue   \* mutant: LINDEX for LPOP
AttemptClaim(e, u) == TakeNext(e, u) /\ queue' = [queue EXCEPT ![e] = Tail(@)]

(* ExecuteClaim, phase 1, under the envelope's row lock.  A second row of a user
   is refused by a unique constraint, which ends the transaction.           *)
ReserveClaimAgain(e, u) ==          \* mutant: no unique constraint
    /\ envelopes[e].status = "PUBLISHED"
    /\ envelopes[e].count < envelopes[e].limit
    /\ claiming[e][u] = "idle"
    /\ \E a \in VerifyReservation(e, u) :
          claims' = [claims EXCEPT ![e][u] = [status |-> "PENDING", amount |-> a]]
    /\ envelopes' = [envelopes EXCEPT ![e].count = @ + 1]
    /\ recent' = recent \cup {<<e, u>>}
    /\ claiming' = [claiming EXCEPT ![e][u] = "reserved"]
    /\ UNCHANGED <<wallets, redis, chain, sent, lost, held, proc, todo, indexing, history>>
ReserveClaim(e, u) ==
    /\ ~ Locked(e)
    /\ envelopes[e].status = "PUBLISHED"
    /\ envelopes[e].count < envelopes[e].limit
    /\ claims[e][u].status = "NONE"
    /\ \E a \in VerifyReservation(e, u) :
          claims' = [claims EXCEPT ![e][u] = [status |-> "PENDING", amount |-> a]]
    /\ envelopes' = [envelopes EXCEPT ![e].count = @ + 1]
    /\ recent' = recent \cup {<<e, u>>}
    /\ claiming' = [claiming EXCEPT ![e][u] = "reserved"]
    /\ UNCHANGED <<wallets, redis, chain, sent, lost, held, proc, todo, indexing, history>>

(* Phase 1 on an envelope that is not published, or has no turn left, which is
   looked at before the constraint: it returns without ending its transaction,
   whose error variable is not set.  The lock on the row stays until the
   dong-service stops; UPDATEs of the row wait for it.                      *)
RefuseClaim(e, u) ==
    /\ VerifyReservation(e, u) # {}
    /\ ~ Locked(e)
    /\ envelopes[e].status # "PUBLISHED" \/ envelopes[e].count >= envelopes[e].limit
    /\ held' = held \cup {<<e, u>>}
    /\ UNCHANGED <<envelopes, claims, wallets, redis, chain, sent, requests, claiming, proc, todo,
                   indexing, history>>

(* Phase 2, the transfer.  One that moves the money gets into a block.      *)
PayClaimUnchecked(e, u) ==          \* mutant: the error is ignored
    LET w == envelopes[e].wallet
        a == claims[e][u].amount * Multiplier
    IN  /\ claiming[e][u] = "reserved"
        /\ \E r \in Outcomes(w, a) :
              /\ Debit(w, a, r)
              /\ payouts' = [payouts EXCEPT ![e][u] = @ + IF r.moved THEN 1 ELSE 0]
              /\ mined' = IF r.moved THEN mined \cup
                     {[kind |-> "claim", env |-> e, user |-> u, amount |-> a]} ELSE mined
        /\ claiming' = [claiming EXCEPT ![e][u] = "paid"]
        /\ UNCHANGED <<envelopes, claims, wallets, redis, sent, requests, held, proc, todo, indexing,
                       deposited, stuck>>
PayClaim(e, u) ==
    LET w == envelopes[e].wallet
        a == claims[e][u].amount * Multiplier
    IN  /\ claiming[e][u] = "reserved"
        /\ \E r \in Outcomes(w, a) :
              /\ Debit(w, a, r)
              /\ payouts' = [payouts EXCEPT ![e][u] = @ + IF r.moved THEN 1 ELSE 0]
              /\ mined' = IF r.moved THEN mined \cup
                     {[kind |-> "claim", env |-> e, user |-> u, amount |-> a]} ELSE mined
              /\ claiming' = [claiming EXCEPT ![e][u] = IF r.err THEN "unpaid" ELSE "paid"]
        /\ UNCHANGED <<envelopes, claims, wallets, redis, sent, requests, held, proc, todo, indexing,
                       deposited, stuck>>

(* Phase 3, updateFinalClaimStatus.  A failed transfer gives the turn back.  *)
SettleClaimUncompensated(e, u) ==   \* mutant: the count is not reverted
    /\ claiming[e][u] \in {"paid", "unpaid"}
    /\ claims' = [claims EXCEPT ![e][u].status =
           IF claiming[e][u] = "paid" THEN "SUCCESS" ELSE "FAILED"]
    /\ claiming' = [claiming EXCEPT ![e][u] = "idle"]
    /\ UNCHANGED <<envelopes, wallets, redis, chain, sent, requests, held, proc, todo,
                   indexing, history>>
SettleClaim(e, u) ==
    /\ claiming[e][u] \in {"paid", "unpaid"}
    /\ claiming[e][u] = "unpaid" => ~ Locked(e)
    /\ claims' = [claims EXCEPT ![e][u].status =
           IF claiming[e][u] = "paid" THEN "SUCCESS" ELSE "FAILED"]
    /\ envelopes' = IF claiming[e][u] = "unpaid" /\ envelopes[e].count > 0
                    THEN [envelopes EXCEPT ![e].count = @ - 1] ELSE envelopes
    /\ claiming' = [claiming EXCEPT ![e][u] = "idle"]
    /\ UNCHANGED <<wallets, redis, chain, sent, requests, held, proc, todo, indexing, history>>

(* Phase 3 fails in the database: the row stays PENDING.                    *)
SettleClaimFails(e, u) ==
    /\ claiming[e][u] \in {"paid", "unpaid"}
    /\ claiming' = [claiming EXCEPT ![e][u] = "idle"]
    /\ UNCHANGED <<envelopes, claims, wallets, redis, chain, sent, requests, held, proc,
                   todo, indexing, history>>

-----------------------------------------------------------------------------
(* Three ways to end an envelope.  Each refunds, writes a status whatever the
   status is by then, and lets the wallet go; they differ in the order.     *)

Begin(p, r) == proc[p] = Idle /\ proc' = [proc EXCEPT ![p] = r]
Advance(p, stage) == proc' = [proc EXCEPT ![p].stage = stage]
Finish(p) == proc' = [proc EXCEPT ![p] = Idle]

(* CancelRedEnvelope, the owner's request: FAILED first, the whole amount next. *)
CancelRedEnvelope(p, e) ==
    /\ envelopes[e].status # "NONE"
    /\ ~ Locked(e)
    /\ Begin(p, [op |-> "cancel", stage |-> "refund", env |-> e, amount |-> envelopes[e].total])
    /\ envelopes' = [envelopes EXCEPT ![e].status = "FAILED"]
    /\ UNCHANGED <<claims, wallets, redis, chain, sent, requests, held, claiming, todo,
                   indexing, history>>

(* CloseSession, the owner's request: what no successful claim has taken is
   read first.                                                              *)
CloseSession(p, e) ==
    /\ envelopes[e].status # "NONE"
    /\ Begin(p, [op |-> "close", stage |-> IF Remaining(e) > 0 THEN "refund" ELSE "mark",
                 env |-> e, amount |-> Remaining(e)])
    /\ UNCHANGED <<envelopes, claims, wallets, redis, chain, sent, requests, held, claiming,
                   todo, indexing, history>>

(* The expiry job: GetExpiredEnvelopes, then one envelope after the other.   *)
ExpiredPublished ==                     \* mutant: PENDING envelopes are left out
    {e \in Envelopes : envelopes[e].status = "PUBLISHED" /\ envelopes[e].due}
Expired == {e \in Envelopes : envelopes[e].status \in Open /\ envelopes[e].due}
GetExpiredEnvelopes ==
    /\ proc[Job] = Idle
    /\ todo = {}
    /\ Expired # {}
    /\ todo' = Expired
    /\ UNCHANGED <<envelopes, claims, wallets, redis, chain, sent, requests, held, claiming,
                   proc, indexing, history>>
ProcessExpired(e) ==
    /\ e \in todo
    /\ Begin(Job, [op |-> "expire", stage |-> IF Remaining(e) > 0 THEN "refund" ELSE "mark",
                   env |-> e, amount |-> Remaining(e)])
    /\ todo' = todo \ {e}
    /\ UNCHANGED <<envelopes, claims, wallets, redis, chain, sent, requests, held, claiming,
                   indexing, history>>

(* A cancellation goes on without a refund when the wallet's key cannot be
   read, and stops when the transfer fails; closing goes on in any case; the
   job leaves the envelope for its next run in any case.                    *)
Refund(p) ==
    LET e == proc[p].env
        w == envelopes[e].wallet
        a == proc[p].amount * Multiplier
    IN  /\ proc[p] # Idle
        /\ proc[p].stage = "refund"
        /\ \E r \in Outcomes(w, a) :
              /\ Debit(w, a, r)
              /\ proc' = [proc EXCEPT ![p] =
                     IF r.err /\ proc[p].op # "close" THEN Idle
                     ELSE [proc[p] EXCEPT !.stage =
                              IF proc[p].op = "cancel" THEN "release" ELSE "mark"]]
              /\ stuck' = IF r.err /\ proc[p].op = "expire" THEN stuck \cup {e} ELSE stuck
        /\ UNCHANGED <<envelopes, claims, wallets, redis, mined, sent, requests, held, claiming, todo, indexing,
                       payouts, deposited>>
CancelWithoutRefund(p) ==
    /\ proc[p].op = "cancel"
    /\ proc[p].stage = "refund"
    /\ Advance(p, "release")
    /\ UNCHANGED <<envelopes, claims, wallets, redis, chain, sent, requests, held, claiming,
                   todo, indexing, history>>

(* UpdateRedEnvelope with CLOSED or EXPIRED: UPDATE ... WHERE id, no more.   *)
FinalStatusMisnamed(op) == IF op = "close" THEN "CANCELED" ELSE "EXPIRED" \* mutant: violates the CHECK
FinalStatus(op) == IF op = "close" THEN "CLOSED" ELSE "EXPIRED"
UpdateRedEnvelope(p) ==
    /\ proc[p] # Idle
    /\ proc[p].stage = "mark"
    /\ ~ Locked(proc[p].env)
    /\ envelopes' = [envelopes EXCEPT ![proc[p].env].status = FinalStatus(proc[p].op)]
    /\ Advance(p, "release")
    /\ UNCHANGED <<claims, wallets, redis, chain, sent, requests, held, claiming, todo,
                   indexing, history>>

(* ReleaseWallet by address; the job marks an old wallet for replacement.    *)
ReleaseWallet(p, status) ==
    /\ proc[p] # Idle
    /\ proc[p].stage = "release"
    /\ status = "PREPARE_REPLACE" => proc[p].op = "expire"
    /\ wallets' = [wallets EXCEPT ![envelopes[proc[p].env].wallet] = status]
    /\ Finish(p)
    /\ UNCHANGED <<envelopes, claims, redis, chain, sent, requests, held, claiming, todo,
                   indexing, history>>

(* A query or the wallet lookup fails; what was done stays done.            *)
Abandon(p) ==
    /\ proc[p] # Idle
    /\ Finish(p)
    /\ stuck' = IF proc[p].op = "expire" THEN stuck \cup {proc[p].env} ELSE stuck
    /\ UNCHANGED <<envelopes, claims, wallets, redis, chain, sent, requests, held, claiming, todo, indexing,
                   payouts, deposited>>

(* The dong-service stops.                                                  *)
Crash ==
    /\ \/ \E p \in Procs : proc[p] # Idle
       \/ \E e \in Envelopes, u \in Users : claiming[e][u] # "idle"
       \/ todo # {} \/ held # {}
       \/ recent # {} \/ \E e \in Envelopes, u \in Users : lost[e][u] # {}
    /\ proc' = [p \in Procs |-> Idle]
    /\ claiming' = [e \in Envelopes |-> [u \in Users |-> "idle"]]
    /\ todo' = {}
    /\ recent' = {}
    /\ lost' = [e \in Envelopes |-> [u \in Users |-> {}]]
    /\ held' = {}
    /\ UNCHANGED <<envelopes, claims, wallets, redis, chain, sent, indexing, history>>

-----------------------------------------------------------------------------
Owner ==
    \/ \E e \in Envelopes, w \in Wallets, total \in Totals, limit \in ClaimLimits, random \in BOOLEAN :
          CreateRedEnvelope(e, w, total, limit, random)
    \/ \E e \in Envelopes, a \in Totals \cup {t * Multiplier : t \in Totals}, ok \in BOOLEAN :
          SendDeposit(e, a, ok)
    \/ \E e \in Envelopes, p \in Requests : CancelRedEnvelope(p, e) \/ CloseSession(p, e)
    \/ \E e \in Envelopes : Lapse(e)

Indexer ==
    \/ \E block \in SUBSET mined : ReadBlock(block)
    \/ PublishEnvelopes
    \/ FailEnvelopes
    \/ CommitBlock
    \/ AbandonBlock

ClaimStep(e, u) ==
    \/ PayClaim(e, u)
    \/ SettleClaim(e, u)
    \/ SettleClaimFails(e, u)
Claimer(e, u) ==
    \/ AttemptClaim(e, u)
    \/ ReserveClaim(e, u)
    \/ RefuseClaim(e, u)
    \/ ClaimStep(e, u)

Proceed(p) ==
    \/ Refund(p)
    \/ CancelWithoutRefund(p)
    \/ UpdateRedEnvelope(p)
    \/ \E status \in {"READY", "PREPARE_REPLACE"} : ReleaseWallet(p, status)
EndStep(p) == Proceed(p) \/ Abandon(p)
JobStep == GetExpiredEnvelopes \/ \E e \in Envelopes : ProcessExpired(e)

Next ==
    \/ Owner
    \/ Indexer
    \/ \E e \in Envelopes, u \in Users : Claimer(e, u)
    \/ \E p \in Procs : EndStep(p)
    \/ JobStep
    \/ \E e \in Envelopes : QueueExpires(e)
    \/ Crash

Spec == Init /\ [][Next]_vars

(* The ticker keeps running the job, a running job goes on unless it waits for
   a row, and the dong-service does not stop for ever and again.            *)
Fairness ==
    /\ WF_vars(JobStep)
    /\ WF_vars(Proceed(Job))
    /\ <>[][~Crash]_vars
LiveSpec == Spec /\ Fairness

-----------------------------------------------------------------------------
(* Properties.                                                              *)

TypeOK ==
    /\ envelopes \in [Envelopes -> EnvelopeRow]
    /\ claims \in [Envelopes -> [Users -> ClaimRow]]
    /\ wallets \in [Wallets -> WalletStatus]
    /\ queue \in [Envelopes -> Seq(Int)]
    /\ reserved \in [Envelopes -> [Users -> Int]]
    /\ balance \in [Wallets -> Nat]
    /\ mined \subseteq Funding \cup Payment
    /\ sent \in [Envelopes -> Nat]
    /\ taken \in [Envelopes -> [Users -> Int]]
    /\ recent \subseteq Envelopes \X Users
    /\ lost \in [Envelopes -> [Users -> SUBSET Int]]
    /\ held \subseteq Envelopes \X Users
    /\ claiming \in [Envelopes -> [Users -> {"idle", "reserved", "paid", "unpaid"}]]
    /\ proc \in [Procs -> Ending \cup {Idle}]
    /\ todo \subseteq Envelopes
    /\ indexing \in Insertion \cup {Idle}
    /\ payouts \in [Envelopes -> [Users -> Nat]]
    /\ deposited \subseteq Envelopes
    /\ stuck \subseteq Envelopes

(* claimed_count is kept by three transactions that never see one another's
   work; it always counts the claims that hold a turn, those PENDING and those
   paid, and never more than total_claims (ExecuteClaim,
   updateFinalClaimStatus).                                                 *)
CountMatchesClaims ==
    \A e \in Envelopes :
        /\ envelopes[e].count =
              Cardinality({u \in Users : claims[e][u].status \in {"PENDING", "SUCCESS"}})
        /\ envelopes[e].count <= envelopes[e].limit

(* However claims, retries and expired Redis keys interleave, the amounts that
   were handed out and those still in the queue add up to at most the envelope's
   total, and a claim's row has no more than its user was handed: publishing
   splits the total once, and no amount is handed out twice (AttemptClaim,
   ExecuteClaim).                                                           *)
PromisesWithinTotal ==
    \A e \in Envelopes :
        /\ SumFunction(taken[e]) + SumFunction(queue[e]) <= envelopes[e].total
        /\ \A u \in Users : claims[e][u].amount <= taken[e][u]

(* A user is paid once for an envelope, whatever fails after the transfer.  *)
ClaimsPaidOnce == \A e \in Envelopes, u \in Users : payouts[e][u] <= 1

(* Only the exact deposit makes an envelope claimable: with a stale read of the
   indexer, a call that comes twice or a block that comes again, nobody is paid
   from an envelope whose own deposit never reached its wallet.             *)
ClaimsWereFunded ==
    \A e \in Envelopes :
        (envelopes[e].status = "PUBLISHED" \/ \E u \in Users : payouts[e][u] > 0) => e \in deposited

(* A claimer who carries an amount finds a turn as long as the envelope is open:
   the amounts in Redis and claimed_count, kept apart, agree.  So the row of an
   open envelope is left locked only by the second request of a user who has a
   turn, which looked for a claim of his before the first one wrote it
   (HasUserClaimed, ExecuteClaim).                                          *)
HoldsTurn(e, u) == claims[e][u].status \in {"PENDING", "SUCCESS"}
OnlyRepeatsLock ==
    \A e \in Envelopes, u \in Users :
        <<e, u>> \in held => envelopes[e].status \in Ended \/ HoldsTurn(e, u)

(* A claim row reads SUCCESS only if the chain paid the claimer.            *)
SuccessWasPaid ==
    \A e \in Envelopes, u \in Users : claims[e][u].status = "SUCCESS" => payouts[e][u] > 0

(* An envelope that has ended never becomes claimable again: a deposit the
   indexer validated before the owner canceled does not publish it after.   *)
EndedEnvelopesStayEnded ==
    [][\A e \in Envelopes : envelopes[e].status \in Ended => envelopes'[e].status \in Ended]_vars

(* An open envelope past its end is ended, or the job has tried and could not
   refund it or write it, or its row is locked by a request that was refused:
   none is forgotten.                                                       *)
OverdueEnvelopesHandled ==
    \A e \in Envelopes :
        (envelopes[e].status \in Open /\ envelopes[e].due)
            ~> (envelopes[e].status \in Ended \/ e \in stuck \/ Locked(e))

(* The inductive strengthening of ClaimsWereFunded, SuccessWasPaid, ClaimsPaidOnce
   and CountMatchesClaims.  Whatever the indexer still holds of a block, and
   wherever a claim's request is, agrees with what the chain has done.      *)
EnvelopeInv(e) ==
    /\ envelopes[e].status = "PUBLISHED" => e \in deposited
    /\ \A u \in Users : claims[e][u].status # "NONE" => e \in deposited
ClaimInv(e, u) ==
    /\ claiming[e][u] # "idle" => HoldsTurn(e, u)
    /\ claiming[e][u] = "paid" => payouts[e][u] > 0
    /\ claims[e][u].status = "SUCCESS" => payouts[e][u] > 0
    /\ payouts[e][u] > 0 => claims[e][u].status # "NONE" /\ claiming[e][u] # "reserved"
    /\ payouts[e][u] <= 1
TxInv(t) ==
    /\ t.kind = "fund" => /\ envelopes[t.env].status # "NONE"
                          /\ t.ok /\ t.amount = envelopes[t.env].total * Multiplier
                                => t.env \in deposited
    /\ t.kind = "claim" => payouts[t.env][t.user] > 0
InsertionInv ==
    indexing # Idle => /\ \A t \in indexing.block : TxInv(t)
                       /\ indexing.op = "publish" => indexing.valid \subseteq deposited
RedInv ==
    /\ \A e \in Envelopes : EnvelopeInv(e)
    /\ \A e \in Envelopes, u \in Users : ClaimInv(e, u)
    /\ \A t \in mined : TxInv(t)
    /\ InsertionInv

(* The money in an envelope, as the chain, the rows and the deposits tell it: a
   claim's row takes its amount, the transfer pays it, and a row that reads
   FAILED with no transfer behind it is a share that failed.                *)
Fund == [e \in Envelopes |-> IF e \in deposited THEN envelopes[e].total ELSE 0]
ShareStatus == [NONE |-> "none", PENDING |-> "pending", SUCCESS |-> "pending", FAILED |-> "failed"]
ShareOf(e, u) ==
    CASE payouts[e][u] = 0 -> ShareStatus[claims[e][u].status]
      [] payouts[e][u] = 1 -> "paid"
      [] OTHER             -> "paid twice"
TakenBy(e, u) == IF claims[e][u].status = "NONE" THEN 0 ELSE claims[e][u].amount
Taken == [e \in Envelopes |-> [u \in Users |-> TakenBy(e, u)]]
Share == [e \in Envelopes |-> [u \in Users |-> ShareOf(e, u)]]

(* Requests, retries, crashes, blocks that come again, expired keys, the job and
   the owner's requests together do to an envelope's money only what ClaimLedger
   allows: a user takes one share, the shares stay within the deposit, and what
   becomes of a share is final, whatever its row says in between (ExecuteClaim,
   updateFinalClaimStatus, updateRedEnvelopeClaimStatus).                   *)
Ledger == INSTANCE ClaimLedger WITH fund <- Fund, amount <- Taken, share <- Share
ImplementsClaimLedger == Ledger!Spec

(* What comments of the code say, and the code does not do.                 *)

(* scheduler.go:50 "runTask runs a single task on its interval": the expiry job
   ends each of its envelopes, and comes back to its ticker.                *)
TaskRunsOnInterval == []<>(proc[Job] = Idle)

=============================================================================
