------------------------- MODULE RedEnvelopeProofs --------------------------
(***************************************************************************)
(* RedEnvelope, for any number of envelopes, claimers and requests: its    *)
(* type invariant; RedInv is inductive, and from it nobody is paid from an *)
(* envelope without its deposit, paid twice, or shown as paid for nothing; *)
(* claimed_count counts the claims that hold a turn; an envelope that has  *)
(* ended stays ended; what its users were ever handed of it, with what is  *)
(* queued, is no more than its total; and the row of an envelope that has  *)
(* not ended is locked only by a second request of a user who has a turn   *)
(* in it. Its money does what ClaimLedger says.                            *)
(***************************************************************************)
EXTENDS RedEnvelope, SumTheorems

-----------------------------------------------------------------------------
(* Type correctness.                                                       *)

(* The even split is a sequence of integers.                               *)
LEMMA EvenSplitType ==
    ASSUME NEW total \in Nat, NEW n \in Nat
    PROVE  EvenSplit(total, n) \in Seq(Int)
<1>1. \A i \in 1 .. n : (IF i - 1 < total % n THEN total \div n + 1 ELSE total \div n) \in Int
  <2>1. CASE n = 0
    BY <2>1
  <2>2. CASE n > 0
    <3>1. total \div n \in Int
      BY <2>2
    <3>2. QED BY <3>1
  <2>3. QED BY <2>1, <2>2
<1>2. EvenSplit(total, n) \in [1 .. n -> Int]
  BY <1>1 DEF EvenSplit
<1>3. QED BY <1>2

(* So is every split an envelope may be published with.                    *)
LEMMA SplitsType ==
    ASSUME TypeOK, RedAssumption, NEW e \in Envelopes, NEW s \in Splits(e)
    PROVE  s \in Seq(Int)
<1>1. envelopes[e] \in EnvelopeRow
  BY DEF TypeOK
<1>2. envelopes[e].total \in Nat /\ envelopes[e].limit \in Nat
  BY <1>1 DEF EnvelopeRow
<1>3. CASE envelopes[e].random
  <2>1. s \in [1 .. envelopes[e].limit -> MinAmount .. MaxAmount]
    BY <1>3 DEF Splits, RandomSplits
  <2>2. MinAmount .. MaxAmount \subseteq Int
    BY DEF RedAssumption
  <2>3. s \in [1 .. envelopes[e].limit -> Int]
    BY <2>1, <2>2
  <2>4. QED BY <2>3, <1>2
<1>4. CASE ~envelopes[e].random
  <2>1. s = EvenSplit(envelopes[e].total, envelopes[e].limit)
    BY <1>4 DEF Splits
  <2>2. QED BY <2>1, <1>2, EvenSplitType
<1>5. QED BY <1>3, <1>4

LEMMA InitType == RedAssumption /\ Init => TypeOK
<1> SUFFICES ASSUME RedAssumption, Init PROVE TypeOK
  OBVIOUS
<1>1. (CHOOSE w \in Wallets : TRUE) \in Wallets
  BY DEF RedAssumption
<1>2. envelopes \in [Envelopes -> EnvelopeRow]
  BY <1>1 DEF Init, EnvelopeRow, Status
<1>3. claims \in [Envelopes -> [Users -> ClaimRow]]
  BY DEF Init, ClaimRow, ClaimStatus
<1>4. queue \in [Envelopes -> Seq(Int)] /\ reserved \in [Envelopes -> [Users -> Int]]
  BY DEF Init, NoReservation
<1>5. /\ taken \in [Envelopes -> [Users -> Int]]
      /\ lost \in [Envelopes -> [Users -> SUBSET Int]]
      /\ recent = {} /\ held = {}
  BY DEF Init
<1> QED BY <1>2, <1>3, <1>4, <1>5 DEF Init, TypeOK, WalletStatus

(* Rows keep their type when single columns are written.                    *)
LEMMA EnvelopeRowUpdates ==
    ASSUME NEW r \in EnvelopeRow, NEW st \in Status, NEW n \in Nat, NEW b \in BOOLEAN
    PROVE  /\ [r EXCEPT !.status = st] \in EnvelopeRow
           /\ [r EXCEPT !.count = n] \in EnvelopeRow
           /\ [r EXCEPT !.due = b] \in EnvelopeRow
BY DEF EnvelopeRow

LEMMA ClaimsUpdate ==
    ASSUME claims \in [Envelopes -> [Users -> ClaimRow]],
           NEW e \in Envelopes, NEW u \in Users, NEW r \in ClaimRow,
           claims' = [claims EXCEPT ![e][u] = r]
    PROVE  claims' \in [Envelopes -> [Users -> ClaimRow]]
OBVIOUS

LEMMA DebitType ==
    ASSUME balance \in [Wallets -> Nat], NEW w \in Wallets, NEW a \in Int,
           NEW r \in Outcomes(w, a), Debit(w, a, r)
    PROVE  balance' \in [Wallets -> Nat]
<1>1. r.moved => a <= balance[w]
  BY DEF Outcomes
<1> QED BY <1>1 DEF Debit

(* Every record that a request, the job or the indexer keeps.               *)
LEMMA EndingFields ==
    ASSUME NEW r \in Ending \cup {Idle}, r # Idle
    PROVE  /\ r \in Ending /\ r.env \in Envelopes /\ r.amount \in Int
           /\ \A st \in {"refund", "mark", "release"} : [r EXCEPT !.stage = st] \in Ending
BY DEF Ending

LEMMA InsertionFields ==
    ASSUME NEW r \in Insertion \cup {Idle}, r # Idle
    PROVE  /\ r.block \subseteq Funding \cup Payment /\ r.valid \subseteq Envelopes
           /\ \A q \in {"publish", "fail", "commit"} : [r EXCEPT !.op = q] \in Insertion
BY DEF Insertion

(* The steps of the owner and of the clocks keep the types.                 *)
LEMMA CreateType ==
    ASSUME TypeOK, RedAssumption, NEW e \in Envelopes, NEW w \in Wallets,
           NEW total \in Totals, NEW limit \in ClaimLimits, NEW random \in BOOLEAN,
           CreateRedEnvelope(e, w, total, limit, random)
    PROVE  TypeOK'
<1>1. total \in Nat /\ limit \in Nat
  BY DEF RedAssumption
<1>2. [status |-> "PENDING", total |-> total, limit |-> limit, count |-> 0,
       random |-> random, wallet |-> w, due |-> FALSE] \in EnvelopeRow
  BY <1>1 DEF EnvelopeRow, Status
<1>3. envelopes' \in [Envelopes -> EnvelopeRow] /\ wallets' \in [Wallets -> WalletStatus]
  BY <1>2 DEF TypeOK, CreateRedEnvelope, WalletStatus
<1> QED BY <1>3 DEF TypeOK, CreateRedEnvelope, redis, requests, chain, history

LEMMA DepositType ==
    ASSUME TypeOK, RedAssumption, NEW e \in Envelopes, NEW ok \in BOOLEAN,
           NEW a \in Totals \cup {t * Multiplier : t \in Totals}, SendDeposit(e, a, ok)
    PROVE  TypeOK'
<1>1. a \in Nat
  BY DEF RedAssumption
<1>2. envelopes[e].wallet \in Wallets /\ sent[e] \in Nat
  BY DEF TypeOK, EnvelopeRow
<1>3. [kind |-> "fund", env |-> e, amount |-> a, ok |-> ok, n |-> sent[e]] \in Funding
  BY <1>1, <1>2 DEF Funding
<1>4. mined' \subseteq Funding \cup Payment
  BY <1>3 DEF TypeOK, SendDeposit
<1>5. balance' \in [Wallets -> Nat]
  <2>1. CASE ok
    <3>1. balance' = [balance EXCEPT ![envelopes[e].wallet] = @ + a]
      BY <2>1 DEF SendDeposit
    <3> QED BY <1>1, <1>2, <3>1 DEF TypeOK
  <2>2. CASE ~ok
    BY <2>2 DEF TypeOK, SendDeposit
  <2> QED BY <2>1, <2>2
<1>10. sent' \in [Envelopes -> Nat]
  BY <1>2 DEF TypeOK, SendDeposit
<1>11. deposited' \subseteq Envelopes
  BY DEF TypeOK, SendDeposit
<1>6. UNCHANGED <<envelopes, claims, wallets, queue, reserved, taken, recent, lost, held, claiming, proc, todo, indexing,
                  payouts, stuck>>
  BY DEF SendDeposit, redis, requests
<1>7. /\ envelopes' \in [Envelopes -> EnvelopeRow]
      /\ claims' \in [Envelopes -> [Users -> ClaimRow]]
      /\ wallets' \in [Wallets -> WalletStatus]
      /\ queue' \in [Envelopes -> Seq(Int)]
      /\ reserved' \in [Envelopes -> [Users -> Int]]
      /\ claiming' \in [Envelopes -> [Users -> {"idle", "reserved", "paid", "unpaid"}]]
  BY <1>6 DEF TypeOK
<1>8. /\ proc' \in [Procs -> Ending \cup {Idle}]
      /\ todo' \subseteq Envelopes
      /\ indexing' \in Insertion \cup {Idle}
  BY <1>6 DEF TypeOK
<1>9. /\ payouts' \in [Envelopes -> [Users -> Nat]]
      /\ stuck' \subseteq Envelopes
      /\ held' \subseteq Envelopes \X Users
  BY <1>6 DEF TypeOK
<1>12. /\ taken' \in [Envelopes -> [Users -> Int]]
       /\ recent' \subseteq Envelopes \X Users
       /\ lost' \in [Envelopes -> [Users -> SUBSET Int]]
  BY <1>6 DEF TypeOK
<1> QED BY <1>4, <1>5, <1>7, <1>8, <1>9, <1>10, <1>11, <1>12 DEF TypeOK

(* What a request of a user carries is an amount.                           *)
LEMMA CarriedType ==
    ASSUME TypeOK, NEW e \in Envelopes, NEW u \in Users
    PROVE  VerifyReservation(e, u) \in SUBSET Int
BY DEF TypeOK, VerifyReservation

LEMMA LapseType ==
    ASSUME TypeOK, NEW e \in Envelopes, Lapse(e) \/ QueueExpires(e)
    PROVE  TypeOK'
<1>1. CASE Lapse(e)
  <2>1. [envelopes[e] EXCEPT !.due = TRUE] \in EnvelopeRow
    <3>1. envelopes[e] \in EnvelopeRow
      BY DEF TypeOK
    <3> QED BY <3>1 DEF EnvelopeRow
  <2>2. envelopes' = [envelopes EXCEPT ![e] = [envelopes[e] EXCEPT !.due = TRUE]]
    BY <1>1 DEF Lapse, TypeOK
  <2>3. envelopes' \in [Envelopes -> EnvelopeRow]
    BY <2>1, <2>2 DEF TypeOK
  <2> QED BY <1>1, <2>3 DEF TypeOK, Lapse, redis, requests, chain, history
<1>2. CASE QueueExpires(e)
  <2>1. /\ queue' \in [Envelopes -> Seq(Int)]
        /\ reserved' \in [Envelopes -> [Users -> Int]]
        /\ lost' \in [Envelopes -> [Users -> SUBSET Int]]
    <3>1. CASE queue' = [queue EXCEPT ![e] = <<>>] /\ UNCHANGED <<reserved, lost>>
      BY <3>1 DEF TypeOK
    <3>2. CASE /\ reserved' = [reserved EXCEPT ![e] = [u \in Users |-> NoReservation]]
               /\ lost' = [lost EXCEPT ![e] = [u \in Users |-> VerifyReservation(e, u)]]
               /\ UNCHANGED queue
      <4>1. [u \in Users |-> VerifyReservation(e, u)] \in [Users -> SUBSET Int]
        BY CarriedType
      <4> HIDE DEF VerifyReservation
      <4> QED BY <3>2, <4>1 DEF TypeOK, NoReservation
    <3> QED BY <1>2, <3>1, <3>2 DEF QueueExpires
  <2> QED BY <1>2, <2>1 DEF TypeOK, QueueExpires, chain, requests, history
<1> QED BY <1>1, <1>2

(* The steps of the indexer keep the types.                                 *)
LEMMA ReadBlockType ==
    ASSUME TypeOK, NEW block \in SUBSET mined, ReadBlock(block)
    PROVE  TypeOK'
<1>1. Validated(block, TRUE) \in SUBSET Envelopes
  BY DEF Validated
<1>2. block \in SUBSET (Funding \cup Payment)
  BY DEF TypeOK
<1>3. indexing' \in Insertion
  BY <1>1, <1>2 DEF ReadBlock, Insertion
<1> QED BY <1>3 DEF TypeOK, ReadBlock, redis, requests, chain, history

LEMMA PublishType ==
    ASSUME TypeOK, RedAssumption, PublishEnvelopes
    PROVE  TypeOK'
<1>1. PICK done \in SUBSET {e \in indexing.valid : UpdateStatusInternal(e)} :
      \E queued \in SUBSET done :
      \E split \in [queued -> UNION {Splits(e) : e \in queued}] :
         /\ \A e \in queued : split[e] \in Splits(e)
         /\ envelopes' = [e \in Envelopes |->
                [envelopes[e] EXCEPT !.status = IF e \in done THEN "PUBLISHED" ELSE @]]
         /\ queue' = [e \in Envelopes |-> IF e \in queued THEN queue[e] \o split[e] ELSE queue[e]]
  BY DEF PublishEnvelopes
<1>2. PICK queued \in SUBSET done :
      \E split \in [queued -> UNION {Splits(e) : e \in queued}] :
         /\ \A e \in queued : split[e] \in Splits(e)
         /\ envelopes' = [e \in Envelopes |->
                [envelopes[e] EXCEPT !.status = IF e \in done THEN "PUBLISHED" ELSE @]]
         /\ queue' = [e \in Envelopes |-> IF e \in queued THEN queue[e] \o split[e] ELSE queue[e]]
  BY <1>1
<1>3. PICK split \in [queued -> UNION {Splits(e) : e \in queued}] :
         /\ \A e \in queued : split[e] \in Splits(e)
         /\ envelopes' = [e \in Envelopes |->
                [envelopes[e] EXCEPT !.status = IF e \in done THEN "PUBLISHED" ELSE @]]
         /\ queue' = [e \in Envelopes |-> IF e \in queued THEN queue[e] \o split[e] ELSE queue[e]]
  BY <1>2
<1>4. envelopes' \in [Envelopes -> EnvelopeRow]
  <2>1. \A e \in Envelopes :
          [envelopes[e] EXCEPT !.status = IF e \in done THEN "PUBLISHED" ELSE @] \in EnvelopeRow
    <3> SUFFICES ASSUME NEW e \in Envelopes
                 PROVE [envelopes[e] EXCEPT !.status = IF e \in done THEN "PUBLISHED" ELSE @] \in EnvelopeRow
      OBVIOUS
    <3>1. envelopes[e] \in EnvelopeRow
      BY DEF TypeOK
    <3> QED BY <3>1 DEF EnvelopeRow, Status
  <2> QED BY <2>1, <1>3
<1>5. queue' \in [Envelopes -> Seq(Int)]
  <2>1. \A e \in Envelopes : (IF e \in queued THEN queue[e] \o split[e] ELSE queue[e]) \in Seq(Int)
    <3> SUFFICES ASSUME NEW e \in Envelopes
                 PROVE (IF e \in queued THEN queue[e] \o split[e] ELSE queue[e]) \in Seq(Int)
      OBVIOUS
    <3>1. queue[e] \in Seq(Int)
      BY DEF TypeOK
    <3>2. CASE e \in queued
      <4>1. split[e] \in Splits(e)
        BY <1>3, <3>2
      <4>2. split[e] \in Seq(Int)
        BY <4>1, SplitsType
      <4> QED BY <3>1, <3>2, <4>2
    <3> QED BY <3>1, <3>2
  <2> QED BY <2>1, <1>3
<1>6. indexing' \in Insertion \cup {Idle}
  <2>1. indexing # Idle
    BY DEF PublishEnvelopes, Idle
  <2>2. indexing \in Insertion \cup {Idle}
    BY DEF TypeOK
  <2> QED BY <2>1, <2>2, InsertionFields DEF PublishEnvelopes
<1>7. UNCHANGED <<claims, wallets, reserved, taken, recent, lost, balance, mined, sent, held, claiming, proc, todo,
                  payouts, deposited, stuck>>
  BY DEF PublishEnvelopes, chain, requests, history
<1> QED BY <1>4, <1>5, <1>6, <1>7 DEF TypeOK

LEMMA FailType ==
    ASSUME TypeOK, FailEnvelopes
    PROVE  TypeOK'
<1>1. PICK done \in SUBSET Validated(indexing.block, FALSE) : \E released \in SUBSET done :
         /\ envelopes' = [e \in Envelopes |->
                [envelopes[e] EXCEPT !.status = IF e \in done THEN "FAILED" ELSE @]]
         /\ wallets' = [w \in Wallets |->
                IF \E e \in released : envelopes[e].wallet = w THEN "READY" ELSE wallets[w]]
  BY DEF FailEnvelopes
<1>2. envelopes' \in [Envelopes -> EnvelopeRow]
  <2>1. \A e \in Envelopes :
          [envelopes[e] EXCEPT !.status = IF e \in done THEN "FAILED" ELSE @] \in EnvelopeRow
    <3> SUFFICES ASSUME NEW e \in Envelopes
                 PROVE [envelopes[e] EXCEPT !.status = IF e \in done THEN "FAILED" ELSE @] \in EnvelopeRow
      OBVIOUS
    <3>1. envelopes[e] \in EnvelopeRow
      BY DEF TypeOK
    <3> QED BY <3>1 DEF EnvelopeRow, Status
  <2> QED BY <2>1, <1>1
<1>3. wallets' \in [Wallets -> WalletStatus]
  BY <1>1 DEF TypeOK, WalletStatus
<1>4. indexing' \in Insertion \cup {Idle}
  <2>1. indexing # Idle
    BY DEF FailEnvelopes, Idle
  <2>2. indexing \in Insertion \cup {Idle}
    BY DEF TypeOK
  <2> QED BY <2>1, <2>2, InsertionFields DEF FailEnvelopes
<1>5. UNCHANGED <<claims, queue, reserved, taken, recent, lost, balance, mined, sent, held, claiming, proc, todo,
                  payouts, deposited, stuck>>
  BY DEF FailEnvelopes, redis, requests, chain, history
<1> QED BY <1>2, <1>3, <1>4, <1>5 DEF TypeOK

LEMMA CommitType ==
    ASSUME TypeOK, CommitBlock \/ AbandonBlock
    PROVE  TypeOK'
<1>1. CASE CommitBlock
  <2>1. claims' \in [Envelopes -> [Users -> ClaimRow]]
    <3>1. \A e \in Envelopes, u \in Users :
            [claims[e][u] EXCEPT !.status =
               IF <<e, u>> \in Reconciled(indexing.block) THEN "SUCCESS" ELSE @] \in ClaimRow
      <4> SUFFICES ASSUME NEW e \in Envelopes, NEW u \in Users
                   PROVE  [claims[e][u] EXCEPT !.status =
                     IF <<e, u>> \in Reconciled(indexing.block) THEN "SUCCESS" ELSE @] \in ClaimRow
        OBVIOUS
      <4>1. claims[e][u] \in ClaimRow
        BY DEF TypeOK
      <4> QED BY <4>1 DEF ClaimRow, ClaimStatus
    <3> QED BY <1>1, <3>1 DEF CommitBlock
  <2>2. mined' \subseteq Funding \cup Payment /\ indexing' \in Insertion \cup {Idle}
    BY <1>1 DEF TypeOK, CommitBlock
  <2>3. UNCHANGED <<envelopes, wallets, queue, reserved, taken, recent, lost, balance, sent, held,
                    claiming, proc, todo, payouts, deposited, stuck>>
    BY <1>1 DEF CommitBlock, redis, requests, history
  <2> QED BY <2>1, <2>2, <2>3 DEF TypeOK
<1>2. CASE AbandonBlock
  BY <1>2 DEF TypeOK, AbandonBlock, redis, requests, chain, history
<1> QED BY <1>1, <1>2

(* The steps of a claim keep the types.                                     *)
LEMMA AttemptType ==
    ASSUME TypeOK, NEW e \in Envelopes, NEW u \in Users, AttemptClaim(e, u)
    PROVE  TypeOK'
<1>1. queue[e] \in Seq(Int) /\ queue[e] # <<>>
  BY DEF TypeOK, AttemptClaim, TakeNext
<1>2. Head(queue[e]) \in Int /\ Tail(queue[e]) \in Seq(Int)
  BY <1>1
<1>3. queue' \in [Envelopes -> Seq(Int)]
  <2>1. queue' = [queue EXCEPT ![e] = Tail(queue[e])]
    BY DEF TypeOK, AttemptClaim
  <2> QED BY <1>2, <2>1 DEF TypeOK
<1>4. reserved' \in [Envelopes -> [Users -> Int]]
  BY <1>2 DEF TypeOK, AttemptClaim, TakeNext
<1>5. taken' \in [Envelopes -> [Users -> Int]]
  <2>1. taken[e][u] + Head(queue[e]) \in Int
    BY <1>2 DEF TypeOK
  <2>2. taken' = [taken EXCEPT ![e][u] = taken[e][u] + Head(queue[e])]
    BY DEF AttemptClaim, TakeNext
  <2> QED BY <2>1, <2>2 DEF TypeOK
<1> QED BY <1>3, <1>4, <1>5 DEF TypeOK, AttemptClaim, TakeNext, requests, chain, history

LEMMA ReserveType ==
    ASSUME TypeOK, NEW e \in Envelopes, NEW u \in Users, ReserveClaim(e, u)
    PROVE  TypeOK'
<1>1. PICK a \in VerifyReservation(e, u) :
         claims' = [claims EXCEPT ![e][u] = [status |-> "PENDING", amount |-> a]]
  BY DEF ReserveClaim
<1>2. [status |-> "PENDING", amount |-> a] \in ClaimRow
  BY CarriedType DEF ClaimRow, ClaimStatus
<1>3. claims' \in [Envelopes -> [Users -> ClaimRow]]
  BY <1>1, <1>2, ClaimsUpdate DEF TypeOK
<1>4. envelopes' \in [Envelopes -> EnvelopeRow]
  <2>1. envelopes[e] \in EnvelopeRow /\ envelopes[e].count \in Nat
    BY DEF TypeOK, EnvelopeRow
  <2>2. [envelopes[e] EXCEPT !.count = envelopes[e].count + 1] \in EnvelopeRow
    BY <2>1 DEF EnvelopeRow
  <2>3. envelopes' = [envelopes EXCEPT ![e] = [envelopes[e] EXCEPT !.count = envelopes[e].count + 1]]
    BY DEF TypeOK, ReserveClaim
  <2> QED BY <2>2, <2>3 DEF TypeOK
<1>5. claiming' \in [Envelopes -> [Users -> {"idle", "reserved", "paid", "unpaid"}]]
  BY DEF TypeOK, ReserveClaim
<1>6. recent' \subseteq Envelopes \X Users
  BY DEF TypeOK, ReserveClaim
<1> QED BY <1>3, <1>4, <1>5, <1>6 DEF TypeOK, ReserveClaim, redis, chain, history

LEMMA RefuseType ==
    ASSUME TypeOK, NEW e \in Envelopes, NEW u \in Users, RefuseClaim(e, u)
    PROVE  TypeOK'
<1>1. held' \subseteq Envelopes \X Users
  BY DEF TypeOK, RefuseClaim
<1> QED BY <1>1 DEF TypeOK, RefuseClaim, redis, requests, chain, history

LEMMA PayType ==
    ASSUME TypeOK, RedAssumption, NEW e \in Envelopes, NEW u \in Users, PayClaim(e, u)
    PROVE  TypeOK'
<1> DEFINE w == envelopes[e].wallet
           a == claims[e][u].amount * Multiplier
           tx == [kind |-> "claim", env |-> e, user |-> u, amount |-> a]
<1>1. w \in Wallets
  BY DEF TypeOK, EnvelopeRow
<1>2. a \in Int
  <2>1. claims[e][u].amount \in Int
    BY DEF TypeOK, ClaimRow
  <2> QED BY <2>1 DEF RedAssumption
<1>3. tx \in Payment
  BY <1>2 DEF Payment
<1>4. PICK r \in Outcomes(w, a) :
         /\ Debit(w, a, r)
         /\ payouts' = [payouts EXCEPT ![e][u] = @ + IF r.moved THEN 1 ELSE 0]
         /\ mined' = IF r.moved THEN mined \cup {tx} ELSE mined
         /\ claiming' = [claiming EXCEPT ![e][u] = IF r.err THEN "unpaid" ELSE "paid"]
  BY DEF PayClaim
<1> HIDE DEF w, a, tx
<1>5. balance' \in [Wallets -> Nat]
  BY <1>1, <1>2, <1>4, DebitType DEF TypeOK
<1>6. payouts' \in [Envelopes -> [Users -> Nat]]
  <2>1. CASE r.moved
    <3>1. payouts' = [payouts EXCEPT ![e][u] = @ + 1]
      BY <1>4, <2>1
    <3> QED BY <3>1 DEF TypeOK
  <2>2. CASE ~r.moved
    <3>1. payouts' = [payouts EXCEPT ![e][u] = @ + 0]
      BY <1>4, <2>2
    <3> QED BY <3>1 DEF TypeOK
  <2> QED BY <2>1, <2>2
<1>7. mined' \subseteq Funding \cup Payment
  BY <1>3, <1>4 DEF TypeOK
<1>8. claiming' \in [Envelopes -> [Users -> {"idle", "reserved", "paid", "unpaid"}]]
  BY <1>4 DEF TypeOK
<1>9. UNCHANGED <<envelopes, claims, wallets, queue, reserved, taken, recent, lost, sent, held, proc, todo, indexing,
                  deposited, stuck>>
  BY DEF PayClaim, redis, requests
<1> QED BY <1>5, <1>6, <1>7, <1>8, <1>9 DEF TypeOK

LEMMA SettleType ==
    ASSUME TypeOK, NEW e \in Envelopes, NEW u \in Users,
           SettleClaim(e, u) \/ SettleClaimFails(e, u)
    PROVE  TypeOK'
<1>1. CASE SettleClaim(e, u)
  <2>1. claims' \in [Envelopes -> [Users -> ClaimRow]]
    <3> DEFINE st == IF claiming[e][u] = "paid" THEN "SUCCESS" ELSE "FAILED"
    <3>1. [claims[e][u] EXCEPT !.status = st] \in ClaimRow
      <4>1. claims[e][u] \in ClaimRow
        BY DEF TypeOK
      <4>2. st \in ClaimStatus
        BY DEF ClaimStatus
      <4> HIDE DEF st
      <4> QED BY <4>1, <4>2 DEF ClaimRow
    <3>2. claims' = [claims EXCEPT ![e][u].status = st]
      BY <1>1 DEF SettleClaim
    <3>3. claims' = [claims EXCEPT ![e][u] = [claims[e][u] EXCEPT !.status = st]]
      BY <3>2, Zenon
    <3> HIDE DEF st
    <3> QED BY <3>1, <3>3, ClaimsUpdate DEF TypeOK
  <2>2. envelopes' \in [Envelopes -> EnvelopeRow]
    <3>1. envelopes[e] \in EnvelopeRow /\ envelopes[e].count \in Nat
      BY DEF TypeOK, EnvelopeRow
    <3>2. CASE claiming[e][u] = "unpaid" /\ envelopes[e].count > 0
      <4>1. envelopes[e].count - 1 \in Nat
        BY <3>1, <3>2
      <4>2. [envelopes[e] EXCEPT !.count = envelopes[e].count - 1] \in EnvelopeRow
        BY <3>1, <4>1 DEF EnvelopeRow
      <4>3. envelopes' = [envelopes EXCEPT ![e] = [envelopes[e] EXCEPT !.count = envelopes[e].count - 1]]
        BY <1>1, <3>2 DEF TypeOK, SettleClaim
      <4> QED BY <4>2, <4>3 DEF TypeOK
    <3>3. CASE ~(claiming[e][u] = "unpaid" /\ envelopes[e].count > 0)
      BY <1>1, <3>3 DEF TypeOK, SettleClaim
    <3> QED BY <3>2, <3>3
  <2>3. claiming' \in [Envelopes -> [Users -> {"idle", "reserved", "paid", "unpaid"}]]
    BY <1>1 DEF TypeOK, SettleClaim
  <2> QED BY <1>1, <2>1, <2>2, <2>3 DEF TypeOK, SettleClaim, redis, requests, chain, history
<1>2. CASE SettleClaimFails(e, u)
  BY <1>2 DEF TypeOK, SettleClaimFails, redis, requests, chain, history
<1> QED BY <1>1, <1>2

(* The steps that end an envelope keep the types.                           *)
LEMMA ProcType ==
    ASSUME proc \in [Procs -> Ending \cup {Idle}], NEW p \in Procs, NEW r \in Ending \cup {Idle},
           proc' = [proc EXCEPT ![p] = r]
    PROVE  proc' \in [Procs -> Ending \cup {Idle}]
OBVIOUS

LEMMA AdvanceType ==
    ASSUME proc \in [Procs -> Ending \cup {Idle}], NEW p \in Procs, proc[p] # Idle,
           NEW st \in {"refund", "mark", "release"}, Advance(p, st)
    PROVE  proc' \in [Procs -> Ending \cup {Idle}]
<1>1. [proc[p] EXCEPT !.stage = st] \in Ending
  BY EndingFields
<1>2. proc' = [proc EXCEPT ![p] = [proc[p] EXCEPT !.stage = st]]
  BY DEF Advance
<1> QED BY <1>1, <1>2

LEMMA FinishType ==
    ASSUME proc \in [Procs -> Ending \cup {Idle}], NEW p \in Procs, Finish(p)
    PROVE  proc' \in [Procs -> Ending \cup {Idle}]
BY DEF Finish

(* What no successful claim has taken is a sum over finitely many claims.   *)
LEMMA RemainingIsInt ==
    ASSUME TypeOK, RedAssumption, NEW e \in Envelopes
    PROVE  Remaining(e) \in Int
<1> DEFINE f == [u \in Users |-> claims[e][u].amount]
           S == {u \in Users : claims[e][u].status = "SUCCESS"}
<1>1. IsFiniteSet(S)
  BY FS_Subset DEF RedAssumption
<1>2. \A u \in S : f[u] \in Int
  BY DEF TypeOK, ClaimRow
<1>3. envelopes[e].total \in Int
  BY DEF TypeOK, EnvelopeRow
<1> HIDE DEF f, S
<1>4. SumFunctionOnSet(f, S) \in Int
  BY <1>1, <1>2, SumTakeOut
<1> QED BY <1>3, <1>4 DEF Remaining, f, S

LEMMA RequestType ==
    ASSUME TypeOK, RedAssumption, NEW e \in Envelopes, NEW p \in Procs, CancelRedEnvelope(p, e) \/ CloseSession(p, e)
    PROVE  TypeOK'
<1>1. CASE CancelRedEnvelope(p, e)
  <2>1. envelopes[e] \in EnvelopeRow /\ envelopes[e].total \in Int
    BY DEF TypeOK, EnvelopeRow
  <2>2. [envelopes[e] EXCEPT !.status = "FAILED"] \in EnvelopeRow
    BY <2>1 DEF EnvelopeRow, Status
  <2>3. envelopes' = [envelopes EXCEPT ![e] = [envelopes[e] EXCEPT !.status = "FAILED"]]
    BY <1>1 DEF TypeOK, CancelRedEnvelope
  <2>4. envelopes' \in [Envelopes -> EnvelopeRow]
    BY <2>2, <2>3 DEF TypeOK
  <2>5. [op |-> "cancel", stage |-> "refund", env |-> e, amount |-> envelopes[e].total] \in Ending
    BY <2>1 DEF Ending
  <2>6. proc' \in [Procs -> Ending \cup {Idle}]
    BY <1>1, <2>5 DEF TypeOK, CancelRedEnvelope, Begin
  <2> QED BY <1>1, <2>4, <2>6 DEF TypeOK, CancelRedEnvelope, redis, requests, chain, history
<1>2. CASE CloseSession(p, e)
  <2>1. [op |-> "close", stage |-> IF Remaining(e) > 0 THEN "refund" ELSE "mark",
         env |-> e, amount |-> Remaining(e)] \in Ending
    BY RemainingIsInt DEF Ending
  <2>2. proc' \in [Procs -> Ending \cup {Idle}]
    BY <1>2, <2>1 DEF TypeOK, CloseSession, Begin
  <2> QED BY <1>2, <2>2 DEF TypeOK, CloseSession, redis, requests, chain, history
<1> QED BY <1>1, <1>2

LEMMA JobType ==
    ASSUME TypeOK, RedAssumption, JobStep
    PROVE  TypeOK'
<1>1. CASE GetExpiredEnvelopes
  BY <1>1 DEF TypeOK, GetExpiredEnvelopes, Expired, redis, requests, chain, history
<1>2. ASSUME NEW e \in Envelopes, ProcessExpired(e)
      PROVE  TypeOK'
  <2>1. [op |-> "expire", stage |-> IF Remaining(e) > 0 THEN "refund" ELSE "mark",
         env |-> e, amount |-> Remaining(e)] \in Ending
    BY <1>2, RemainingIsInt DEF Ending
  <2>2. proc' \in [Procs -> Ending \cup {Idle}]
    BY <1>2, <2>1 DEF TypeOK, ProcessExpired, Begin, Procs
  <2> QED BY <1>2, <2>2 DEF TypeOK, ProcessExpired, redis, requests, chain, history
<1> QED BY <1>1, <1>2 DEF JobStep

LEMMA RefundType ==
    ASSUME TypeOK, RedAssumption, NEW p \in Procs, Refund(p)
    PROVE  TypeOK'
<1> DEFINE e == proc[p].env
           w == envelopes[e].wallet
           a == proc[p].amount * Multiplier
<1>1. proc[p] # Idle /\ proc[p] \in Ending \cup {Idle}
  BY DEF TypeOK, Refund
<1>2. e \in Envelopes /\ proc[p].amount \in Int
  BY <1>1, EndingFields
<1>3. w \in Wallets /\ a \in Int
  <2>1. envelopes[e] \in EnvelopeRow
    BY <1>2 DEF TypeOK
  <2>2. w \in Wallets
    BY <2>1 DEF EnvelopeRow
  <2>3. a \in Int
    BY <1>2 DEF RedAssumption
  <2> QED BY <2>2, <2>3
<1>4. PICK r \in Outcomes(w, a) :
         /\ Debit(w, a, r)
         /\ proc' = [proc EXCEPT ![p] =
                IF r.err /\ proc[p].op # "close" THEN Idle
                ELSE [proc[p] EXCEPT !.stage =
                         IF proc[p].op = "cancel" THEN "release" ELSE "mark"]]
         /\ stuck' = IF r.err /\ proc[p].op = "expire" THEN stuck \cup {e} ELSE stuck
  BY DEF Refund
<1> HIDE DEF e, w, a
<1>5. balance' \in [Wallets -> Nat]
  BY <1>3, <1>4, DebitType DEF TypeOK
<1>6. proc' \in [Procs -> Ending \cup {Idle}]
  <2>1. /\ [proc[p] EXCEPT !.stage = "release"] \in Ending
        /\ [proc[p] EXCEPT !.stage = "mark"] \in Ending
    BY <1>1, EndingFields
  <2> QED BY <1>4, <2>1 DEF TypeOK
<1>7. stuck' \subseteq Envelopes
  BY <1>2, <1>4 DEF TypeOK
<1>8. UNCHANGED <<envelopes, claims, wallets, queue, reserved, taken, recent, lost, mined, sent, held, claiming, todo, indexing,
                  payouts, deposited>>
  BY DEF Refund, redis, requests
<1> QED BY <1>5, <1>6, <1>7, <1>8 DEF TypeOK

LEMMA EndStepType ==
    ASSUME TypeOK, RedAssumption, NEW p \in Procs, EndStep(p)
    PROVE  TypeOK'
<1>1. CASE Refund(p)
  BY <1>1, RefundType
<1>2. CASE CancelWithoutRefund(p)
  <2>1. proc[p] # Idle
    BY <1>2 DEF CancelWithoutRefund, Idle
  <2>2. proc' \in [Procs -> Ending \cup {Idle}]
    BY <1>2, <2>1, AdvanceType DEF CancelWithoutRefund, TypeOK
  <2> QED BY <1>2, <2>2 DEF TypeOK, CancelWithoutRefund, redis, requests, chain, history
<1>3. CASE UpdateRedEnvelope(p)
  <2>1. proc' \in [Procs -> Ending \cup {Idle}]
    BY <1>3, AdvanceType DEF UpdateRedEnvelope, TypeOK
  <2>2. proc[p].env \in Envelopes
    BY <1>3, EndingFields DEF TypeOK, UpdateRedEnvelope
  <2>3. envelopes' \in [Envelopes -> EnvelopeRow]
    <3> DEFINE e == proc[p].env
    <3>1. envelopes[e] \in EnvelopeRow /\ FinalStatus(proc[p].op) \in Status
      BY <2>2 DEF TypeOK, FinalStatus, Status
    <3>2. [envelopes[e] EXCEPT !.status = FinalStatus(proc[p].op)] \in EnvelopeRow
      BY <3>1 DEF EnvelopeRow
    <3>3. envelopes' = [envelopes EXCEPT ![e] = [envelopes[e] EXCEPT !.status = FinalStatus(proc[p].op)]]
      BY <1>3, <2>2 DEF TypeOK, UpdateRedEnvelope
    <3> QED BY <2>2, <3>2, <3>3 DEF TypeOK
  <2> QED BY <1>3, <2>1, <2>3 DEF TypeOK, UpdateRedEnvelope, redis, requests, chain, history
<1>4. ASSUME NEW st \in {"READY", "PREPARE_REPLACE"}, ReleaseWallet(p, st)
      PROVE  TypeOK'
  <2>1. proc' \in [Procs -> Ending \cup {Idle}]
    BY <1>4, FinishType DEF ReleaseWallet, TypeOK
  <2>2. wallets' \in [Wallets -> WalletStatus]
    BY <1>4 DEF TypeOK, ReleaseWallet, WalletStatus
  <2> QED BY <1>4, <2>1, <2>2 DEF TypeOK, ReleaseWallet, redis, requests, chain, history
<1>5. CASE Abandon(p)
  <2>1. proc' \in [Procs -> Ending \cup {Idle}]
    BY <1>5, FinishType DEF Abandon, TypeOK
  <2>2. proc[p].env \in Envelopes
    BY <1>5, EndingFields DEF TypeOK, Abandon
  <2>3. stuck' \subseteq Envelopes
    BY <1>5, <2>2 DEF TypeOK, Abandon
  <2> QED BY <1>5, <2>1, <2>3 DEF TypeOK, Abandon, redis, requests, chain
<1> QED BY <1>1, <1>2, <1>3, <1>4, <1>5 DEF EndStep, Proceed

LEMMA NextType == TypeOK /\ RedAssumption /\ [Next]_vars => TypeOK'
<1> SUFFICES ASSUME TypeOK, RedAssumption, [Next]_vars PROVE TypeOK'
  OBVIOUS
<1>1. CASE Owner
  <2>1. ASSUME NEW e \in Envelopes, NEW p \in Requests, CancelRedEnvelope(p, e) \/ CloseSession(p, e)
        PROVE  TypeOK'
    BY <2>1, RequestType DEF Procs
  <2> QED BY <1>1, <2>1, CreateType, DepositType, LapseType DEF Owner
<1>2. CASE Indexer
  BY <1>2, ReadBlockType, PublishType, FailType, CommitType DEF Indexer
<1>3. ASSUME NEW e \in Envelopes, NEW u \in Users, Claimer(e, u)
      PROVE  TypeOK'
  BY <1>3, AttemptType, ReserveType, RefuseType, PayType, SettleType DEF Claimer, ClaimStep
<1>4. ASSUME NEW p \in Procs, EndStep(p)
      PROVE  TypeOK'
  BY <1>4, EndStepType
<1>5. CASE JobStep
  BY <1>5, JobType
<1>6. CASE \E e \in Envelopes : QueueExpires(e)
  BY <1>6, LapseType
<1>7. CASE Crash
  BY <1>7 DEF TypeOK, Crash, redis, requests, chain, history
<1>8. CASE UNCHANGED vars
  BY <1>8 DEF TypeOK, vars
<1> QED BY <1>1, <1>2, <1>3, <1>4, <1>5, <1>6, <1>7, <1>8 DEF Next

(* Every state of RedEnvelope has its type: in particular a status is always
   one the CHECK constraints of the tables admit, a wallet never pays more
   than it holds, and claimed_count is never negative.                      *)
THEOREM RedTypeCorrect == Spec => []TypeOK
<1>1. Init => TypeOK
  BY RedAssumption, InitType
<1>2. TypeOK /\ [Next]_vars => TypeOK'
  BY RedAssumption, NextType
<1> QED BY <1>1, <1>2, PTL DEF Spec

-----------------------------------------------------------------------------
(* The inductive invariant.                                                *)

(* What every step does to the rows of the envelopes that exist ...         *)
RowsLast ==
    \A e \in Envelopes :
        envelopes[e].status # "NONE" => /\ envelopes'[e].status # "NONE"
                                        /\ envelopes'[e].total = envelopes[e].total
(* ... and what every step but publishing does to them.                     *)
NonePublished ==
    \A e \in Envelopes :
        envelopes'[e].status = "PUBLISHED" => envelopes[e].status = "PUBLISHED"

LEMMA OneRowWritten ==
    ASSUME TypeOK, NEW e \in Envelopes, NEW r \in EnvelopeRow,
           envelopes' = [envelopes EXCEPT ![e] = r],
           envelopes[e].status # "NONE" => r.status # "NONE" /\ r.total = envelopes[e].total,
           r.status = "PUBLISHED" => envelopes[e].status = "PUBLISHED"
    PROVE  RowsLast /\ NonePublished
BY DEF TypeOK, RowsLast, NonePublished

LEMMA RowsUntouched ==
    ASSUME UNCHANGED envelopes
    PROVE  RowsLast /\ NonePublished
BY DEF RowsLast, NonePublished

(* A transaction says of the history what it said before.                   *)
LEMMA TxKept ==
    ASSUME TypeOK, RowsLast, deposited \subseteq deposited',
           \A e \in Envelopes, u \in Users : payouts[e][u] > 0 => payouts'[e][u] > 0,
           NEW t \in Funding \cup Payment, TxInv(t)
    PROVE  TxInv(t)'
<1>1. CASE t \in Funding
  <2>1. t.kind = "fund" /\ t.env \in Envelopes
    BY <1>1 DEF Funding
  <2> QED BY <2>1 DEF TxInv, RowsLast
<1>2. CASE t \in Payment
  <2>1. t.kind = "claim" /\ t.env \in Envelopes /\ t.user \in Users
    BY <1>2 DEF Payment
  <2> QED BY <2>1 DEF TxInv
<1> QED BY <1>1, <1>2

LEMMA TxsKept ==
    ASSUME TypeOK, RedInv, RowsLast, deposited \subseteq deposited',
           \A e \in Envelopes, u \in Users : payouts[e][u] > 0 => payouts'[e][u] > 0
    PROVE  /\ \A t \in mined : TxInv(t)'
           /\ indexing # Idle => \A t \in indexing.block : TxInv(t)'
           /\ UNCHANGED indexing => InsertionInv'
<1>1. \A t \in mined : TxInv(t)'
  <2> SUFFICES ASSUME NEW t \in mined PROVE TxInv(t)'
    OBVIOUS
  <2>1. t \in Funding \cup Payment
    BY DEF TypeOK
  <2>2. TxInv(t)
    BY DEF RedInv
  <2> QED BY <2>1, <2>2, TxKept
<1>2. indexing # Idle => \A t \in indexing.block : TxInv(t)'
  <2> SUFFICES ASSUME indexing # Idle, NEW t \in indexing.block PROVE TxInv(t)'
    OBVIOUS
  <2>1. t \in Funding \cup Payment
    BY DEF TypeOK, Insertion
  <2>2. TxInv(t)
    BY DEF RedInv, InsertionInv
  <2> QED BY <2>1, <2>2, TxKept
<1>3. UNCHANGED indexing => InsertionInv'
  BY <1>2 DEF RedInv, InsertionInv
<1> QED BY <1>1, <1>2, <1>3

(* The steps that write neither claims nor their requests keep the rest.    *)
LEMMA Kept ==
    ASSUME TypeOK, RedInv, RowsLast, NonePublished, deposited \subseteq deposited',
           UNCHANGED <<claims, claiming, payouts>>
    PROVE  /\ \A e \in Envelopes : EnvelopeInv(e)'
           /\ \A e \in Envelopes, u \in Users : ClaimInv(e, u)'
           /\ \A t \in mined : TxInv(t)'
           /\ indexing # Idle => \A t \in indexing.block : TxInv(t)'
           /\ UNCHANGED indexing => InsertionInv'
<1>1. \A e \in Envelopes : EnvelopeInv(e)'
  BY DEF RedInv, EnvelopeInv, NonePublished
<1>2. \A e \in Envelopes, u \in Users : ClaimInv(e, u)'
  BY DEF RedInv, ClaimInv, HoldsTurn
<1> QED BY <1>1, <1>2, TxsKept

LEMMA KeptWhole ==
    ASSUME TypeOK, RedInv, RowsLast, NonePublished,
           UNCHANGED <<claims, claiming, payouts, deposited, mined, indexing>>
    PROVE  RedInv'
BY Kept DEF RedInv

LEMMA InitInv == RedAssumption /\ Init => RedInv
<1> SUFFICES ASSUME RedAssumption, Init PROVE RedInv
  OBVIOUS
<1>1. \A e \in Envelopes : EnvelopeInv(e)
  BY DEF Init, EnvelopeInv
<1>2. \A e \in Envelopes, u \in Users : ClaimInv(e, u)
  BY DEF Init, ClaimInv, HoldsTurn
<1> QED BY <1>1, <1>2 DEF Init, RedInv, InsertionInv

-----------------------------------------------------------------------------
(* One lemma for each step that the invariant depends on.                   *)

LEMMA CreateInv ==
    ASSUME TypeOK, RedInv, RedAssumption, NEW e \in Envelopes, NEW w \in Wallets,
           NEW total \in Totals, NEW limit \in ClaimLimits, NEW random \in BOOLEAN,
           CreateRedEnvelope(e, w, total, limit, random)
    PROVE  RedInv'
<1>1. total \in Nat /\ limit \in Nat
  BY DEF RedAssumption
<1> DEFINE r == [status |-> "PENDING", total |-> total, limit |-> limit, count |-> 0,
                 random |-> random, wallet |-> w, due |-> FALSE]
<1>2. r \in EnvelopeRow
  BY <1>1 DEF EnvelopeRow, Status
<1>3. envelopes[e].status = "NONE" /\ r.status = "PENDING"
  BY DEF CreateRedEnvelope
<1>4. envelopes' = [envelopes EXCEPT ![e] = r]
  BY DEF CreateRedEnvelope
<1> HIDE DEF r
<1>5. RowsLast /\ NonePublished
  BY <1>2, <1>3, <1>4, OneRowWritten
<1>6. UNCHANGED <<claims, claiming, payouts, deposited, mined, indexing>>
  BY DEF CreateRedEnvelope, chain, requests, history
<1> QED BY <1>5, <1>6, KeptWhole

LEMMA DepositInv ==
    ASSUME TypeOK, RedInv, RedAssumption, NEW e \in Envelopes, NEW ok \in BOOLEAN,
           NEW a \in Totals \cup {t * Multiplier : t \in Totals}, SendDeposit(e, a, ok)
    PROVE  RedInv'
<1>1. PICK tx : tx = [kind |-> "fund", env |-> e, amount |-> a, ok |-> ok, n |-> sent[e]]
  OBVIOUS
<1>2. /\ envelopes[e].status # "NONE"
      /\ mined' = mined \cup {tx}
      /\ deposited' = IF ok /\ a = envelopes[e].total * Multiplier
                      THEN deposited \cup {e} ELSE deposited
      /\ UNCHANGED <<envelopes, claims, claiming, payouts, indexing>>
  BY <1>1 DEF SendDeposit
<1>3. /\ \A f \in Envelopes : EnvelopeInv(f)'
      /\ \A f \in Envelopes, u \in Users : ClaimInv(f, u)'
      /\ \A t \in mined : TxInv(t)'
      /\ InsertionInv'
  BY <1>2, RowsUntouched, Kept
<1>4. TxInv(tx)'
  <2>1. ok /\ a = envelopes[e].total * Multiplier => e \in deposited'
    BY <1>2
  <2>2. /\ tx.kind = "fund" /\ tx.env = e /\ tx.ok = ok /\ tx.amount = a
        /\ tx.kind # "claim"
    BY <1>1
  <2> QED BY <1>2, <2>1, <2>2 DEF TxInv
<1>5. \A t \in mined' : TxInv(t)'
  BY <1>2, <1>3, <1>4
<1> QED BY <1>3, <1>5 DEF RedInv

LEMMA ReadBlockInv ==
    ASSUME TypeOK, RedInv, NEW block \in SUBSET mined, ReadBlock(block)
    PROVE  RedInv'
<1>1. /\ indexing' = [op |-> "publish", block |-> block, valid |-> Validated(block, TRUE)]
      /\ UNCHANGED <<envelopes, claims, claiming, payouts, deposited, mined>>
  BY DEF ReadBlock, chain, requests, history
<1>2. RowsLast /\ NonePublished
  BY <1>1, RowsUntouched
<1>3. /\ \A e \in Envelopes : EnvelopeInv(e)'
      /\ \A e \in Envelopes, u \in Users : ClaimInv(e, u)'
      /\ \A t \in mined : TxInv(t)'
  BY <1>1, <1>2, Kept
<1>4. Validated(block, TRUE) \subseteq deposited
  <2> SUFFICES ASSUME NEW e \in Validated(block, TRUE) PROVE e \in deposited
    OBVIOUS
  <2>1. PICK t \in block : /\ t.kind = "fund" /\ t.env = e /\ t.ok = TRUE
                           /\ t.amount = envelopes[e].total * Multiplier
    BY DEF Validated
  <2>2. TxInv(t)
    BY <2>1 DEF RedInv
  <2> QED BY <2>1, <2>2 DEF TxInv
<1>5. InsertionInv'
  BY <1>1, <1>3, <1>4 DEF InsertionInv
<1> QED BY <1>1, <1>3, <1>5 DEF RedInv

LEMMA PublishInv ==
    ASSUME TypeOK, RedInv, PublishEnvelopes
    PROVE  RedInv'
<1>1. PICK done \in SUBSET {e \in indexing.valid : UpdateStatusInternal(e)} :
         envelopes' = [e \in Envelopes |->
             [envelopes[e] EXCEPT !.status = IF e \in done THEN "PUBLISHED" ELSE @]]
  BY DEF PublishEnvelopes
<1>2. /\ indexing.op = "publish"
      /\ indexing' = [indexing EXCEPT !.op = "fail"]
      /\ UNCHANGED <<claims, claiming, payouts, deposited, mined>>
  BY DEF PublishEnvelopes, chain, requests, history
<1>3. indexing # Idle /\ indexing \in Insertion
  BY <1>2 DEF TypeOK, Idle
<1>4. done \subseteq deposited
  BY <1>1, <1>2, <1>3 DEF RedInv, InsertionInv
<1>5. \A e \in Envelopes :
         /\ envelopes'[e].total = envelopes[e].total
         /\ envelopes'[e].status = IF e \in done THEN "PUBLISHED" ELSE envelopes[e].status
  BY <1>1 DEF TypeOK, EnvelopeRow
<1>6. RowsLast
  BY <1>5 DEF RowsLast
<1>7. \A e \in Envelopes : EnvelopeInv(e)'
  BY <1>2, <1>4, <1>5 DEF RedInv, EnvelopeInv
<1>8. \A e \in Envelopes, u \in Users : ClaimInv(e, u)'
  BY <1>2 DEF RedInv, ClaimInv, HoldsTurn
<1>9. /\ \A t \in mined : TxInv(t)'
      /\ \A t \in indexing.block : TxInv(t)'
  BY <1>2, <1>3, <1>6, TxsKept
<1>10. indexing'.block = indexing.block /\ indexing'.op = "fail"
  BY <1>2, <1>3 DEF Insertion
<1>11. InsertionInv'
  BY <1>9, <1>10 DEF InsertionInv
<1> QED BY <1>2, <1>7, <1>8, <1>9, <1>11 DEF RedInv

LEMMA FailInv ==
    ASSUME TypeOK, RedInv, FailEnvelopes
    PROVE  RedInv'
<1>1. PICK done \in SUBSET Validated(indexing.block, FALSE) :
         envelopes' = [e \in Envelopes |->
             [envelopes[e] EXCEPT !.status = IF e \in done THEN "FAILED" ELSE @]]
  BY DEF FailEnvelopes
<1>2. /\ indexing.op = "fail"
      /\ indexing' = [indexing EXCEPT !.op = "commit"]
      /\ UNCHANGED <<claims, claiming, payouts, deposited, mined>>
  BY DEF FailEnvelopes, chain, requests, history
<1>3. indexing # Idle /\ indexing \in Insertion
  BY <1>2 DEF TypeOK, Idle
<1>4. \A e \in Envelopes :
         /\ envelopes'[e].total = envelopes[e].total
         /\ envelopes'[e].status = IF e \in done THEN "FAILED" ELSE envelopes[e].status
  BY <1>1 DEF TypeOK, EnvelopeRow
<1>5. RowsLast /\ NonePublished
  BY <1>4 DEF RowsLast, NonePublished
<1>6. /\ \A e \in Envelopes : EnvelopeInv(e)'
      /\ \A e \in Envelopes, u \in Users : ClaimInv(e, u)'
      /\ \A t \in mined : TxInv(t)'
      /\ \A t \in indexing.block : TxInv(t)'
  BY <1>2, <1>3, <1>5, Kept
<1>7. indexing'.block = indexing.block /\ indexing'.op = "commit"
  BY <1>2, <1>3 DEF Insertion
<1>8. InsertionInv'
  BY <1>6, <1>7 DEF InsertionInv
<1> QED BY <1>2, <1>6, <1>8 DEF RedInv

(* Committing a block: a row that is reconciled belongs to a transfer the
   block carries, so its claimer has been paid.                             *)
LEMMA CommitInv ==
    ASSUME TypeOK, RedInv, CommitBlock
    PROVE  RedInv'
<1>1. /\ indexing.op = "commit"
      /\ mined' = mined \ indexing.block
      /\ indexing' = Idle
      /\ UNCHANGED <<envelopes, claiming, payouts, deposited>>
  BY DEF CommitBlock, history, requests
<1>2. indexing # Idle /\ indexing \in Insertion
  BY <1>1 DEF TypeOK, Idle
<1>3. ASSUME NEW e \in Envelopes, NEW u \in Users
      PROVE  claims'[e][u].status = IF <<e, u>> \in Reconciled(indexing.block) THEN "SUCCESS"
                                    ELSE claims[e][u].status
  <2> DEFINE R == Reconciled(indexing.block)
  <2>1. claims'[e][u] = [claims[e][u] EXCEPT !.status = IF <<e, u>> \in R THEN "SUCCESS" ELSE @]
    BY DEF CommitBlock
  <2>2. claims[e][u] \in ClaimRow
    BY DEF TypeOK
  <2> HIDE DEF R
  <2>3. claims'[e][u].status = IF <<e, u>> \in R THEN "SUCCESS" ELSE claims[e][u].status
    BY <2>1, <2>2 DEF ClaimRow
  <2> QED BY <2>3 DEF R
<1>4. ASSUME NEW e \in Envelopes, NEW u \in Users, <<e, u>> \in Reconciled(indexing.block)
      PROVE  claims[e][u].status = "PENDING" /\ payouts[e][u] > 0
  <2>1. claims[e][u].status = "PENDING"
    BY <1>4 DEF Reconciled
  <2>2. PICK t \in indexing.block : t.kind = "claim" /\ t.env = e /\ t.user = u
    BY <1>4 DEF Reconciled
  <2>3. TxInv(t)
    BY <1>2 DEF RedInv, InsertionInv
  <2> QED BY <2>1, <2>2, <2>3 DEF TxInv
<1>5. \A e \in Envelopes : EnvelopeInv(e)'
  BY <1>1, <1>3, <1>4 DEF RedInv, EnvelopeInv
<1>6. \A e \in Envelopes, u \in Users : ClaimInv(e, u)'
  <2> SUFFICES ASSUME NEW e \in Envelopes, NEW u \in Users PROVE ClaimInv(e, u)'
    OBVIOUS
  <2>1. ClaimInv(e, u)
    BY DEF RedInv
  <2>2. CASE <<e, u>> \in Reconciled(indexing.block)
    <3>1. claims[e][u].status = "PENDING" /\ payouts[e][u] > 0 /\ claims'[e][u].status = "SUCCESS"
      BY <1>3, <1>4, <2>2
    <3> QED BY <1>1, <2>1, <3>1 DEF ClaimInv, HoldsTurn
  <2>3. CASE <<e, u>> \notin Reconciled(indexing.block)
    <3>1. claims'[e][u].status = claims[e][u].status
      BY <1>3, <2>3
    <3> QED BY <1>1, <2>1, <3>1 DEF ClaimInv, HoldsTurn
  <2> QED BY <2>2, <2>3
<1>7. \A t \in mined : TxInv(t)'
  BY <1>1, RowsUntouched, TxsKept
<1>8. InsertionInv'
  BY <1>1 DEF InsertionInv
<1> QED BY <1>1, <1>5, <1>6, <1>7, <1>8 DEF RedInv

LEMMA AbandonBlockInv ==
    ASSUME TypeOK, RedInv, AbandonBlock
    PROVE  RedInv'
<1>1. /\ indexing' = Idle
      /\ UNCHANGED <<envelopes, claims, claiming, payouts, deposited, mined>>
  BY DEF AbandonBlock, chain, requests, history
<1>2. /\ \A e \in Envelopes : EnvelopeInv(e)'
      /\ \A e \in Envelopes, u \in Users : ClaimInv(e, u)'
      /\ \A t \in mined : TxInv(t)'
  BY <1>1, RowsUntouched, Kept
<1> QED BY <1>1, <1>2 DEF RedInv, InsertionInv

(* A claim takes a row that is not there, of an envelope that is published. *)
LEMMA ReserveInv ==
    ASSUME TypeOK, RedInv, NEW e \in Envelopes, NEW u \in Users, ReserveClaim(e, u)
    PROVE  RedInv'
<1>1. /\ envelopes[e].status = "PUBLISHED"
      /\ claims[e][u].status = "NONE"
      /\ UNCHANGED <<payouts, deposited, mined, indexing>>
  BY DEF ReserveClaim, chain, requests, history
<1>2. RowsLast /\ NonePublished
  <2>1. envelopes[e] \in EnvelopeRow
    BY DEF TypeOK
  <2>2. envelopes' = [envelopes EXCEPT ![e] = [envelopes[e] EXCEPT !.count = envelopes[e].count + 1]]
    BY DEF ReserveClaim, TypeOK
  <2>3. [envelopes[e] EXCEPT !.count = envelopes[e].count + 1] \in EnvelopeRow
    BY <2>1 DEF EnvelopeRow
  <2>4. /\ [envelopes[e] EXCEPT !.count = envelopes[e].count + 1].status = envelopes[e].status
        /\ [envelopes[e] EXCEPT !.count = envelopes[e].count + 1].total = envelopes[e].total
    BY <2>1 DEF EnvelopeRow
  <2> QED BY <1>1, <2>2, <2>3, <2>4, OneRowWritten
<1>3. /\ \A f \in Envelopes, v \in Users :
            <<f, v>> # <<e, u>> => UNCHANGED <<claims[f][v], claiming[f][v]>>
      /\ claims'[e][u].status = "PENDING"
      /\ claiming'[e][u] = "reserved"
  BY DEF ReserveClaim, TypeOK
<1>4. e \in deposited /\ payouts[e][u] = 0
  <2>1. EnvelopeInv(e) /\ ClaimInv(e, u)
    BY DEF RedInv
  <2>2. payouts[e][u] \in Nat
    BY DEF TypeOK
  <2> QED BY <1>1, <2>1, <2>2 DEF EnvelopeInv, ClaimInv
<1>5. ASSUME NEW f \in Envelopes PROVE EnvelopeInv(f)'
  <2>1. EnvelopeInv(f)
    BY DEF RedInv
  <2>2. envelopes'[f].status = "PUBLISHED" => f \in deposited'
    BY <1>1, <1>2, <2>1 DEF EnvelopeInv, NonePublished
  <2>3. ASSUME NEW v \in Users, claims'[f][v].status # "NONE" PROVE f \in deposited'
    BY <1>1, <1>3, <1>4, <2>1, <2>3 DEF EnvelopeInv
  <2> QED BY <2>2, <2>3 DEF EnvelopeInv
<1>6. ASSUME NEW f \in Envelopes, NEW v \in Users PROVE ClaimInv(f, v)'
  <2>1. CASE f = e /\ v = u
    BY <1>1, <1>3, <1>4, <2>1 DEF ClaimInv, HoldsTurn
  <2>2. CASE ~(f = e /\ v = u)
    <3>1. ClaimInv(f, v)
      BY DEF RedInv
    <3>2. UNCHANGED <<claims[f][v], claiming[f][v], payouts>>
      BY <1>1, <1>3, <2>2
    <3> QED BY <3>1, <3>2 DEF ClaimInv, HoldsTurn
  <2> QED BY <2>1, <2>2
<1>7. (\A t \in mined : TxInv(t)') /\ InsertionInv'
  BY <1>1, <1>2, TxsKept
<1> QED BY <1>1, <1>5, <1>6, <1>7 DEF RedInv

(* A transfer is made at most once: whoever is at "reserved" has not been paid. *)
LEMMA PayInv ==
    ASSUME TypeOK, RedInv, NEW e \in Envelopes, NEW u \in Users, PayClaim(e, u)
    PROVE  RedInv'
<1>1. PICK tx : tx = [kind |-> "claim", env |-> e, user |-> u,
                      amount |-> claims[e][u].amount * Multiplier]
  OBVIOUS
<1>2. PICK r \in Outcomes(envelopes[e].wallet, claims[e][u].amount * Multiplier) :
         /\ payouts' = [payouts EXCEPT ![e][u] = @ + IF r.moved THEN 1 ELSE 0]
         /\ mined' = IF r.moved THEN mined \cup {tx} ELSE mined
         /\ claiming' = [claiming EXCEPT ![e][u] = IF r.err THEN "unpaid" ELSE "paid"]
  BY <1>1 DEF PayClaim
<1>3. /\ claiming[e][u] = "reserved"
      /\ UNCHANGED <<envelopes, claims, deposited, indexing>>
  BY DEF PayClaim
<1>4. ClaimInv(e, u)
  BY DEF RedInv
<1>5. payouts[e][u] = 0
  <2>1. payouts[e][u] \in Nat
    BY DEF TypeOK
  <2> QED BY <1>3, <1>4, <2>1 DEF ClaimInv
<1>6. r.err \/ r.moved
  BY DEF Outcomes
<1>7. payouts'[e][u] = IF r.moved THEN 1 ELSE 0
  <2>1. payouts[e][u] \in Nat
    BY DEF TypeOK
  <2>2. payouts'[e][u] = payouts[e][u] + IF r.moved THEN 1 ELSE 0
    BY <1>2 DEF TypeOK
  <2> QED BY <1>5, <2>2
<1>8. claiming'[e][u] = IF r.err THEN "unpaid" ELSE "paid"
  BY <1>2 DEF TypeOK
<1>9. \A f \in Envelopes, v \in Users :
         <<f, v>> # <<e, u>> => UNCHANGED <<claiming[f][v], payouts[f][v]>>
  BY <1>2 DEF TypeOK
<1>10. ASSUME NEW f \in Envelopes, NEW v \in Users PROVE ClaimInv(f, v)'
  <2>1. CASE f = e /\ v = u
    <3>1. HoldsTurn(e, u) /\ claims[e][u].status \in {"PENDING", "SUCCESS"}
      BY <1>3, <1>4 DEF ClaimInv, HoldsTurn
    <3>2. claims[e][u].status # "SUCCESS"
      BY <1>4, <1>5 DEF ClaimInv
    <3> QED BY <1>3, <1>6, <1>7, <1>8, <2>1, <3>1, <3>2 DEF ClaimInv, HoldsTurn
  <2>2. CASE ~(f = e /\ v = u)
    <3>1. ClaimInv(f, v)
      BY DEF RedInv
    <3>2. UNCHANGED <<claims, claiming[f][v], payouts[f][v]>>
      BY <1>3, <1>9, <2>2
    <3> QED BY <3>1, <3>2 DEF ClaimInv, HoldsTurn
  <2> QED BY <2>1, <2>2
<1>11. \A f \in Envelopes : EnvelopeInv(f)'
  BY <1>3 DEF RedInv, EnvelopeInv
<1>12. \A f \in Envelopes, v \in Users : payouts[f][v] > 0 => payouts'[f][v] > 0
  BY <1>5, <1>9
<1>13. (\A t \in mined : TxInv(t)') /\ InsertionInv'
  BY <1>3, <1>12, RowsUntouched, TxsKept
<1>14. \A t \in mined' : TxInv(t)'
  <2>1. r.moved => TxInv(tx)'
    BY <1>1, <1>7 DEF TxInv
  <2> QED BY <1>2, <1>13, <2>1
<1> QED BY <1>10, <1>11, <1>13, <1>14 DEF RedInv

LEMMA SettleRows ==
    ASSUME TypeOK, NEW e \in Envelopes, NEW u \in Users, SettleClaim(e, u)
    PROVE  RowsLast /\ NonePublished
<1>1. envelopes[e] \in EnvelopeRow
  BY DEF TypeOK
<1>2. CASE claiming[e][u] = "unpaid" /\ envelopes[e].count > 0
  <2>1. envelopes' = [envelopes EXCEPT ![e] = [envelopes[e] EXCEPT !.count = envelopes[e].count - 1]]
    BY <1>2 DEF SettleClaim, TypeOK
  <2>2. [envelopes[e] EXCEPT !.count = envelopes[e].count - 1] \in EnvelopeRow
    BY <1>1, <1>2 DEF EnvelopeRow
  <2>3. /\ [envelopes[e] EXCEPT !.count = envelopes[e].count - 1].status = envelopes[e].status
        /\ [envelopes[e] EXCEPT !.count = envelopes[e].count - 1].total = envelopes[e].total
    BY <1>1 DEF EnvelopeRow
  <2> QED BY <2>1, <2>2, <2>3, OneRowWritten
<1>3. CASE ~(claiming[e][u] = "unpaid" /\ envelopes[e].count > 0)
  BY <1>3, RowsUntouched DEF SettleClaim
<1> QED BY <1>2, <1>3

LEMMA SettleInv ==
    ASSUME TypeOK, RedInv, NEW e \in Envelopes, NEW u \in Users, SettleClaim(e, u)
    PROVE  RedInv'
<1>1. /\ claiming[e][u] \in {"paid", "unpaid"}
      /\ UNCHANGED <<payouts, deposited, mined, indexing>>
  BY DEF SettleClaim, chain, requests, history
<1>2. /\ \A f \in Envelopes, v \in Users :
            <<f, v>> # <<e, u>> => UNCHANGED <<claims[f][v], claiming[f][v]>>
      /\ claiming'[e][u] = "idle"
  BY DEF SettleClaim, TypeOK
<1>3. claims'[e][u].status = IF claiming[e][u] = "paid" THEN "SUCCESS" ELSE "FAILED"
  BY DEF SettleClaim, TypeOK, ClaimRow
<1>4. ClaimInv(e, u) /\ EnvelopeInv(e)
  BY DEF RedInv
<1>5. ASSUME NEW f \in Envelopes PROVE EnvelopeInv(f)'
  <2>1. EnvelopeInv(f)
    BY DEF RedInv
  <2>2. envelopes'[f].status = "PUBLISHED" => f \in deposited'
    BY <1>1, SettleRows, <2>1 DEF EnvelopeInv, NonePublished
  <2>3. ASSUME NEW v \in Users, claims'[f][v].status # "NONE" PROVE f \in deposited'
    <3>1. CASE f = e /\ v = u
      <4>1. claims[e][u].status # "NONE"
        BY <1>1, <1>4 DEF ClaimInv, HoldsTurn
      <4> QED BY <1>1, <1>4, <3>1, <4>1 DEF EnvelopeInv
    <3>2. CASE ~(f = e /\ v = u)
      BY <1>1, <1>2, <2>1, <2>3, <3>2 DEF EnvelopeInv
    <3> QED BY <3>1, <3>2
  <2> QED BY <2>2, <2>3 DEF EnvelopeInv
<1>6. ASSUME NEW f \in Envelopes, NEW v \in Users PROVE ClaimInv(f, v)'
  <2>1. CASE f = e /\ v = u
    BY <1>1, <1>2, <1>3, <1>4, <2>1 DEF ClaimInv, HoldsTurn
  <2>2. CASE ~(f = e /\ v = u)
    <3>1. ClaimInv(f, v)
      BY DEF RedInv
    <3>2. UNCHANGED <<claims[f][v], claiming[f][v], payouts>>
      BY <1>1, <1>2, <2>2
    <3> QED BY <3>1, <3>2 DEF ClaimInv, HoldsTurn
  <2> QED BY <2>1, <2>2
<1>7. (\A t \in mined : TxInv(t)') /\ InsertionInv'
  BY <1>1, SettleRows, TxsKept
<1> QED BY <1>1, <1>5, <1>6, <1>7 DEF RedInv

(* A request that stops, one after the other or all at once, forgets where it was. *)
LEMMA ForgottenInv ==
    ASSUME TypeOK, RedInv,
           UNCHANGED <<envelopes, claims, payouts, deposited, mined, indexing>>,
           \A e \in Envelopes, u \in Users :
              claiming'[e][u] = "idle" \/ claiming'[e][u] = claiming[e][u]
    PROVE  RedInv'
<1>1. \A e \in Envelopes : EnvelopeInv(e)'
  BY DEF RedInv, EnvelopeInv
<1>2. \A e \in Envelopes, u \in Users : ClaimInv(e, u)'
  BY DEF RedInv, ClaimInv, HoldsTurn
<1>3. (\A t \in mined : TxInv(t)') /\ InsertionInv'
  BY RowsUntouched, TxsKept
<1> QED BY <1>1, <1>2, <1>3 DEF RedInv

(* What ends an envelope writes one column of one row.                      *)
LEMMA EndingRow ==
    ASSUME TypeOK, NEW p \in Procs,
           \/ \E e \in Envelopes : CancelRedEnvelope(p, e)
           \/ UpdateRedEnvelope(p)
    PROVE  \E e \in Envelopes, st \in Ended : envelopes' = [envelopes EXCEPT ![e].status = st]
<1>1. CASE \E e \in Envelopes : CancelRedEnvelope(p, e)
  BY <1>1 DEF CancelRedEnvelope, Ended
<1>2. CASE UpdateRedEnvelope(p)
  <2>1. proc[p].env \in Envelopes
    BY <1>2, EndingFields DEF TypeOK, UpdateRedEnvelope
  <2> QED BY <1>2, <2>1 DEF UpdateRedEnvelope, FinalStatus, Ended
<1> QED BY <1>1, <1>2

LEMMA EndingInv ==
    ASSUME TypeOK, RedInv, NEW p \in Procs,
           \/ \E e \in Envelopes : CancelRedEnvelope(p, e)
           \/ UpdateRedEnvelope(p)
    PROVE  RedInv'
<1>1. PICK e \in Envelopes, st \in Ended : envelopes' = [envelopes EXCEPT ![e].status = st]
  BY EndingRow
<1>2. RowsLast /\ NonePublished
  <2>1. envelopes[e] \in EnvelopeRow
    BY DEF TypeOK
  <2>2. [envelopes[e] EXCEPT !.status = st] \in EnvelopeRow
    BY <2>1 DEF EnvelopeRow, Status, Ended
  <2>3. envelopes' = [envelopes EXCEPT ![e] = [envelopes[e] EXCEPT !.status = st]]
    BY <1>1 DEF TypeOK
  <2>4. /\ [envelopes[e] EXCEPT !.status = st].status = st
        /\ [envelopes[e] EXCEPT !.status = st].total = envelopes[e].total
    BY <2>1 DEF EnvelopeRow
  <2>5. st # "NONE" /\ st # "PUBLISHED"
    BY DEF Ended
  <2> QED BY <2>2, <2>3, <2>4, <2>5, OneRowWritten
<1>3. UNCHANGED <<claims, claiming, payouts, deposited, mined, indexing>>
  BY DEF CancelRedEnvelope, UpdateRedEnvelope, chain, requests, history
<1> QED BY <1>2, <1>3, KeptWhole

LEMMA LapseInv ==
    ASSUME TypeOK, RedInv, NEW e \in Envelopes, Lapse(e)
    PROVE  RedInv'
<1>1. envelopes[e] \in EnvelopeRow
  BY DEF TypeOK
<1>2. envelopes' = [envelopes EXCEPT ![e] = [envelopes[e] EXCEPT !.due = TRUE]]
  BY DEF Lapse, TypeOK
<1>3. [envelopes[e] EXCEPT !.due = TRUE] \in EnvelopeRow
  BY <1>1 DEF EnvelopeRow
<1>4. /\ [envelopes[e] EXCEPT !.due = TRUE].status = envelopes[e].status
      /\ [envelopes[e] EXCEPT !.due = TRUE].total = envelopes[e].total
  BY <1>1 DEF EnvelopeRow
<1>5. RowsLast /\ NonePublished
  BY <1>2, <1>3, <1>4, OneRowWritten
<1>6. UNCHANGED <<claims, claiming, payouts, deposited, mined, indexing>>
  BY DEF Lapse, chain, requests, history
<1> QED BY <1>5, <1>6, KeptWhole

LEMMA RedInvStep == TypeOK /\ RedAssumption /\ RedInv /\ [Next]_vars => RedInv'
<1> SUFFICES ASSUME TypeOK, RedAssumption, RedInv, [Next]_vars PROVE RedInv'
  OBVIOUS
<1> DEFINE Quiet == UNCHANGED <<envelopes, claims, claiming, payouts, deposited, mined, indexing>>
<1>1. Quiet => RedInv'
  BY RowsUntouched, KeptWhole
<1>2. CASE Owner
  <2>1. ASSUME NEW e \in Envelopes, NEW p \in Requests, CancelRedEnvelope(p, e) PROVE RedInv'
    BY <2>1, EndingInv DEF Procs
  <2>2. ASSUME NEW e \in Envelopes, NEW p \in Requests, CloseSession(p, e) PROVE RedInv'
    BY <1>1, <2>2 DEF CloseSession, chain, requests, history
  <2> QED BY <1>2, <2>1, <2>2, CreateInv, DepositInv, LapseInv DEF Owner
<1>3. CASE Indexer
  BY <1>3, ReadBlockInv, PublishInv, FailInv, CommitInv, AbandonBlockInv DEF Indexer
<1>4. ASSUME NEW e \in Envelopes, NEW u \in Users, Claimer(e, u) PROVE RedInv'
  <2>1. CASE AttemptClaim(e, u)
    BY <1>1, <2>1 DEF AttemptClaim, TakeNext, chain, requests, history
  <2>2. CASE RefuseClaim(e, u)
    BY <1>1, <2>2 DEF RefuseClaim, chain, requests, history
  <2>3. CASE SettleClaimFails(e, u)
    <3>1. \A f \in Envelopes, v \in Users :
             claiming'[f][v] = "idle" \/ claiming'[f][v] = claiming[f][v]
      BY <2>3 DEF SettleClaimFails, TypeOK
    <3>2. UNCHANGED <<envelopes, claims, payouts, deposited, mined, indexing>>
      BY <2>3 DEF SettleClaimFails, chain, requests, history
    <3> QED BY <3>1, <3>2, ForgottenInv
  <2> QED BY <1>4, <2>1, <2>2, <2>3, ReserveInv, PayInv, SettleInv DEF Claimer, ClaimStep
<1>5. ASSUME NEW p \in Procs, EndStep(p) PROVE RedInv'
  <2>1. CASE Refund(p)
    BY <1>1, <2>1 DEF Refund
  <2>2. CASE CancelWithoutRefund(p)
    BY <1>1, <2>2 DEF CancelWithoutRefund, chain, requests, history
  <2>3. ASSUME NEW st \in {"READY", "PREPARE_REPLACE"}, ReleaseWallet(p, st) PROVE RedInv'
    BY <1>1, <2>3 DEF ReleaseWallet, chain, requests, history
  <2>4. CASE Abandon(p)
    BY <1>1, <2>4 DEF Abandon, chain, requests
  <2> QED BY <1>5, <2>1, <2>2, <2>3, <2>4, EndingInv DEF EndStep, Proceed
<1>6. CASE JobStep
  BY <1>1, <1>6 DEF JobStep, GetExpiredEnvelopes, ProcessExpired, chain, requests, history
<1>7. CASE \E e \in Envelopes : QueueExpires(e)
  BY <1>1, <1>7 DEF QueueExpires, chain, requests, history
<1>8. CASE Crash
  <2>1. \A e \in Envelopes, u \in Users : claiming'[e][u] = "idle"
    BY <1>8 DEF Crash
  <2>2. UNCHANGED <<envelopes, claims, payouts, deposited, mined, indexing>>
    BY <1>8 DEF Crash, chain, requests, history
  <2> QED BY <2>1, <2>2, ForgottenInv
<1>9. CASE UNCHANGED vars
  BY <1>1, <1>9 DEF vars
<1> QED BY <1>2, <1>3, <1>4, <1>5, <1>6, <1>7, <1>8, <1>9 DEF Next

(* RedInv is an invariant.                                                  *)
THEOREM RedInvariant == Spec => [](TypeOK /\ RedInv)
<1>1. Init => RedInv
  BY RedAssumption, InitInv
<1>2. TypeOK /\ RedInv /\ [Next]_vars => RedInv'
  BY RedAssumption, RedInvStep
<1> QED BY <1>1, <1>2, RedTypeCorrect, PTL DEF Spec

(* Nobody is paid from an envelope, and none is claimable, whose exact deposit
   never reached its wallet: whatever the indexer read before the owner
   canceled, however often a block or a call comes again.                   *)
THEOREM OnlyFundedEnvelopesPay == Spec => []ClaimsWereFunded
<1>1. TypeOK /\ RedInv => ClaimsWereFunded
  <2> SUFFICES ASSUME TypeOK, RedInv, NEW e \in Envelopes,
                      envelopes[e].status = "PUBLISHED" \/ \E u \in Users : payouts[e][u] > 0
               PROVE  e \in deposited
    BY DEF ClaimsWereFunded
  <2>1. EnvelopeInv(e)
    BY DEF RedInv
  <2>2. ASSUME NEW u \in Users, payouts[e][u] > 0 PROVE claims[e][u].status # "NONE"
    BY <2>2 DEF RedInv, ClaimInv
  <2> QED BY <2>1, <2>2 DEF EnvelopeInv
<1> QED BY <1>1, RedInvariant, PTL

(* No failure after a transfer, and no crash, pays a user twice.             *)
THEOREM NobodyIsPaidTwice == Spec => []ClaimsPaidOnce
<1>1. RedInv => ClaimsPaidOnce
  BY DEF RedInv, ClaimInv, ClaimsPaidOnce
<1> QED BY <1>1, RedInvariant, PTL

(* A claim that reads SUCCESS has been paid on the chain, whoever wrote it:
   the request that claimed or the indexer.                                 *)
THEOREM SuccessMeansPaid == Spec => []SuccessWasPaid
<1>1. RedInv => SuccessWasPaid
  BY DEF RedInv, ClaimInv, SuccessWasPaid
<1> QED BY <1>1, RedInvariant, PTL

-----------------------------------------------------------------------------
(* claimed_count.  The claimers that hold a turn of an envelope are counted,
   and an envelope that has no row has none.                                *)
Turns(e) == {u \in Users : claims[e][u].status \in {"PENDING", "SUCCESS"}}
CountInv ==
    \A e \in Envelopes : /\ envelopes[e].count = Cardinality(Turns(e))
                         /\ envelopes[e].count <= envelopes[e].limit
                         /\ envelopes[e].status = "NONE" => Turns(e) = {}
CountsUntouched ==
    \A e \in Envelopes : /\ envelopes'[e].count = envelopes[e].count
                         /\ envelopes'[e].limit = envelopes[e].limit
                         /\ envelopes'[e].status = "NONE" => envelopes[e].status = "NONE"

LEMMA TurnsFinite ==
    ASSUME RedAssumption, NEW e \in Envelopes
    PROVE  IsFiniteSet(Turns(e)) /\ Cardinality(Turns(e)) \in Nat
<1>1. Turns(e) \in SUBSET Users
  BY DEF Turns
<1>2. IsFiniteSet(Turns(e))
  BY <1>1, FS_Subset DEF RedAssumption
<1> QED BY <1>2, FS_CardinalityType

LEMMA CountKept ==
    ASSUME CountInv, CountsUntouched, \A e \in Envelopes : Turns(e)' = Turns(e)
    PROVE  CountInv'
BY DEF CountInv, CountsUntouched

LEMMA CountRow ==
    ASSUME TypeOK, NEW e \in Envelopes, NEW r \in EnvelopeRow,
           envelopes' = [envelopes EXCEPT ![e] = r], r.count = envelopes[e].count,
           r.limit = envelopes[e].limit, r.status # "NONE" \/ r.status = envelopes[e].status
    PROVE  CountsUntouched
BY DEF TypeOK, CountsUntouched

LEMMA CountQuiet ==
    ASSUME CountInv, UNCHANGED <<envelopes, claims>>
    PROVE  CountInv'
BY DEF CountInv, Turns

LEMMA CountCreate ==
    ASSUME TypeOK, CountInv, RedAssumption, NEW e \in Envelopes, NEW w \in Wallets,
           NEW total \in Totals, NEW limit \in ClaimLimits, NEW random \in BOOLEAN,
           CreateRedEnvelope(e, w, total, limit, random)
    PROVE  CountInv'
<1>1. envelopes[e].status = "NONE" /\ UNCHANGED claims
  BY DEF CreateRedEnvelope
<1>2. \A f \in Envelopes : Turns(f)' = Turns(f)
  BY <1>1 DEF Turns
<1>3. \A f \in Envelopes : f # e => envelopes'[f] = envelopes[f]
  BY DEF CreateRedEnvelope, TypeOK
<1>4. envelopes'[e].count = 0 /\ envelopes'[e].limit = limit /\ envelopes'[e].status = "PENDING"
  BY DEF CreateRedEnvelope, TypeOK
<1>5. limit \in Nat
  BY DEF RedAssumption
<1>6. Cardinality(Turns(e)) = 0
  BY <1>1, FS_EmptySet DEF CountInv
<1> QED BY <1>2, <1>3, <1>4, <1>5, <1>6 DEF CountInv

LEMMA CountReserve ==
    ASSUME TypeOK, CountInv, RedAssumption, NEW e \in Envelopes, NEW u \in Users, ReserveClaim(e, u)
    PROVE  CountInv'
<1>1. /\ envelopes[e].status = "PUBLISHED" /\ envelopes[e].count < envelopes[e].limit
      /\ claims[e][u].status = "NONE"
  BY DEF ReserveClaim
<1>2. /\ claims'[e][u].status = "PENDING"
      /\ \A v \in Users : v # u => claims'[e][v] = claims[e][v]
      /\ \A f \in Envelopes : f # e => claims'[f] = claims[f]
  BY DEF ReserveClaim, TypeOK
<1>3. Turns(e)' = Turns(e) \cup {u}
  BY <1>2 DEF Turns
<1>4. u \notin Turns(e)
  BY <1>1 DEF Turns
<1>5. Cardinality(Turns(e)') = Cardinality(Turns(e)) + 1
  BY <1>3, <1>4, TurnsFinite, FS_AddElement
<1>6. /\ envelopes'[e].count = envelopes[e].count + 1
      /\ envelopes'[e].limit = envelopes[e].limit
      /\ envelopes'[e].status = envelopes[e].status
      /\ \A f \in Envelopes : f # e => envelopes'[f] = envelopes[f]
  BY DEF ReserveClaim, TypeOK, EnvelopeRow
<1>7. \A f \in Envelopes : f # e => Turns(f)' = Turns(f)
  BY <1>2 DEF Turns
<1>8. envelopes[e].count \in Nat /\ envelopes[e].limit \in Nat
  BY DEF TypeOK, EnvelopeRow
<1> QED BY <1>1, <1>5, <1>6, <1>7, <1>8 DEF CountInv

(* The turn a claim returns is one it holds, so the guard on a positive count
   never keeps the count from going down.                                   *)
LEMMA CountSettle ==
    ASSUME TypeOK, RedInv, CountInv, RedAssumption, NEW e \in Envelopes, NEW u \in Users, SettleClaim(e, u)
    PROVE  CountInv'
<1>1. u \in Turns(e)
  BY DEF SettleClaim, RedInv, ClaimInv, HoldsTurn, Turns
<1>2. /\ claims'[e][u].status = IF claiming[e][u] = "paid" THEN "SUCCESS" ELSE "FAILED"
      /\ \A v \in Users : v # u => claims'[e][v] = claims[e][v]
      /\ \A f \in Envelopes : f # e => claims'[f] = claims[f]
  BY DEF SettleClaim, TypeOK, ClaimRow
<1>3. \A f \in Envelopes : f # e => Turns(f)' = Turns(f)
  BY <1>2 DEF Turns
<1>4. CASE claiming[e][u] = "paid"
  <2>1. Turns(e)' = Turns(e)
    BY <1>1, <1>2, <1>4 DEF Turns
  <2>2. CountsUntouched
    BY <1>4 DEF SettleClaim, CountsUntouched
  <2> QED BY <1>3, <2>1, <2>2, CountKept
<1>5. CASE claiming[e][u] = "unpaid"
  <2>1. Turns(e)' = Turns(e) \ {u}
    BY <1>2, <1>5 DEF Turns
  <2>2. Cardinality(Turns(e)') = Cardinality(Turns(e)) - 1
    BY <1>1, <2>1, TurnsFinite, FS_RemoveElement
  <2>3. Cardinality(Turns(e)) \in Nat /\ Cardinality(Turns(e)) # 0
    BY <1>1, TurnsFinite, FS_EmptySet
  <2>4. envelopes[e].count > 0
    BY <2>3 DEF CountInv
  <2>5. /\ envelopes'[e].count = envelopes[e].count - 1
        /\ envelopes'[e].limit = envelopes[e].limit
        /\ envelopes'[e].status = envelopes[e].status
        /\ \A f \in Envelopes : f # e => envelopes'[f] = envelopes[f]
    BY <1>5, <2>4 DEF SettleClaim, TypeOK, EnvelopeRow
  <2>6. envelopes[e].count \in Nat /\ envelopes[e].limit \in Nat
    BY DEF TypeOK, EnvelopeRow
  <2>7. envelopes[e].status # "NONE"
    BY <1>1 DEF CountInv
  <2> QED BY <1>3, <2>2, <2>3, <2>5, <2>6, <2>7 DEF CountInv
<1> QED BY <1>4, <1>5 DEF SettleClaim

(* The indexer turns PENDING rows into SUCCESS, which holds a turn as well.  *)
LEMMA CountIndexer ==
    ASSUME TypeOK, CountInv, Indexer
    PROVE  CountInv'
<1>1. ASSUME NEW block \in SUBSET mined, ReadBlock(block) PROVE CountInv'
  BY <1>1, CountQuiet DEF ReadBlock
<1>2. CASE PublishEnvelopes
  <2>1. PICK done : envelopes' = [e \in Envelopes |->
             [envelopes[e] EXCEPT !.status = IF e \in done THEN "PUBLISHED" ELSE @]]
    BY <1>2 DEF PublishEnvelopes
  <2>2. CountsUntouched
    BY <2>1 DEF CountsUntouched, TypeOK, EnvelopeRow
  <2>3. \A e \in Envelopes : Turns(e)' = Turns(e)
    BY <1>2 DEF PublishEnvelopes, Turns
  <2> QED BY <2>2, <2>3, CountKept
<1>3. CASE FailEnvelopes
  <2>1. PICK done : envelopes' = [e \in Envelopes |->
             [envelopes[e] EXCEPT !.status = IF e \in done THEN "FAILED" ELSE @]]
    BY <1>3 DEF FailEnvelopes
  <2>2. CountsUntouched
    BY <2>1 DEF CountsUntouched, TypeOK, EnvelopeRow
  <2>3. \A e \in Envelopes : Turns(e)' = Turns(e)
    BY <1>3 DEF FailEnvelopes, Turns
  <2> QED BY <2>2, <2>3, CountKept
<1>4. CASE CommitBlock
  <2>1. CountsUntouched
    BY <1>4 DEF CommitBlock, CountsUntouched
  <2>2. ASSUME NEW e \in Envelopes, NEW u \in Users
        PROVE  claims'[e][u].status \in {"PENDING", "SUCCESS"}
                  <=> claims[e][u].status \in {"PENDING", "SUCCESS"}
    <3> DEFINE R == Reconciled(indexing.block)
    <3>1. claims'[e][u] = [claims[e][u] EXCEPT !.status = IF <<e, u>> \in R THEN "SUCCESS" ELSE @]
      BY <1>4 DEF CommitBlock
    <3>2. <<e, u>> \in R => claims[e][u].status = "PENDING"
      BY DEF Reconciled
    <3>3. claims[e][u] \in ClaimRow
      BY DEF TypeOK
    <3> HIDE DEF R
    <3> QED BY <3>1, <3>2, <3>3 DEF ClaimRow
  <2>3. \A e \in Envelopes : Turns(e)' = Turns(e)
    BY <2>2 DEF Turns
  <2> QED BY <2>1, <2>3, CountKept
<1>5. CASE AbandonBlock
  BY <1>5, CountQuiet DEF AbandonBlock
<1> QED BY <1>1, <1>2, <1>3, <1>4, <1>5 DEF Indexer

LEMMA CountEnding ==
    ASSUME TypeOK, CountInv, NEW p \in Procs,
           \/ \E e \in Envelopes : CancelRedEnvelope(p, e)
           \/ UpdateRedEnvelope(p)
    PROVE  CountInv'
<1>1. PICK e \in Envelopes, st \in Ended : envelopes' = [envelopes EXCEPT ![e].status = st]
  BY EndingRow
<1>2. CountsUntouched
  BY <1>1 DEF CountsUntouched, TypeOK, EnvelopeRow, Ended
<1>3. \A f \in Envelopes : Turns(f)' = Turns(f)
  BY DEF CancelRedEnvelope, UpdateRedEnvelope, Turns
<1> QED BY <1>2, <1>3, CountKept

LEMMA CountStep == TypeOK /\ RedAssumption /\ RedInv /\ CountInv /\ [Next]_vars => CountInv'
<1> SUFFICES ASSUME TypeOK, RedAssumption, RedInv, CountInv, [Next]_vars PROVE CountInv'
  OBVIOUS
<1>1. CASE Owner
  <2>1. ASSUME NEW e \in Envelopes, NEW p \in Requests, CancelRedEnvelope(p, e) PROVE CountInv'
    BY <2>1, CountEnding DEF Procs
  <2>2. ASSUME NEW e \in Envelopes, NEW p \in Requests, CloseSession(p, e) PROVE CountInv'
    BY <2>2, CountQuiet DEF CloseSession
  <2>3. ASSUME NEW e \in Envelopes, NEW ok \in BOOLEAN, NEW a, SendDeposit(e, a, ok) PROVE CountInv'
    BY <2>3, CountQuiet DEF SendDeposit
  <2>4. ASSUME NEW e \in Envelopes, Lapse(e) PROVE CountInv'
    <3>1. CountsUntouched
      BY <2>4 DEF Lapse, CountsUntouched, TypeOK, EnvelopeRow
    <3>2. \A f \in Envelopes : Turns(f)' = Turns(f)
      BY <2>4 DEF Lapse, Turns
    <3> QED BY <3>1, <3>2, CountKept
  <2> QED BY <1>1, <2>1, <2>2, <2>3, <2>4, CountCreate DEF Owner
<1>2. CASE Indexer
  BY <1>2, CountIndexer
<1>3. ASSUME NEW e \in Envelopes, NEW u \in Users, Claimer(e, u) PROVE CountInv'
  <2>1. CASE AttemptClaim(e, u)
    BY <2>1, CountQuiet DEF AttemptClaim, TakeNext
  <2>2. CASE PayClaim(e, u)
    BY <2>2, CountQuiet DEF PayClaim
  <2>3. CASE SettleClaimFails(e, u)
    BY <2>3, CountQuiet DEF SettleClaimFails
  <2>4. CASE RefuseClaim(e, u)
    BY <2>4, CountQuiet DEF RefuseClaim
  <2> QED BY <1>3, <2>1, <2>2, <2>3, <2>4, CountReserve, CountSettle DEF Claimer, ClaimStep
<1>4. ASSUME NEW p \in Procs, EndStep(p) PROVE CountInv'
  <2>1. CASE UpdateRedEnvelope(p)
    BY <2>1, CountEnding
  <2>2. CASE ~UpdateRedEnvelope(p)
    BY <1>4, <2>2, CountQuiet DEF EndStep, Proceed, Refund, CancelWithoutRefund, ReleaseWallet, Abandon
  <2> QED BY <2>1, <2>2
<1>5. CASE JobStep
  BY <1>5, CountQuiet DEF JobStep, GetExpiredEnvelopes, ProcessExpired
<1>6. CASE \E e \in Envelopes : QueueExpires(e)
  BY <1>6, CountQuiet DEF QueueExpires
<1>7. CASE Crash
  BY <1>7, CountQuiet DEF Crash
<1>8. CASE UNCHANGED vars
  BY <1>8, CountQuiet DEF vars
<1> QED BY <1>1, <1>2, <1>3, <1>4, <1>5, <1>6, <1>7, <1>8 DEF Next

(* The count is exact in every state.                                      *)
THEOREM CountAlways == Spec => []CountInv
<1>1. Init => CountInv
  <2> SUFFICES ASSUME Init, NEW e \in Envelopes
               PROVE  /\ envelopes[e].count = Cardinality(Turns(e))
                      /\ envelopes[e].count <= envelopes[e].limit
                      /\ envelopes[e].status = "NONE" => Turns(e) = {}
    BY DEF CountInv
  <2>1. Turns(e) = {}
    BY DEF Init, Turns
  <2>2. envelopes[e].count = 0 /\ envelopes[e].limit = 0
    BY DEF Init
  <2> QED BY <2>1, <2>2, FS_EmptySet
<1>2. TypeOK /\ RedInv /\ CountInv /\ [Next]_vars => CountInv'
  BY RedAssumption, CountStep
<1> QED BY <1>1, <1>2, RedInvariant, PTL DEF Spec

(* claimed_count counts the claims that hold a turn and stays within
   total_claims, for any number of claimers and with every failure between
   the three transactions of a claim.                                       *)
THEOREM ClaimedCountIsExact == Spec => []CountMatchesClaims
<1>1. CountInv => CountMatchesClaims
  BY DEF CountInv, CountMatchesClaims, Turns
<1> QED BY <1>1, CountAlways, PTL

(* No step brings an ended envelope back.                                   *)
Stays == \A e \in Envelopes : envelopes[e].status \in Ended => envelopes'[e].status \in Ended
LEMMA StaysEnded == ASSUME TypeOK, [Next]_vars PROVE Stays
<1>1. UNCHANGED envelopes => Stays
  BY DEF Stays
<1>2. ASSUME NEW e \in Envelopes, NEW w, NEW total, NEW limit, NEW random,
             CreateRedEnvelope(e, w, total, limit, random)
      PROVE  Stays
  BY <1>2 DEF Stays, CreateRedEnvelope, TypeOK, Ended
<1>3. ASSUME NEW e \in Envelopes, Lapse(e) PROVE Stays
  BY <1>3 DEF Stays, Lapse, TypeOK, EnvelopeRow
<1>4. ASSUME NEW p \in Procs, (\E e \in Envelopes : CancelRedEnvelope(p, e)) \/ UpdateRedEnvelope(p)
      PROVE  Stays
  <2>1. PICK e \in Envelopes, st \in Ended : envelopes' = [envelopes EXCEPT ![e].status = st]
    BY <1>4, EndingRow
  <2> QED BY <2>1 DEF Stays, TypeOK, EnvelopeRow
<1>5. CASE PublishEnvelopes
  <2>1. PICK done \in SUBSET {e \in indexing.valid : UpdateStatusInternal(e)} :
           envelopes' = [e \in Envelopes |->
               [envelopes[e] EXCEPT !.status = IF e \in done THEN "PUBLISHED" ELSE @]]
    BY <1>5 DEF PublishEnvelopes
  <2>2. \A e \in Envelopes : e \in done => envelopes[e].status = "PENDING"
    BY DEF UpdateStatusInternal
  <2> QED BY <2>1, <2>2 DEF Stays, TypeOK, EnvelopeRow, Ended
<1>6. CASE FailEnvelopes
  <2>1. PICK done : envelopes' = [e \in Envelopes |->
               [envelopes[e] EXCEPT !.status = IF e \in done THEN "FAILED" ELSE @]]
    BY <1>6 DEF FailEnvelopes
  <2> QED BY <2>1 DEF Stays, TypeOK, EnvelopeRow, Ended
<1>7. ASSUME NEW e \in Envelopes, NEW u \in Users, ReserveClaim(e, u) \/ SettleClaim(e, u)
      PROVE  Stays
  <2>1. ASSUME NEW n, envelopes' = [envelopes EXCEPT ![e].count = n] PROVE Stays
    BY <2>1 DEF Stays, TypeOK, EnvelopeRow
  <2>2. CASE ReserveClaim(e, u)
    <3>1. envelopes' = [envelopes EXCEPT ![e].count = envelopes[e].count + 1]
      BY <2>2 DEF ReserveClaim, TypeOK, EnvelopeRow
    <3> QED BY <2>1, <3>1
  <2>3. CASE SettleClaim(e, u)
    <3>1. envelopes' = [envelopes EXCEPT ![e].count = envelopes[e].count - 1] \/ UNCHANGED envelopes
      BY <2>3 DEF SettleClaim, TypeOK, EnvelopeRow
    <3> QED BY <1>1, <2>1, <3>1
  <2> QED BY <1>7, <2>2, <2>3
<1>8. CASE Owner
  BY <1>1, <1>2, <1>3, <1>4, <1>8 DEF Owner, Procs, SendDeposit, CloseSession
<1>9. CASE Indexer
  BY <1>1, <1>5, <1>6, <1>9 DEF Indexer, ReadBlock, CommitBlock, AbandonBlock
<1>10. ASSUME NEW e \in Envelopes, NEW u \in Users, Claimer(e, u) PROVE Stays
  BY <1>1, <1>7, <1>10 DEF Claimer, ClaimStep, AttemptClaim, TakeNext, RefuseClaim, PayClaim, SettleClaimFails
<1>11. ASSUME NEW p \in Procs, EndStep(p) PROVE Stays
  BY <1>1, <1>4, <1>11 DEF EndStep, Proceed, Refund, CancelWithoutRefund, ReleaseWallet, Abandon
<1>12. CASE JobStep \/ (\E e \in Envelopes : QueueExpires(e)) \/ Crash \/ UNCHANGED vars
  BY <1>1, <1>12 DEF JobStep, GetExpiredEnvelopes, ProcessExpired, QueueExpires, Crash, vars
<1> QED BY <1>8, <1>9, <1>10, <1>11, <1>12 DEF Next

(* What has ended stays ended, also when its deposit was validated before.   *)
THEOREM EndedForGood == Spec => EndedEnvelopesStayEnded
<1>1. TypeOK /\ [Next]_vars => [Stays]_vars
  BY StaysEnded
<1> QED BY <1>1, RedTypeCorrect, PTL DEF Spec, EndedEnvelopesStayEnded, Stays

-----------------------------------------------------------------------------
(* The amounts.                                                              *)

(* The split.                                                              *)

(* Arithmetic of the split.                                                *)
LEMMA MulSucc == \A k, q \in Int : (k + 1) * q = k * q + q
OBVIOUS

LEMMA DivMod ==
    ASSUME NEW t \in Nat, NEW n \in Nat, n > 0
    PROVE  /\ t \div n \in Nat /\ t % n \in 0 .. (n - 1)
           /\ n * (t \div n) + (t % n) = t
OBVIOUS

(* The amounts of an even split are those of the total.                     *)
LEMMA EvenSplitSum ==
    ASSUME NEW total \in Nat, NEW n \in Nat, n > 0
    PROVE  SumFunction(EvenSplit(total, n)) = total
<1> DEFINE f == EvenSplit(total, n)
           q == total \div n
           r == total % n
           P(k) == SumFunctionOnSet(f, 1 .. k) = k * q + (IF k < r THEN k ELSE r)
           N == {k \in Nat : k <= n => P(k)}
<1>1. q \in Nat /\ r \in Nat /\ r < n /\ n * q + r = total
  BY DivMod
<1>2. \A k \in 0 .. (n - 1) : f[k + 1] = IF k < r THEN q + 1 ELSE q
  BY DEF EvenSplit
<1>3. DOMAIN f = 1 .. n
  BY DEF EvenSplit
<1> HIDE DEF f, q, r
<1>4. 0 \in N
  <2>1. 1 .. 0 = {} /\ 0 * q = 0
    BY <1>1
  <2>2. SumFunctionOnSet(f, 1 .. 0) = 0
    BY <2>1, SumEmpty
  <2> QED BY <1>1, <2>1, <2>2
<1>5. ASSUME NEW k \in Nat, k \in N PROVE k + 1 \in N
  <2> SUFFICES ASSUME k + 1 <= n PROVE P(k + 1)
    OBVIOUS
  <2>1. P(k)
    BY <1>5
  <2>2. SumFunctionOnSet(f, 1 .. (k + 1)) = f[k + 1] + SumFunctionOnSet(f, 1 .. k)
    <3> DEFINE A == 1 .. k
    <3>1. IsFiniteSet(A) /\ 1 .. (k + 1) = A \cup {k + 1} /\ k + 1 \notin A
      <4>1. 1 .. (k + 1) = A \cup {k + 1} /\ k + 1 \notin A
        OBVIOUS
      <4>2. \A b \in Int : IsFiniteSet(1 .. b)
        BY FS_Interval
      <4> QED BY <4>1, <4>2
    <3>2. \A x \in A \cup {k + 1} : f[x] \in Int
      <4> SUFFICES ASSUME NEW x \in A \cup {k + 1} PROVE f[x] \in Int
        OBVIOUS
      <4>1. x - 1 \in 0 .. (n - 1) /\ (x - 1) + 1 = x
        OBVIOUS
      <4> QED BY <1>1, <1>2, <4>1
    <3> HIDE DEF A
    <3>3. SumFunctionOnSet(f, A \cup {k + 1}) = f[k + 1] + SumFunctionOnSet(f, A)
      BY <3>1, <3>2, SumAdd
    <3> QED BY <3>1, <3>3 DEF A
  <2>3. f[k + 1] = IF k < r THEN q + 1 ELSE q
    BY <1>2
  <2>4. (k + 1) * q = k * q + q /\ k * q \in Int
    BY <1>1, MulSucc
  <2> QED BY <1>1, <2>1, <2>2, <2>3, <2>4
<1>6. P(n)
  <2> HIDE DEF N
  <2>1. n \in N
    BY <1>4, <1>5, NatSetInduction
  <2> QED BY <2>1 DEF N
<1>7. SumFunctionOnSet(f, 1 .. n) = total
  BY <1>1, <1>6
<1> QED BY <1>3, <1>7 DEF SumFunction, f

(* Every split of an envelope has as many amounts as the envelope has turns,
   and they add up to its total.                                            *)
LEMMA SplitsSum ==
    ASSUME TypeOK, RedAssumption, NEW e \in Envelopes, envelopes[e].limit > 0, NEW s \in Splits(e)
    PROVE  s \in Seq(Nat) /\ Len(s) = envelopes[e].limit /\ SumFunction(s) = envelopes[e].total
<1>1. envelopes[e].total \in Nat /\ envelopes[e].limit \in Nat
  BY DEF TypeOK, EnvelopeRow
<1>2. CASE envelopes[e].random
  <2>1. s \in [1 .. envelopes[e].limit -> MinAmount .. MaxAmount] /\ SumFunction(s) = envelopes[e].total
    BY <1>2 DEF Splits, RandomSplits
  <2>2. MinAmount .. MaxAmount \subseteq Nat
    BY DEF RedAssumption
  <2>3. s \in [1 .. envelopes[e].limit -> Nat]
    BY <2>1, <2>2
  <2> QED BY <1>1, <2>1, <2>3
<1>3. CASE ~envelopes[e].random
  <2>1. s = EvenSplit(envelopes[e].total, envelopes[e].limit)
    BY <1>3 DEF Splits
  <2>2. \A i \in 1 .. envelopes[e].limit :
           (IF i - 1 < envelopes[e].total % envelopes[e].limit
            THEN envelopes[e].total \div envelopes[e].limit + 1
            ELSE envelopes[e].total \div envelopes[e].limit) \in Nat
    <3>1. envelopes[e].total \div envelopes[e].limit \in Nat
      BY <1>1, DivMod
    <3> QED BY <3>1
  <2>3. s \in [1 .. envelopes[e].limit -> Nat]
    BY <2>1, <2>2 DEF EvenSplit
  <2> QED BY <1>1, <2>1, <2>3, EvenSplitSum
<1> QED BY <1>2, <1>3

-----------------------------------------------------------------------------
(* What is handed out of an envelope.                                      *)

(* Those who have a row or carry an amount: each of them took one.           *)
Takers(e) ==
    {u \in Users : \/ claims[e][u].status # "NONE"
                   \/ reserved[e][u] # NoReservation
                   \/ lost[e][u] # {}}

NothingPromised(e) ==
    /\ queue[e] = <<>>
    /\ \A u \in Users : /\ reserved[e][u] = NoReservation /\ lost[e][u] = {}
                        /\ claims[e][u].status = "NONE" /\ taken[e][u] = 0

(* What a user carries, or has in his row, he took from the queue.           *)
AmountsInv(e) ==
    /\ queue[e] \in Seq(Nat)
    /\ \A u \in Users :
          /\ taken[e][u] \in Nat
          /\ claims[e][u].amount \in 0 .. taken[e][u]
          /\ reserved[e][u] # NoReservation => reserved[e][u] \in 0 .. taken[e][u]
          /\ lost[e][u] \subseteq 0 .. taken[e][u]

(* Nothing is handed out before the envelope is published; then what is taken
   and what is left stay within the total, and the takers and the amounts left
   within the turns.                                                         *)
PromiseInv(e) ==
    /\ envelopes[e].status \in {"NONE", "PENDING"} => NothingPromised(e)
    /\ envelopes[e].status = "PENDING" => envelopes[e].limit > 0
    /\ AmountsInv(e)
    /\ SumFunction(taken[e]) + SumFunction(queue[e]) <= envelopes[e].total
    /\ Cardinality(Takers(e)) + Len(queue[e]) <= envelopes[e].limit

(* What the rows and Redis say of what is handed out of an envelope.         *)
handed == <<claims, queue, reserved, taken, lost>>

LEMMA TakersFinite ==
    ASSUME RedAssumption, NEW e
    PROVE  IsFiniteSet(Takers(e)) /\ Cardinality(Takers(e)) \in Nat
<1>1. IsFiniteSet(Takers(e))
  BY FS_Subset DEF Takers, RedAssumption
<1> QED BY <1>1, FS_CardinalityType

LEMMA TakenFunction ==
    ASSUME RedAssumption, TypeOK, NEW e \in Envelopes
    PROVE  DOMAIN taken[e] = Users /\ IsFiniteSet(Users)
BY DEF TypeOK, RedAssumption

LEMMA NothingSums ==
    ASSUME RedAssumption, TypeOK, NEW e \in Envelopes, NothingPromised(e)
    PROVE  SumFunction(taken[e]) = 0 /\ Takers(e) = {} /\ Cardinality(Takers(e)) = 0
<1>1. \A u \in Users : taken[e][u] = 0
  BY DEF NothingPromised
<1>2. SumFunctionOnSet(taken[e], Users) = 0
  BY <1>1, TakenFunction, SumZero
<1>3. Takers(e) = {}
  BY DEF NothingPromised, Takers
<1> QED BY <1>2, <1>3, TakenFunction, FS_EmptySet DEF SumFunction

LEMMA TakenSum ==
    ASSUME RedAssumption, TypeOK, NEW e \in Envelopes, AmountsInv(e)
    PROVE  SumFunction(taken[e]) \in Nat /\ SumFunction(queue[e]) \in Nat /\ Len(queue[e]) \in Nat
<1>1. \A u \in Users : taken[e][u] \in Nat
  BY DEF AmountsInv
<1>2. SumFunctionOnSet(taken[e], Users) \in Nat
  BY <1>1, TakenFunction, SumNat
<1>3. queue[e] \in Seq(Nat)
  BY DEF AmountsInv
<1> QED BY <1>2, <1>3, TakenFunction, SumOfSeq DEF SumFunction

(* A step that hands nothing out, and lets nobody take, keeps the invariant of
   an envelope.                                                             *)
LEMMA NoMorePromised ==
    ASSUME RedAssumption, TypeOK, NEW e \in Envelopes, PromiseInv(e), AmountsInv(e)',
           envelopes'[e].total = envelopes[e].total,
           envelopes'[e].limit = envelopes[e].limit,
           envelopes'[e].status = "PENDING" => envelopes[e].status = "PENDING",
           envelopes'[e].status \in {"NONE", "PENDING"} => NothingPromised(e)',
           queue'[e] \in {queue[e], <<>>}, taken'[e] = taken[e],
           Takers(e)' \subseteq Takers(e)
    PROVE  PromiseInv(e)'
<1>1. AmountsInv(e)
  BY DEF PromiseInv
<1>2. SumFunction(taken[e]) \in Nat /\ SumFunction(queue[e]) \in Nat /\ Len(queue[e]) \in Nat
  BY <1>1, TakenSum
<1>3. /\ SumFunction(queue'[e]) <= SumFunction(queue[e])
      /\ SumFunction(queue'[e]) \in Nat
      /\ Len(queue'[e]) <= Len(queue[e]) /\ Len(queue'[e]) \in Nat
  <2>1. CASE queue'[e] = queue[e]
    BY <1>2, <2>1
  <2>2. CASE queue'[e] = <<>>
    <3>1. SumFunction(<<>>) = 0
      BY SumEmpty DEF SumFunction
    <3> QED BY <1>2, <2>2, <3>1
  <2> QED BY <2>1, <2>2
<1>4. /\ Cardinality(Takers(e))' <= Cardinality(Takers(e))
      /\ Cardinality(Takers(e))' \in Nat /\ Cardinality(Takers(e)) \in Nat
  <2>1. IsFiniteSet(Takers(e)) /\ Cardinality(Takers(e)) \in Nat
    BY TakersFinite
  <2>2. \A T \in SUBSET Takers(e) : Cardinality(T) <= Cardinality(Takers(e)) /\ Cardinality(T) \in Nat
    BY <2>1, FS_Subset, FS_CardinalityType
  <2> QED BY <2>1, <2>2
<1>5. envelopes[e].total \in Nat /\ envelopes[e].limit \in Nat
  BY DEF TypeOK, EnvelopeRow
<1>6. SumFunction(taken'[e]) + SumFunction(queue'[e]) <= envelopes'[e].total
  <2>1. SumFunction(taken[e]) + SumFunction(queue[e]) <= envelopes[e].total
    BY DEF PromiseInv
  <2>2. \A b, c, d \in Nat, t \in Nat : b <= d /\ c + d <= t => c + b <= t
    OBVIOUS
  <2> QED BY <1>2, <1>3, <1>5, <2>1, <2>2
<1>7. Cardinality(Takers(e))' + Len(queue'[e]) <= envelopes'[e].limit
  <2>1. Cardinality(Takers(e)) + Len(queue[e]) <= envelopes[e].limit
    BY DEF PromiseInv
  <2>2. \A a, b, c, d \in Nat, t \in Nat : a <= c /\ b <= d /\ c + d <= t => a + b <= t
    OBVIOUS
  <2> QED BY <1>2, <1>3, <1>4, <1>5, <2>1, <2>2
<1>8. envelopes'[e].status = "PENDING" => envelopes'[e].limit > 0
  BY DEF PromiseInv
<1> QED BY <1>6, <1>7, <1>8 DEF PromiseInv

(* The row changes, Redis and the claims do not.                            *)
LEMMA PromiseRow ==
    ASSUME RedAssumption, TypeOK, NEW e \in Envelopes, PromiseInv(e), UNCHANGED handed,
           envelopes'[e].total = envelopes[e].total,
           envelopes'[e].limit = envelopes[e].limit,
           \/ envelopes'[e].status = envelopes[e].status
           \/ envelopes'[e].status \notin {"NONE", "PENDING"}
    PROVE  PromiseInv(e)'
<1>1. UNCHANGED <<claims, queue, reserved, taken, lost>>
  BY DEF handed
<1>2. AmountsInv(e) /\ AmountsInv(e)'
  BY <1>1 DEF PromiseInv, AmountsInv
<1>3. Takers(e)' = Takers(e) /\ (NothingPromised(e)' <=> NothingPromised(e))
  BY <1>1 DEF Takers, NothingPromised
<1>4. envelopes'[e].status \in {"NONE", "PENDING"} => NothingPromised(e)'
  BY <1>3 DEF PromiseInv
<1> QED BY <1>1, <1>2, <1>3, <1>4, NoMorePromised

LEMMA PromiseCreate ==
    ASSUME RedAssumption, TypeOK, NEW e \in Envelopes, PromiseInv(e), NEW w \in Wallets,
           NEW total \in Totals, NEW limit \in ClaimLimits, NEW random \in BOOLEAN,
           CreateRedEnvelope(e, w, total, limit, random)
    PROVE  PromiseInv(e)'
<1>1. NothingPromised(e)
  BY DEF PromiseInv, CreateRedEnvelope
<1>2. UNCHANGED <<claims, queue, reserved, taken, lost>>
  BY DEF CreateRedEnvelope, redis, requests
<1>3. envelopes'[e].total = total /\ envelopes'[e].limit = limit /\ total \in Nat /\ limit \in Nat /\ limit > 0
  BY DEF CreateRedEnvelope, TypeOK, RedAssumption
<1>4. SumFunction(taken'[e]) = 0 /\ Cardinality(Takers(e))' = 0
  <2>1. Takers(e)' = Takers(e)
    BY <1>2 DEF Takers
  <2> QED BY <1>1, <1>2, <2>1, NothingSums
<1>5. SumFunction(queue'[e]) = 0 /\ Len(queue'[e]) = 0
  <2>1. SumFunction(<<>>) = 0
    BY SumEmpty DEF SumFunction
  <2> QED BY <1>1, <1>2, <2>1 DEF NothingPromised
<1>6. NothingPromised(e)' /\ AmountsInv(e)'
  BY <1>1, <1>2 DEF PromiseInv, NothingPromised, AmountsInv
<1> QED BY <1>3, <1>4, <1>5, <1>6 DEF PromiseInv

(* Publishing splits the total, and only once.                              *)
LEMMA PromisePublish ==
    ASSUME RedAssumption, TypeOK, NEW e \in Envelopes, PromiseInv(e), PublishEnvelopes
    PROVE  PromiseInv(e)'
<1>1. PICK done \in SUBSET {f \in indexing.valid : UpdateStatusInternal(f)} :
      \E queued \in SUBSET done :
      \E split \in [queued -> UNION {Splits(f) : f \in queued}] :
         /\ \A f \in queued : split[f] \in Splits(f)
         /\ envelopes' = [f \in Envelopes |->
                [envelopes[f] EXCEPT !.status = IF f \in done THEN "PUBLISHED" ELSE @]]
         /\ queue' = [f \in Envelopes |-> IF f \in queued THEN queue[f] \o split[f] ELSE queue[f]]
  BY DEF PublishEnvelopes
<1>2. PICK queued \in SUBSET done :
      \E split \in [queued -> UNION {Splits(f) : f \in queued}] :
         /\ \A f \in queued : split[f] \in Splits(f)
         /\ envelopes' = [f \in Envelopes |->
                [envelopes[f] EXCEPT !.status = IF f \in done THEN "PUBLISHED" ELSE @]]
         /\ queue' = [f \in Envelopes |-> IF f \in queued THEN queue[f] \o split[f] ELSE queue[f]]
  BY <1>1
<1>3. PICK split \in [queued -> UNION {Splits(f) : f \in queued}] :
         /\ \A f \in queued : split[f] \in Splits(f)
         /\ envelopes' = [f \in Envelopes |->
                [envelopes[f] EXCEPT !.status = IF f \in done THEN "PUBLISHED" ELSE @]]
         /\ queue' = [f \in Envelopes |-> IF f \in queued THEN queue[f] \o split[f] ELSE queue[f]]
  BY <1>2
<1>4. UNCHANGED <<claims, reserved, taken, lost>>
  BY DEF PublishEnvelopes, requests
<1>5. /\ envelopes'[e].total = envelopes[e].total /\ envelopes'[e].limit = envelopes[e].limit
      /\ envelopes'[e].status = IF e \in done THEN "PUBLISHED" ELSE envelopes[e].status
      /\ e \in done => envelopes[e].status = "PENDING"
  <2>1. e \in done => envelopes[e].status = "PENDING"
    BY DEF UpdateStatusInternal
  <2>2. envelopes[e] \in EnvelopeRow
    BY DEF TypeOK
  <2>3. envelopes'[e] = [envelopes[e] EXCEPT !.status = IF e \in done THEN "PUBLISHED" ELSE envelopes[e].status]
    BY <1>3
  <2> QED BY <2>1, <2>2, <2>3 DEF EnvelopeRow
<1>6. CASE e \in queued
  <2>1. NothingPromised(e)
    BY <1>5, <1>6 DEF PromiseInv
  <2>2. envelopes[e].limit > 0
    BY <1>5, <1>6 DEF PromiseInv
  <2>3. PICK s \in Splits(e) : queue'[e] = s
    <3>1. split[e] \in Splits(e) /\ queue'[e] = <<>> \o split[e]
      BY <1>3, <1>6, <2>1 DEF NothingPromised
    <3>2. split[e] \in Seq(Nat)
      BY <2>2, <3>1, SplitsSum
    <3> QED BY <3>1, <3>2
  <2>4. s \in Seq(Nat) /\ Len(s) = envelopes[e].limit /\ SumFunction(s) = envelopes[e].total
    BY <2>2, SplitsSum
  <2>5. AmountsInv(e)'
    BY <1>4, <2>3, <2>4 DEF AmountsInv, PromiseInv
  <2>6. SumFunction(taken'[e]) = 0 /\ Cardinality(Takers(e))' = 0
    <3>1. Takers(e)' = Takers(e)
      BY <1>4 DEF Takers
    <3> QED BY <1>4, <2>1, <3>1, NothingSums
  <2>7. envelopes[e].total \in Nat /\ envelopes[e].limit \in Nat
    BY DEF TypeOK, EnvelopeRow
  <2> QED BY <1>5, <1>6, <2>2, <2>3, <2>4, <2>5, <2>6, <2>7 DEF PromiseInv
<1>7. CASE e \notin queued
  <2>1. queue'[e] = queue[e]
    BY <1>3, <1>7
  <2>2. AmountsInv(e) /\ AmountsInv(e)'
    BY <1>4, <2>1 DEF PromiseInv, AmountsInv
  <2>3. Takers(e)' = Takers(e) /\ (NothingPromised(e)' <=> NothingPromised(e))
    BY <1>4, <2>1 DEF Takers, NothingPromised
  <2>4. envelopes'[e].status \in {"NONE", "PENDING"} => NothingPromised(e)'
    BY <1>5, <2>3 DEF PromiseInv
  <2>5. envelopes'[e].status = "PENDING" => envelopes[e].status = "PENDING"
    BY <1>5
  <2> QED BY <1>4, <1>5, <2>1, <2>2, <2>3, <2>4, <2>5, NoMorePromised
<1> QED BY <1>6, <1>7

(* An amount leaves the queue and is counted as taken.                      *)
LEMMA PromiseAttempt ==
    ASSUME RedAssumption, TypeOK, NEW e \in Envelopes, NEW u \in Users, PromiseInv(e), AttemptClaim(e, u)
    PROVE  PromiseInv(e)'
<1> DEFINE q == queue[e]
           f == taken[e]
           g == taken'[e]
<1>1. /\ q # <<>> /\ UNCHANGED <<envelopes, claims, lost>>
      /\ reserved'[e] = [reserved[e] EXCEPT ![u] = Head(q)]
      /\ taken'[e] = [taken[e] EXCEPT ![u] = taken[e][u] + Head(q)]
      /\ queue'[e] = Tail(q)
  BY DEF AttemptClaim, TakeNext, requests, TypeOK
<1>2. q \in Seq(Nat) /\ AmountsInv(e)
  BY DEF PromiseInv, AmountsInv
<1>3. Head(q) \in Nat /\ Tail(q) \in Seq(Nat) /\ Len(Tail(q)) = Len(q) - 1 /\ Len(q) \in Nat
  BY <1>1, <1>2
<1>4. /\ reserved'[e][u] = Head(q)
      /\ \A v \in Users : v # u => reserved'[e][v] = reserved[e][v]
  BY <1>1 DEF TypeOK
<1>5. /\ \A v \in Users : f[v] \in Nat /\ g[v] \in Nat /\ (v # u => g[v] = f[v])
      /\ g[u] = f[u] + Head(q)
      /\ DOMAIN f = Users /\ DOMAIN g = Users /\ IsFiniteSet(Users)
  <2>1. \A v \in Users : f[v] \in Nat
    BY <1>2 DEF AmountsInv
  <2>2. DOMAIN f = Users /\ IsFiniteSet(Users)
    BY TakenFunction
  <2>3. g = [f EXCEPT ![u] = f[u] + Head(q)]
    BY <1>1
  <2> HIDE DEF f, g, q
  <2> QED BY <1>3, <2>1, <2>2, <2>3
<1>6. AmountsInv(e)'
  <2>1. ASSUME NEW v \in Users
        PROVE  /\ taken'[e][v] \in Nat
               /\ claims'[e][v].amount \in 0 .. taken'[e][v]
               /\ reserved'[e][v] # NoReservation => reserved'[e][v] \in 0 .. taken'[e][v]
               /\ lost'[e][v] \subseteq 0 .. taken'[e][v]
    <3>1. /\ taken[e][v] \in Nat /\ taken'[e][v] \in Nat /\ taken[e][v] <= taken'[e][v]
          /\ v = u => Head(q) <= taken'[e][v]
      BY <1>3, <1>5
    <3>2. /\ claims[e][v].amount \in 0 .. taken[e][v]
          /\ reserved[e][v] # NoReservation => reserved[e][v] \in 0 .. taken[e][v]
          /\ lost[e][v] \subseteq 0 .. taken[e][v]
      BY <1>2 DEF AmountsInv
    <3>3. 0 .. taken[e][v] \subseteq 0 .. taken'[e][v]
      BY <3>1
    <3>4. CASE v = u
      BY <1>1, <1>3, <1>4, <3>1, <3>2, <3>3, <3>4
    <3>5. CASE v # u
      BY <1>1, <1>4, <3>1, <3>2, <3>3, <3>5
    <3> QED BY <3>4, <3>5
  <2> QED BY <1>1, <1>3, <2>1 DEF AmountsInv
<1>7. SumFunction(q) = Head(q) + SumFunction(Tail(q)) /\ SumFunction(q) \in Nat /\ SumFunction(Tail(q)) \in Nat
  <2>1. q \in Seq(Int)
    BY <1>2
  <2> HIDE DEF q
  <2> QED BY <1>1, <1>2, <1>3, <2>1, SumOfTail, SumOfSeq
<1>8. SumFunction(g) = SumFunction(f) + Head(q) /\ SumFunction(f) \in Nat
  <2> HIDE DEF f, g, q
  <2>1. SumFunctionOnSet(g, Users) = SumFunctionOnSet(f, Users) - f[u] + g[u]
    <3>1. \A v \in Users : f[v] \in Int /\ g[v] \in Int /\ (v # u => f[v] = g[v])
      BY <1>5
    <3> QED BY <1>5, <3>1, SumUpdate
  <2>2. SumFunctionOnSet(f, Users) \in Nat
    BY <1>5, SumNat
  <2> QED BY <1>3, <1>5, <2>1, <2>2 DEF SumFunction
<1>9. /\ Cardinality(Takers(e))' <= Cardinality(Takers(e)) + 1
      /\ Cardinality(Takers(e))' \in Nat /\ Cardinality(Takers(e)) \in Nat
  <2>1. Takers(e)' \subseteq Takers(e) \cup {u}
    BY <1>1, <1>4 DEF Takers
  <2>2. IsFiniteSet(Takers(e) \cup {u}) /\ Cardinality(Takers(e) \cup {u}) <= Cardinality(Takers(e)) + 1
    <3>1. CASE u \in Takers(e)
      <4>1. Takers(e) \cup {u} = Takers(e)
        BY <3>1
      <4> QED BY <4>1, TakersFinite
    <3>2. CASE u \notin Takers(e)
      <4>1. IsFiniteSet(Takers(e)) /\ Cardinality(Takers(e)) \in Nat
        BY TakersFinite, FS_CardinalityType
      <4>2. /\ IsFiniteSet(Takers(e) \cup {u})
            /\ Cardinality(Takers(e) \cup {u}) = Cardinality(Takers(e)) + 1
        BY <3>2, <4>1, FS_AddElement, Zenon
      <4> QED BY <4>1, <4>2
    <3> QED BY <3>1, <3>2
  <2>3. \A T \in SUBSET (Takers(e) \cup {u}) :
           Cardinality(T) <= Cardinality(Takers(e) \cup {u}) /\ Cardinality(T) \in Nat
    BY <2>2, FS_Subset, FS_CardinalityType
  <2>4. Cardinality(Takers(e))' <= Cardinality(Takers(e) \cup {u}) /\ Cardinality(Takers(e))' \in Nat
    BY <2>1, <2>3
  <2>5. Cardinality(Takers(e) \cup {u}) \in Nat /\ Cardinality(Takers(e)) \in Nat
    BY <2>3, TakersFinite
  <2> QED BY <2>2, <2>4, <2>5
<1>10. envelopes[e].status \notin {"NONE", "PENDING"}
  BY <1>1 DEF PromiseInv, NothingPromised
<1>11. envelopes[e].total \in Nat /\ envelopes[e].limit \in Nat
  BY DEF TypeOK, EnvelopeRow
<1>12. /\ SumFunction(f) + SumFunction(q) <= envelopes[e].total
       /\ Cardinality(Takers(e)) + Len(q) <= envelopes[e].limit
  BY DEF PromiseInv
<1>13. /\ SumFunction(g) + SumFunction(queue'[e]) <= envelopes'[e].total
       /\ Cardinality(Takers(e))' + Len(queue'[e]) <= envelopes'[e].limit
  <2>1. queue'[e] = Tail(q) /\ envelopes' = envelopes
    BY <1>1
  <2>2. SumFunction(g) + SumFunction(Tail(q)) <= envelopes[e].total
    <3> HIDE DEF f, g, q
    <3> QED BY <1>3, <1>7, <1>8, <1>11, <1>12
  <2>3. Cardinality(Takers(e))' + Len(Tail(q)) <= envelopes[e].limit
    BY <1>3, <1>9, <1>11, <1>12
  <2> QED BY <2>1, <2>2, <2>3
<1> QED BY <1>1, <1>6, <1>10, <1>12, <1>13 DEF PromiseInv

(* What a request of a user carries, the user took.                         *)
LEMMA CarriedTaken ==
    ASSUME NEW e \in Envelopes, AmountsInv(e), NEW u \in Users, NEW a \in VerifyReservation(e, u)
    PROVE  a \in 0 .. taken[e][u] /\ u \in Takers(e) /\ ~ NothingPromised(e)
<1>1. a \in lost[e][u] \/ (a = reserved[e][u] /\ a # NoReservation)
  BY DEF VerifyReservation
<1> QED BY <1>1 DEF AmountsInv, Takers, NothingPromised

(* The claim's row takes over the amount the request carries.               *)
LEMMA PromiseReserve ==
    ASSUME RedAssumption, TypeOK, NEW e \in Envelopes, NEW u \in Users, PromiseInv(e), ReserveClaim(e, u)
    PROVE  PromiseInv(e)'
<1>1. envelopes[e].status = "PUBLISHED" /\ UNCHANGED <<queue, reserved, taken, lost>>
  BY DEF ReserveClaim, redis
<1>2. PICK a \in VerifyReservation(e, u) :
         /\ claims'[e][u] = [status |-> "PENDING", amount |-> a]
         /\ \A v \in Users : v # u => claims'[e][v] = claims[e][v]
  BY DEF ReserveClaim, TypeOK
<1>3. /\ envelopes'[e].total = envelopes[e].total /\ envelopes'[e].limit = envelopes[e].limit
      /\ envelopes'[e].status = "PUBLISHED"
  BY <1>1 DEF ReserveClaim, TypeOK, EnvelopeRow
<1>4. AmountsInv(e)
  BY DEF PromiseInv
<1>5. AmountsInv(e)'
  <2>1. a \in 0 .. taken[e][u]
    BY <1>4, CarriedTaken
  <2>2. \A v \in Users : claims'[e][v].amount \in 0 .. taken'[e][v]
    BY <1>1, <1>2, <1>4, <2>1 DEF AmountsInv
  <2> QED BY <1>1, <1>4, <2>2 DEF AmountsInv
<1>6. Takers(e)' \subseteq Takers(e)
  <2>1. u \in Takers(e)
    BY <1>4, CarriedTaken
  <2> QED BY <1>1, <1>2, <2>1 DEF Takers
<1> QED BY <1>1, <1>3, <1>5, <1>6, NoMorePromised

(* The status of claims that have a row changes, and their amounts do not.   *)
LEMMA PromiseSettled ==
    ASSUME RedAssumption, TypeOK, NEW e \in Envelopes, PromiseInv(e),
           queue'[e] = queue[e], reserved'[e] = reserved[e], taken'[e] = taken[e], lost'[e] = lost[e],
           envelopes'[e].status = envelopes[e].status,
           envelopes'[e].total = envelopes[e].total,
           envelopes'[e].limit = envelopes[e].limit,
           \A u \in Users :
              /\ claims'[e][u].amount = claims[e][u].amount
              /\ claims'[e][u].status = "NONE" <=> claims[e][u].status = "NONE"
    PROVE  PromiseInv(e)'
<1>1. AmountsInv(e) /\ AmountsInv(e)'
  BY DEF PromiseInv, AmountsInv
<1>2. Takers(e)' \subseteq Takers(e)
  BY DEF Takers
<1>3. NothingPromised(e) => NothingPromised(e)'
  BY DEF NothingPromised
<1>4. envelopes'[e].status \in {"NONE", "PENDING"} => NothingPromised(e)'
  BY <1>3 DEF PromiseInv
<1> QED BY <1>1, <1>2, <1>4, NoMorePromised

(* Keys run out, or the requests that carry an amount stop: nobody carries more. *)
LEMMA PromiseForgets ==
    ASSUME RedAssumption, TypeOK, NEW e \in Envelopes, PromiseInv(e),
           UNCHANGED <<envelopes, claims, taken>>, queue'[e] \in {queue[e], <<>>},
           \A u \in Users : /\ reserved'[e][u] \in {reserved[e][u], NoReservation}
                            /\ lost'[e][u] \subseteq VerifyReservation(e, u)
    PROVE  PromiseInv(e)'
<1>1. AmountsInv(e)
  BY DEF PromiseInv
<1>2. \A u \in Users : /\ lost'[e][u] \subseteq 0 .. taken[e][u]
                       /\ lost'[e][u] # {} => u \in Takers(e) /\ ~ NothingPromised(e)
  BY <1>1, CarriedTaken
<1>3. AmountsInv(e)'
  <2>1. queue'[e] \in Seq(Nat)
    <3>1. queue[e] \in Seq(Nat) /\ <<>> \in Seq(Nat)
      BY <1>1 DEF AmountsInv
    <3> QED BY <3>1
  <2> QED BY <1>1, <1>2, <2>1 DEF AmountsInv
<1>4. Takers(e)' \subseteq Takers(e)
  BY <1>2 DEF Takers
<1>5. envelopes'[e].status \in {"NONE", "PENDING"} => NothingPromised(e)'
  BY <1>2 DEF PromiseInv, NothingPromised
<1> QED BY <1>3, <1>4, <1>5, NoMorePromised

LEMMA PromiseExpires ==
    ASSUME RedAssumption, TypeOK, NEW e \in Envelopes, PromiseInv(e), NEW f \in Envelopes, QueueExpires(f)
    PROVE  PromiseInv(e)'
<1>1. UNCHANGED <<envelopes, claims, taken>>
  BY DEF QueueExpires
<1>2. \A u \in Users : lost[e][u] \subseteq VerifyReservation(e, u)
  BY DEF VerifyReservation
<1>3. /\ queue'[e] \in {queue[e], <<>>}
      /\ \A u \in Users : /\ reserved'[e][u] \in {reserved[e][u], NoReservation}
                          /\ lost'[e][u] \subseteq VerifyReservation(e, u)
  <2> HIDE DEF VerifyReservation
  <2>1. CASE queue' = [queue EXCEPT ![f] = <<>>] /\ UNCHANGED <<reserved, lost>>
    BY <1>2, <2>1 DEF TypeOK
  <2>2. CASE /\ reserved' = [reserved EXCEPT ![f] = [u \in Users |-> NoReservation]]
             /\ lost' = [lost EXCEPT ![f] = [u \in Users |-> VerifyReservation(f, u)]]
             /\ UNCHANGED queue
    <3>1. CASE e = f
      BY <2>2, <3>1 DEF TypeOK
    <3>2. CASE e # f
      BY <1>2, <2>2, <3>2 DEF TypeOK
    <3> QED BY <3>1, <3>2
  <2> QED BY <2>1, <2>2 DEF QueueExpires
<1> QED BY <1>1, <1>3, PromiseForgets

LEMMA PromiseCrash ==
    ASSUME RedAssumption, TypeOK, NEW e \in Envelopes, PromiseInv(e), Crash
    PROVE  PromiseInv(e)'
<1>1. UNCHANGED <<envelopes, claims, queue, reserved, taken>> /\ \A u \in Users : lost'[e][u] = {}
  BY DEF Crash, redis
<1> QED BY <1>1, PromiseForgets

(* The steps that leave the row's total, Redis and the claims alone.         *)
LEMMA PromiseElsewhere ==
    ASSUME RedAssumption, TypeOK, NEW e \in Envelopes, PromiseInv(e), NEW f \in Envelopes, f # e,
           NEW w \in Wallets, NEW total, NEW limit, NEW random,
           CreateRedEnvelope(f, w, total, limit, random)
    PROVE  PromiseInv(e)'
<1>1. UNCHANGED handed /\ envelopes'[e] = envelopes[e]
  BY DEF CreateRedEnvelope, redis, requests, handed, TypeOK
<1> QED BY <1>1, PromiseRow

LEMMA PromiseLapse ==
    ASSUME RedAssumption, TypeOK, NEW e \in Envelopes, PromiseInv(e), NEW f \in Envelopes, Lapse(f)
    PROVE  PromiseInv(e)'
<1>1. UNCHANGED handed
  BY DEF Lapse, redis, requests, handed
<1>2. /\ envelopes'[e].total = envelopes[e].total
      /\ envelopes'[e].limit = envelopes[e].limit
      /\ envelopes'[e].status = envelopes[e].status
  <2>1. envelopes[e] \in EnvelopeRow
    BY DEF TypeOK
  <2>2. envelopes'[e] = envelopes[e] \/ envelopes'[e] = [envelopes[e] EXCEPT !.due = TRUE]
    BY DEF Lapse, TypeOK
  <2> QED BY <2>1, <2>2 DEF EnvelopeRow
<1> QED BY <1>1, <1>2, PromiseRow

LEMMA PromiseEnding ==
    ASSUME RedAssumption, TypeOK, NEW e \in Envelopes, PromiseInv(e), NEW p \in Procs,
           (\E f \in Envelopes : CancelRedEnvelope(p, f)) \/ UpdateRedEnvelope(p)
    PROVE  PromiseInv(e)'
<1>1. UNCHANGED handed
  BY DEF CancelRedEnvelope, UpdateRedEnvelope, redis, requests, handed
<1>2. PICK f \in Envelopes, st \in Ended : envelopes' = [envelopes EXCEPT ![f].status = st]
  BY EndingRow
<1>3. envelopes[e] \in EnvelopeRow
  BY DEF TypeOK
<1>4. /\ envelopes'[e].total = envelopes[e].total
      /\ envelopes'[e].limit = envelopes[e].limit
      /\ envelopes'[e].status = envelopes[e].status \/ envelopes'[e].status \notin {"NONE", "PENDING"}
  BY <1>2, <1>3 DEF TypeOK, EnvelopeRow, Ended
<1> QED BY <1>1, <1>4, PromiseRow

LEMMA PromiseFail ==
    ASSUME RedAssumption, TypeOK, NEW e \in Envelopes, PromiseInv(e), FailEnvelopes
    PROVE  PromiseInv(e)'
<1>1. UNCHANGED handed
  BY DEF FailEnvelopes, redis, requests, handed
<1>2. PICK done : envelopes' = [f \in Envelopes |->
             [envelopes[f] EXCEPT !.status = IF f \in done THEN "FAILED" ELSE @]]
  BY DEF FailEnvelopes
<1>3. envelopes[e] \in EnvelopeRow
  BY DEF TypeOK
<1>4. envelopes'[e] = [envelopes[e] EXCEPT !.status = IF e \in done THEN "FAILED" ELSE envelopes[e].status]
  BY <1>2
<1>5. /\ envelopes'[e].total = envelopes[e].total
      /\ envelopes'[e].limit = envelopes[e].limit
      /\ envelopes'[e].status = envelopes[e].status \/ envelopes'[e].status \notin {"NONE", "PENDING"}
  BY <1>3, <1>4 DEF EnvelopeRow
<1> QED BY <1>1, <1>5, PromiseRow

LEMMA PromiseQuiet ==
    ASSUME RedAssumption, TypeOK, NEW e \in Envelopes, PromiseInv(e),
           UNCHANGED envelopes, UNCHANGED handed
    PROVE  PromiseInv(e)'
BY PromiseRow

LEMMA PromiseCommit ==
    ASSUME RedAssumption, TypeOK, NEW e \in Envelopes, PromiseInv(e), CommitBlock
    PROVE  PromiseInv(e)'
<1>1. UNCHANGED <<envelopes, queue, reserved, taken, lost>>
  BY DEF CommitBlock, redis, requests
<1>2. ASSUME NEW u \in Users
      PROVE  /\ claims'[e][u].amount = claims[e][u].amount
             /\ claims'[e][u].status = "NONE" <=> claims[e][u].status = "NONE"
  <2>1. claims[e][u] \in ClaimRow
    BY DEF TypeOK
  <2>2. claims'[e][u] = [claims[e][u] EXCEPT !.status =
            IF <<e, u>> \in Reconciled(indexing.block) THEN "SUCCESS" ELSE claims[e][u].status]
    BY DEF CommitBlock
  <2>3. <<e, u>> \in Reconciled(indexing.block) => claims[e][u].status = "PENDING"
    BY DEF Reconciled
  <2> QED BY <2>1, <2>2, <2>3 DEF ClaimRow
<1> QED BY <1>1, <1>2, PromiseSettled

LEMMA PromiseSettle ==
    ASSUME RedAssumption, TypeOK, RedInv, NEW e \in Envelopes, PromiseInv(e),
           NEW f \in Envelopes, NEW v \in Users, SettleClaim(f, v)
    PROVE  PromiseInv(e)'
<1>1. UNCHANGED <<queue, reserved, taken, lost>>
  BY DEF SettleClaim, redis, requests
<1>2. HoldsTurn(f, v)
  BY DEF SettleClaim, RedInv, ClaimInv
<1>3. ASSUME NEW u \in Users
      PROVE  /\ claims'[e][u].amount = claims[e][u].amount
             /\ claims'[e][u].status = "NONE" <=> claims[e][u].status = "NONE"
  <2>1. claims[e][u] \in ClaimRow
    BY DEF TypeOK
  <2>2. \/ claims'[e][u] = claims[e][u]
        \/ /\ e = f /\ u = v
           /\ claims'[e][u] = [claims[e][u] EXCEPT !.status =
                  IF claiming[e][u] = "paid" THEN "SUCCESS" ELSE "FAILED"]
    BY DEF SettleClaim, TypeOK
  <2> QED BY <1>2, <2>1, <2>2 DEF ClaimRow, HoldsTurn
<1>4. /\ envelopes'[e].status = envelopes[e].status
      /\ envelopes'[e].total = envelopes[e].total
      /\ envelopes'[e].limit = envelopes[e].limit
  <2>1. envelopes[e] \in EnvelopeRow
    BY DEF TypeOK
  <2>2. \/ envelopes'[e] = envelopes[e]
        \/ envelopes'[e] = [envelopes[e] EXCEPT !.count = envelopes[e].count - 1]
    BY DEF SettleClaim, TypeOK
  <2> QED BY <2>1, <2>2 DEF EnvelopeRow
<1> QED BY <1>1, <1>3, <1>4, PromiseSettled

(* A claim of another envelope.                                             *)
LEMMA PromiseAway ==
    ASSUME RedAssumption, TypeOK, NEW e \in Envelopes, PromiseInv(e),
           NEW f \in Envelopes, NEW u \in Users, f # e, AttemptClaim(f, u) \/ ReserveClaim(f, u)
    PROVE  PromiseInv(e)'
<1>1. /\ claims'[e] = claims[e] /\ envelopes'[e] = envelopes[e]
      /\ queue'[e] = queue[e] /\ reserved'[e] = reserved[e]
      /\ taken'[e] = taken[e] /\ lost'[e] = lost[e]
  <2>1. CASE AttemptClaim(f, u)
    BY <2>1 DEF AttemptClaim, TakeNext, requests, TypeOK
  <2>2. CASE ReserveClaim(f, u)
    BY <2>2 DEF ReserveClaim, redis, requests, TypeOK
  <2> QED BY <2>1, <2>2
<1> QED BY <1>1, PromiseSettled

LEMMA PromiseStep ==
    ASSUME RedAssumption, TypeOK, RedInv, \A e \in Envelopes : PromiseInv(e), [Next]_vars,
           NEW e \in Envelopes
    PROVE  PromiseInv(e)'
<1> DEFINE Quiet == UNCHANGED envelopes /\ UNCHANGED handed
<1>0. Quiet => PromiseInv(e)'
  BY PromiseQuiet
<1>1. CASE Owner
  <2>1. ASSUME NEW f \in Envelopes, NEW w \in Wallets, NEW total \in Totals, NEW limit \in ClaimLimits,
               NEW random \in BOOLEAN, CreateRedEnvelope(f, w, total, limit, random)
        PROVE  PromiseInv(e)'
    BY <2>1, PromiseCreate, PromiseElsewhere
  <2>2. ASSUME NEW f \in Envelopes, NEW a, NEW ok, SendDeposit(f, a, ok) PROVE Quiet
    BY <2>2 DEF SendDeposit, redis, requests, handed
  <2>3. ASSUME NEW f \in Envelopes, NEW p \in Requests, CancelRedEnvelope(p, f) \/ CloseSession(p, f)
        PROVE  PromiseInv(e)'
    <3>1. CASE CancelRedEnvelope(p, f)
      BY <3>1, PromiseEnding DEF Procs
    <3>2. CASE CloseSession(p, f)
      BY <1>0, <3>2 DEF CloseSession, redis, requests, handed
    <3> QED BY <2>3, <3>1, <3>2
  <2>4. ASSUME NEW f \in Envelopes, Lapse(f) PROVE PromiseInv(e)'
    BY <2>4, PromiseLapse
  <2> HIDE DEF Quiet
  <2> QED BY <1>0, <1>1, <2>1, <2>2, <2>3, <2>4 DEF Owner
<1>2. CASE Indexer
  <2>1. ASSUME NEW block \in SUBSET mined, ReadBlock(block) PROVE Quiet
    BY <2>1 DEF ReadBlock, redis, requests, handed
  <2>2. AbandonBlock => Quiet
    BY DEF AbandonBlock, redis, requests, handed
  <2> HIDE DEF Quiet
  <2> QED BY <1>0, <1>2, <2>1, <2>2, PromisePublish, PromiseFail, PromiseCommit DEF Indexer
<1>3. ASSUME NEW f \in Envelopes, NEW u \in Users, Claimer(f, u) PROVE PromiseInv(e)'
  <2>1. CASE AttemptClaim(f, u)
    BY <2>1, PromiseAttempt, PromiseAway
  <2>2. CASE ReserveClaim(f, u)
    BY <2>2, PromiseReserve, PromiseAway
  <2>3. CASE SettleClaim(f, u)
    BY <2>3, PromiseSettle
  <2>4. RefuseClaim(f, u) \/ PayClaim(f, u) \/ SettleClaimFails(f, u) => Quiet
    BY DEF RefuseClaim, PayClaim, SettleClaimFails, redis, requests, handed
  <2> HIDE DEF Quiet
  <2> QED BY <1>0, <1>3, <2>1, <2>2, <2>3, <2>4 DEF Claimer, ClaimStep
<1>4. ASSUME NEW p \in Procs, EndStep(p) PROVE PromiseInv(e)'
  <2>1. Quiet \/ UpdateRedEnvelope(p)
    BY <1>4 DEF EndStep, Proceed, Refund, CancelWithoutRefund, ReleaseWallet, Abandon, redis, requests, handed
  <2> HIDE DEF Quiet
  <2> QED BY <1>0, <2>1, PromiseEnding
<1>5. JobStep \/ UNCHANGED vars => Quiet
  BY DEF JobStep, GetExpiredEnvelopes, ProcessExpired, vars, redis, requests, handed
<1>6. ASSUME NEW f \in Envelopes, QueueExpires(f) PROVE PromiseInv(e)'
  BY <1>6, PromiseExpires
<1> HIDE DEF Quiet
<1> QED BY <1>0, <1>1, <1>2, <1>3, <1>4, <1>5, <1>6, PromiseCrash DEF Next

(* A claim of an envelope that has not ended is refused only to a user who has
   a turn: before the envelope is published nobody carries an amount, and while
   it is, whoever carries one and those who have a turn are no more than the
   turns.                                                                   *)
LEMMA RefusedToRepeats ==
    ASSUME RedAssumption, TypeOK, CountInv, NEW e \in Envelopes, PromiseInv(e),
           NEW u \in Users, RefuseClaim(e, u)
    PROVE  envelopes[e].status \in Ended \/ HoldsTurn(e, u)
<1>1. PICK a : a \in VerifyReservation(e, u)
  BY DEF RefuseClaim
<1>2. u \in Takers(e) /\ ~ NothingPromised(e)
  BY <1>1, CarriedTaken DEF PromiseInv
<1>3. envelopes[e].status \notin {"NONE", "PENDING"}
  BY <1>2 DEF PromiseInv
<1>4. CASE u \notin Turns(e)
  <2>1. Turns(e) \cup {u} \subseteq Takers(e)
    BY <1>2 DEF Turns, Takers
  <2>2. Cardinality(Turns(e) \cup {u}) = Cardinality(Turns(e)) + 1 /\ Cardinality(Turns(e)) \in Nat
    BY <1>4, TurnsFinite, FS_AddElement
  <2>3. Cardinality(Turns(e) \cup {u}) <= Cardinality(Takers(e)) /\ Cardinality(Takers(e)) \in Nat
    BY <2>1, TakersFinite, FS_Subset
  <2>4. Cardinality(Takers(e)) + Len(queue[e]) <= envelopes[e].limit /\ Len(queue[e]) \in Nat
    BY DEF PromiseInv, AmountsInv
  <2>5. envelopes[e].count = Cardinality(Turns(e))
    BY DEF CountInv
  <2>6. envelopes[e].limit \in Nat /\ envelopes[e].status \in Status
    BY DEF TypeOK, EnvelopeRow
  <2>7. envelopes[e].count < envelopes[e].limit
    BY <2>2, <2>3, <2>4, <2>5, <2>6
  <2>8. envelopes[e].status # "PUBLISHED"
    <3>1. envelopes[e].status # "PUBLISHED" \/ envelopes[e].count >= envelopes[e].limit
      BY DEF RefuseClaim
    <3>2. envelopes[e].count \in Nat
      BY DEF TypeOK, EnvelopeRow
    <3> QED BY <2>6, <2>7, <3>1, <3>2
  <2> QED BY <1>3, <2>6, <2>8 DEF Status, Ended
<1>5. CASE u \in Turns(e)
  BY <1>5 DEF Turns, HoldsTurn
<1> QED BY <1>4, <1>5

LEMMA HeldByRefusal ==
    ASSUME [Next]_vars, NEW e, NEW u, <<e, u>> \in held', <<e, u>> \notin held
    PROVE  e \in Envelopes /\ u \in Users /\ RefuseClaim(e, u)
<1>1. ~ UNCHANGED held /\ held' # {}
  OBVIOUS
<1>2. ~ Owner
  BY <1>1 DEF Owner, CreateRedEnvelope, SendDeposit, CancelRedEnvelope, CloseSession, Lapse
<1>3. ~ Indexer
  BY <1>1 DEF Indexer, ReadBlock, PublishEnvelopes, FailEnvelopes, CommitBlock, AbandonBlock
<1>4. ~ \E p \in Procs : EndStep(p)
  BY <1>1 DEF EndStep, Proceed, Refund, CancelWithoutRefund, UpdateRedEnvelope, ReleaseWallet, Abandon
<1>5. ~ JobStep /\ ~ (\E f \in Envelopes : QueueExpires(f)) /\ ~ Crash /\ ~ UNCHANGED vars
  BY <1>1 DEF JobStep, GetExpiredEnvelopes, ProcessExpired, QueueExpires, Crash, vars
<1>6. PICK f \in Envelopes, v \in Users : Claimer(f, v)
  BY <1>2, <1>3, <1>4, <1>5 DEF Next
<1>7. RefuseClaim(f, v)
  BY <1>1, <1>6 DEF Claimer, ClaimStep, AttemptClaim, TakeNext, ReserveClaim, PayClaim, SettleClaim, SettleClaimFails
<1>8. f = e /\ v = u
  BY <1>7 DEF RefuseClaim
<1> QED BY <1>7, <1>8

(* A turn of a locked envelope is not given back.                           *)
LEMMA LockedTurnKept ==
    ASSUME TypeOK, [Next]_vars, NEW e \in Envelopes, NEW u \in Users, HoldsTurn(e, u), Locked(e)
    PROVE  HoldsTurn(e, u)'
<1>1. UNCHANGED claims => HoldsTurn(e, u)'
  BY DEF HoldsTurn
<1>2. CASE CommitBlock
  <2>1. claims[e][u] \in ClaimRow
    BY DEF TypeOK
  <2>2. claims'[e][u] = [claims[e][u] EXCEPT !.status =
            IF <<e, u>> \in Reconciled(indexing.block) THEN "SUCCESS" ELSE claims[e][u].status]
    BY <1>2 DEF CommitBlock
  <2> QED BY <2>1, <2>2 DEF HoldsTurn, ClaimRow
<1>3. ASSUME NEW f \in Envelopes, NEW v \in Users, ReserveClaim(f, v)
      PROVE  HoldsTurn(e, u)'
  <2>1. claims[f][v].status = "NONE"
    BY <1>3 DEF ReserveClaim
  <2>2. f # e \/ v # u
    BY <2>1 DEF HoldsTurn
  <2>3. claims'[e][u] = claims[e][u]
    BY <1>3, <2>2 DEF ReserveClaim, TypeOK
  <2> QED BY <2>3 DEF HoldsTurn
<1>4. ASSUME NEW f \in Envelopes, NEW v \in Users, SettleClaim(f, v)
      PROVE  HoldsTurn(e, u)'
  <2>1. CASE f = e /\ v = u
    <3>1. claiming[e][u] = "paid"
      BY <1>4, <2>1 DEF SettleClaim
    <3>2. claims'[e][u].status = "SUCCESS"
      BY <1>4, <2>1, <3>1 DEF SettleClaim, TypeOK, ClaimRow
    <3> QED BY <3>2 DEF HoldsTurn
  <2>2. CASE f # e \/ v # u
    <3>1. claims'[e][u] = claims[e][u]
      BY <1>4, <2>2 DEF SettleClaim, TypeOK
    <3> QED BY <3>1 DEF HoldsTurn
  <2> QED BY <2>1, <2>2
<1>5. Owner => UNCHANGED claims
  BY DEF Owner, CreateRedEnvelope, SendDeposit, CancelRedEnvelope, CloseSession, Lapse
<1>6. Indexer => UNCHANGED claims \/ CommitBlock
  BY DEF Indexer, ReadBlock, PublishEnvelopes, FailEnvelopes, AbandonBlock
<1>7. ASSUME NEW f \in Envelopes, NEW v \in Users, Claimer(f, v)
      PROVE  UNCHANGED claims \/ ReserveClaim(f, v) \/ SettleClaim(f, v)
  BY <1>7 DEF Claimer, ClaimStep, AttemptClaim, TakeNext, RefuseClaim, PayClaim, SettleClaimFails
<1>8. (\E p \in Procs : EndStep(p)) => UNCHANGED claims
  BY DEF EndStep, Proceed, Refund, CancelWithoutRefund, UpdateRedEnvelope, ReleaseWallet, Abandon
<1>9. JobStep \/ (\E f \in Envelopes : QueueExpires(f)) \/ Crash \/ UNCHANGED vars => UNCHANGED claims
  BY DEF JobStep, GetExpiredEnvelopes, ProcessExpired, QueueExpires, Crash, vars
<1> QED BY <1>1, <1>2, <1>3, <1>4, <1>5, <1>6, <1>7, <1>8, <1>9 DEF Next

PromisesInv == \A e \in Envelopes : PromiseInv(e)

LEMMA InitPromises == RedAssumption /\ Init => PromisesInv
<1> SUFFICES ASSUME RedAssumption, Init, NEW e \in Envelopes PROVE PromiseInv(e)
  BY DEF PromisesInv
<1>1. NothingPromised(e) /\ AmountsInv(e)
  BY DEF Init, NothingPromised, AmountsInv
<1>2. SumFunction(taken[e]) = 0 /\ Cardinality(Takers(e)) = 0
  BY <1>1, InitType, NothingSums
<1>3. SumFunction(queue[e]) = 0 /\ Len(queue[e]) = 0
  <2>1. SumFunction(<<>>) = 0
    BY SumEmpty DEF SumFunction
  <2> QED BY <1>1, <2>1 DEF NothingPromised
<1>4. envelopes[e].status = "NONE" /\ envelopes[e].total = 0 /\ envelopes[e].limit = 0
  BY DEF Init
<1> QED BY <1>1, <1>2, <1>3, <1>4 DEF PromiseInv

(* Nothing is promised of an envelope before it is published; then what is
   promised stays within its total (AttemptClaim, ReserveClaim, expired keys),
   and those who took an amount and the amounts left within its turns.       *)
THEOREM PromisesAlways == Spec => []PromisesInv
<1>1. Init => PromisesInv
  BY RedAssumption, InitPromises
<1>2. TypeOK /\ RedInv /\ PromisesInv /\ [Next]_vars => PromisesInv'
  BY RedAssumption, PromiseStep DEF PromisesInv
<1> QED BY <1>1, <1>2, RedInvariant, PTL DEF Spec

(* However claims, retries and expired Redis keys interleave, the amounts handed
   out and those left in the queue stay within the envelope's total, whatever
   the total, the split and the number of claimers, and no row has more than its
   user was handed (AttemptClaim, ExecuteClaim).                             *)
THEOREM NothingPromisedTwice == Spec => []PromisesWithinTotal
<1>1. TypeOK /\ PromisesInv => PromisesWithinTotal
  <2> SUFFICES ASSUME TypeOK, PromisesInv, NEW e \in Envelopes
               PROVE  /\ SumFunction(taken[e]) + SumFunction(queue[e]) <= envelopes[e].total
                      /\ \A u \in Users : claims[e][u].amount <= taken[e][u]
    BY DEF PromisesWithinTotal
  <2>1. PromiseInv(e)
    BY DEF PromisesInv
  <2> QED BY <2>1 DEF PromiseInv, AmountsInv
<1> QED BY <1>1, RedTypeCorrect, PromisesAlways, PTL

(* The row of an open envelope is left locked only by the second request of a
   user who has a turn of it.                                               *)
THEOREM OpenOnlyRepeatsLock == Spec => []OnlyRepeatsLock
<1>1. Init => OnlyRepeatsLock
  BY DEF Init, OnlyRepeatsLock
<1>2. TypeOK /\ CountInv /\ PromisesInv /\ OnlyRepeatsLock /\ [Next]_vars => OnlyRepeatsLock'
  <2> SUFFICES ASSUME TypeOK, CountInv, PromisesInv, OnlyRepeatsLock, [Next]_vars,
                      NEW e \in Envelopes, NEW u \in Users, <<e, u>> \in held'
               PROVE  envelopes'[e].status \in Ended \/ HoldsTurn(e, u)'
    BY DEF OnlyRepeatsLock
  <2>1. CASE <<e, u>> \in held
    <3>1. envelopes[e].status \in Ended \/ HoldsTurn(e, u)
      BY <2>1 DEF OnlyRepeatsLock
    <3>2. Locked(e)
      BY <2>1 DEF Locked
    <3> QED BY <3>1, <3>2, StaysEnded, LockedTurnKept DEF Stays
  <2>2. CASE <<e, u>> \notin held
    <3>1. RefuseClaim(e, u)
      BY <2>2, HeldByRefusal
    <3>2. envelopes[e].status \in Ended \/ HoldsTurn(e, u)
      BY <3>1, RedAssumption, RefusedToRepeats DEF PromisesInv
    <3>3. HoldsTurn(e, u) => HoldsTurn(e, u)'
      BY <3>1 DEF RefuseClaim, HoldsTurn
    <3> QED BY <3>2, <3>3, StaysEnded DEF Stays
  <2> QED BY <2>1, <2>2
<1> QED BY <1>1, <1>2, RedTypeCorrect, CountAlways, PromisesAlways, PTL DEF Spec

-----------------------------------------------------------------------------
(* The money in an envelope does what ClaimLedger says.                    *)

Exists(e) == envelopes[e].status # "NONE"

(* Whatever refers to an envelope refers to one that was created, with a total
   that may be chosen.                                                      *)
LedgerInv ==
    /\ \A e \in Envelopes : Exists(e) => envelopes[e].total \in Totals
    /\ \A e \in deposited \cup todo : Exists(e)
    /\ \A p \in Procs : proc[p] # Idle => Exists(proc[p].env)

(* What a step does to a row: it creates it, or keeps its total.            *)
RowLasts(e) ==
    \/ envelopes'[e].total = envelopes[e].total /\ Exists(e)' = Exists(e)
    \/ ~ Exists(e) /\ Exists(e)' /\ envelopes'[e].total \in Totals
RowsLasting == \A e \in Envelopes : RowLasts(e)
(* ... and to what refers to rows.                                          *)
RefersToRows ==
    /\ \A e \in deposited' \cup todo' : e \in deposited \cup todo \/ Exists(e)
    /\ \A p \in Procs : proc'[p] # Idle => Exists(proc'[p].env)

LEMMA RowsSame ==
    ASSUME UNCHANGED envelopes
    PROVE  RowsLasting
BY DEF RowsLasting, RowLasts, Exists

LEMMA RefersSame ==
    ASSUME LedgerInv, UNCHANGED <<deposited, todo, proc>>
    PROVE  RefersToRows
BY DEF RefersToRows, LedgerInv

LEMMA CreateRows ==
    ASSUME TypeOK, NEW e \in Envelopes, NEW w \in Wallets, NEW total \in Totals,
           NEW limit, NEW random, CreateRedEnvelope(e, w, total, limit, random)
    PROVE  RowsLasting
<1>1. ~ Exists(e)
  BY DEF CreateRedEnvelope, Exists
<1>2. envelopes'[e].status = "PENDING" /\ envelopes'[e].total = total
  BY DEF CreateRedEnvelope, TypeOK
<1>3. \A f \in Envelopes : f # e => envelopes'[f] = envelopes[f]
  BY DEF CreateRedEnvelope, TypeOK
<1> QED BY <1>1, <1>2, <1>3 DEF RowsLasting, RowLasts, Exists

(* A step that writes the status of rows that exist.                        *)
LEMMA StatusRows ==
    ASSUME TypeOK, NEW S \in SUBSET Envelopes, \A e \in S : Exists(e),
           \A e \in Envelopes : envelopes'[e].total = envelopes[e].total,
           \A e \in Envelopes \ S : envelopes'[e].status = envelopes[e].status,
           \A e \in S : envelopes'[e].status # "NONE"
    PROVE  RowsLasting
BY DEF RowsLasting, RowLasts, Exists

LEMMA PublishRows ==
    ASSUME TypeOK, PublishEnvelopes
    PROVE  RowsLasting
<1>1. PICK done \in SUBSET {e \in indexing.valid : UpdateStatusInternal(e)} :
        envelopes' = [e \in Envelopes |->
            [envelopes[e] EXCEPT !.status = IF e \in done THEN "PUBLISHED" ELSE @]]
  BY DEF PublishEnvelopes
<1>2. ASSUME NEW e \in Envelopes PROVE RowLasts(e)
  <2>1. envelopes[e] \in EnvelopeRow
    BY DEF TypeOK
  <2>2. envelopes'[e] = [envelopes[e] EXCEPT !.status = IF e \in done THEN "PUBLISHED" ELSE envelopes[e].status]
    BY <1>1
  <2>3. e \in done => envelopes[e].status = "PENDING"
    BY DEF UpdateStatusInternal
  <2> QED BY <2>1, <2>2, <2>3 DEF RowLasts, Exists, EnvelopeRow
<1> QED BY <1>2 DEF RowsLasting

LEMMA FailRows ==
    ASSUME TypeOK, FailEnvelopes
    PROVE  RowsLasting
<1>1. PICK done \in SUBSET Validated(indexing.block, FALSE) :
        envelopes' = [e \in Envelopes |->
            [envelopes[e] EXCEPT !.status = IF e \in done THEN "FAILED" ELSE @]]
  BY DEF FailEnvelopes
<1>2. ASSUME NEW e \in Envelopes PROVE RowLasts(e)
  <2>1. envelopes[e] \in EnvelopeRow
    BY DEF TypeOK
  <2>2. envelopes'[e] = [envelopes[e] EXCEPT !.status = IF e \in done THEN "FAILED" ELSE envelopes[e].status]
    BY <1>1
  <2>3. e \in done => envelopes[e].status = "PENDING"
    BY DEF Validated
  <2> QED BY <2>1, <2>2, <2>3 DEF RowLasts, Exists, EnvelopeRow
<1> QED BY <1>2 DEF RowsLasting

LEMMA SettledRows ==
    ASSUME TypeOK, NEW e \in Envelopes, NEW u \in Users, SettleClaim(e, u)
    PROVE  RowsLasting
<1> SUFFICES ASSUME NEW f \in Envelopes PROVE RowLasts(f)
  BY DEF RowsLasting
<1>1. envelopes[f] \in EnvelopeRow
  BY DEF TypeOK
<1>2. envelopes'[f] = envelopes[f] \/ envelopes'[f] = [envelopes[f] EXCEPT !.count = envelopes[f].count - 1]
  BY DEF SettleClaim, TypeOK
<1> QED BY <1>1, <1>2 DEF RowLasts, Exists, EnvelopeRow

LEMMA ReservedRows ==
    ASSUME TypeOK, NEW e \in Envelopes, NEW u \in Users, ReserveClaim(e, u)
    PROVE  RowsLasting
<1> SUFFICES ASSUME NEW f \in Envelopes PROVE RowLasts(f)
  BY DEF RowsLasting
<1>1. envelopes[f] \in EnvelopeRow
  BY DEF TypeOK
<1>2. envelopes'[f] = envelopes[f] \/ envelopes'[f] = [envelopes[f] EXCEPT !.count = envelopes[f].count + 1]
  BY DEF ReserveClaim, TypeOK
<1> QED BY <1>1, <1>2 DEF RowLasts, Exists, EnvelopeRow

LEMMA LapseRows ==
    ASSUME TypeOK, NEW e \in Envelopes, Lapse(e)
    PROVE  RowsLasting
<1> SUFFICES ASSUME NEW f \in Envelopes PROVE RowLasts(f)
  BY DEF RowsLasting
<1>1. envelopes[f] \in EnvelopeRow
  BY DEF TypeOK
<1>2. envelopes'[f] = envelopes[f] \/ envelopes'[f] = [envelopes[f] EXCEPT !.due = TRUE]
  BY DEF Lapse, TypeOK
<1> QED BY <1>1, <1>2 DEF RowLasts, Exists, EnvelopeRow

(* A row is ended that exists.                                              *)
LEMMA EndingRows ==
    ASSUME TypeOK, LedgerInv, NEW p \in Procs,
           (\E e \in Envelopes : CancelRedEnvelope(p, e)) \/ UpdateRedEnvelope(p)
    PROVE  RowsLasting
<1>1. PICK e \in Envelopes, st \in Ended : Exists(e) /\ envelopes' = [envelopes EXCEPT ![e].status = st]
  <2>1. CASE \E e \in Envelopes : CancelRedEnvelope(p, e)
    BY <2>1 DEF CancelRedEnvelope, Ended, Exists
  <2>2. CASE UpdateRedEnvelope(p)
    <3>1. proc[p].env \in Envelopes
      BY <2>2, EndingFields DEF TypeOK, UpdateRedEnvelope
    <3>2. Exists(proc[p].env)
      BY <2>2 DEF LedgerInv, UpdateRedEnvelope
    <3> QED BY <2>2, <3>1, <3>2 DEF UpdateRedEnvelope, FinalStatus, Ended
  <2> QED BY <2>1, <2>2
<1> SUFFICES ASSUME NEW f \in Envelopes PROVE RowLasts(f)
  BY DEF RowsLasting
<1>2. envelopes[f] \in EnvelopeRow
  BY DEF TypeOK
<1>3. envelopes'[f] = envelopes[f] \/ (f = e /\ envelopes'[f] = [envelopes[f] EXCEPT !.status = st])
  BY <1>1 DEF TypeOK
<1> QED BY <1>1, <1>2, <1>3 DEF RowLasts, Exists, EnvelopeRow, Ended

(* A request or the job that goes on stays with its envelope.               *)
LEMMA ProcRefers ==
    ASSUME TypeOK, LedgerInv, UNCHANGED <<deposited, todo>>,
           \A p \in Procs : \/ proc'[p] = Idle
                            \/ proc[p] # Idle /\ proc'[p].env = proc[p].env
                            \/ Exists(proc'[p].env)
    PROVE  RefersToRows
BY DEF RefersToRows, LedgerInv

LEMMA EndStepRefers ==
    ASSUME TypeOK, LedgerInv, NEW p \in Procs, EndStep(p)
    PROVE  RefersToRows
<1>1. UNCHANGED <<deposited, todo>>
  BY DEF EndStep, Proceed, Refund, CancelWithoutRefund, UpdateRedEnvelope, ReleaseWallet, Abandon, history, requests
<1>2. PICK r : /\ proc' = [proc EXCEPT ![p] = r]
               /\ r = Idle \/ (proc[p] # Idle /\ \E st : r = [proc[p] EXCEPT !.stage = st])
  <2>1. CASE Refund(p)
    BY <2>1 DEF Refund
  <2>2. CASE CancelWithoutRefund(p)
    <3>1. proc[p] # Idle
      BY <2>2 DEF CancelWithoutRefund, Idle
    <3> QED BY <2>2, <3>1 DEF CancelWithoutRefund, Advance
  <2>3. CASE UpdateRedEnvelope(p)
    BY <2>3 DEF UpdateRedEnvelope, Advance
  <2>4. ASSUME NEW status, ReleaseWallet(p, status)
        PROVE  proc' = [proc EXCEPT ![p] = Idle]
    BY <2>4 DEF ReleaseWallet, Finish
  <2>5. CASE Abandon(p)
    BY <2>5 DEF Abandon, Finish
  <2> QED BY <2>5, <2>1, <2>2, <2>3, <2>4 DEF EndStep, Proceed
<1>3. ASSUME NEW q \in Procs
      PROVE  \/ proc'[q] = Idle
             \/ proc[q] # Idle /\ proc'[q].env = proc[q].env
             \/ Exists(proc'[q].env)
  <2>1. CASE q # p
    <3>1. proc'[q] = proc[q]
      BY <1>2, <2>1 DEF TypeOK
    <3> QED BY <3>1
  <2>2. CASE q = p /\ r = Idle
    BY <1>2, <2>2 DEF TypeOK
  <2>3. CASE q = p /\ r # Idle
    <3>1. proc[p] \in Ending /\ proc[p] # Idle
      BY <1>2, <2>3 DEF TypeOK
    <3>2. proc'[p].env = proc[p].env
      BY <1>2, <2>3, <3>1 DEF TypeOK, Ending
    <3> QED BY <2>3, <3>1, <3>2
  <2> QED BY <2>1, <2>2, <2>3
<1> QED BY <1>1, <1>3, ProcRefers

LEMMA BeginRefers ==
    ASSUME TypeOK, LedgerInv, NEW p \in Procs, NEW e \in Envelopes, Exists(e),
           UNCHANGED deposited, todo' \subseteq todo,
           NEW op, NEW stage, NEW a,
           proc' = [proc EXCEPT ![p] = [op |-> op, stage |-> stage, env |-> e, amount |-> a]]
    PROVE  RefersToRows
<1>1. \A q \in Procs : q # p => proc'[q] = proc[q]
  BY DEF TypeOK
<1>2. proc'[p].env = e
  BY DEF TypeOK
<1> QED BY <1>1, <1>2 DEF RefersToRows, LedgerInv

RefsKept == UNCHANGED <<deposited, todo, proc>>

LEMMA StepRows ==
    ASSUME RedAssumption, TypeOK, LedgerInv, [Next]_vars
    PROVE  RowsLasting /\ RefersToRows
<1>0. (UNCHANGED envelopes => RowsLasting) /\ (RefsKept => RefersToRows)
  BY RowsSame, RefersSame DEF RefsKept
<1>1. CASE Owner
  <2>1. ASSUME NEW e \in Envelopes, NEW w \in Wallets, NEW total \in Totals, NEW limit \in ClaimLimits,
               NEW random \in BOOLEAN, CreateRedEnvelope(e, w, total, limit, random)
        PROVE  RowsLasting /\ RefsKept
    BY <2>1, CreateRows DEF CreateRedEnvelope, history, requests, RefsKept
  <2>2. ASSUME NEW e \in Envelopes, NEW a, NEW ok, SendDeposit(e, a, ok)
        PROVE  UNCHANGED envelopes /\ RefersToRows
    <3>1. Exists(e) /\ deposited' \subseteq deposited \cup {e} /\ UNCHANGED <<envelopes, todo, proc>>
      BY <2>2 DEF SendDeposit, Exists
    <3> QED BY <3>1 DEF RefersToRows, LedgerInv
  <2>3. ASSUME NEW e \in Envelopes, NEW p \in Requests, CancelRedEnvelope(p, e)
        PROVE  RowsLasting /\ RefersToRows
    <3>1. p \in Procs /\ Exists(e)
      BY <2>3 DEF Procs, CancelRedEnvelope, Exists
    <3>2. RowsLasting
      BY <2>3, <3>1, EndingRows
    <3>3. PICK a : proc' = [proc EXCEPT ![p] =
                       [op |-> "cancel", stage |-> "refund", env |-> e, amount |-> a]]
      BY <2>3 DEF CancelRedEnvelope, Begin
    <3>4. UNCHANGED <<deposited, todo>>
      BY <2>3 DEF CancelRedEnvelope, history, requests
    <3>5. RefersToRows
      BY <3>1, <3>3, <3>4, BeginRefers
    <3> QED BY <3>2, <3>5
  <2>4. ASSUME NEW e \in Envelopes, NEW p \in Requests, CloseSession(p, e)
        PROVE  UNCHANGED envelopes /\ RefersToRows
    <3>1. p \in Procs /\ Exists(e)
      BY <2>4 DEF Procs, CloseSession, Exists
    <3>2. PICK stage, a : proc' = [proc EXCEPT ![p] =
                       [op |-> "close", stage |-> stage, env |-> e, amount |-> a]]
      BY <2>4, Zenon DEF CloseSession, Begin
    <3>3. UNCHANGED <<envelopes, deposited, todo>>
      BY <2>4 DEF CloseSession, history, requests
    <3> QED BY <3>1, <3>2, <3>3, BeginRefers
  <2>5. ASSUME NEW e \in Envelopes, Lapse(e) PROVE RowsLasting /\ RefsKept
    BY <2>5, LapseRows DEF Lapse, history, requests, RefsKept
  <2> QED BY <1>0, <1>1, <2>1, <2>2, <2>3, <2>4, <2>5 DEF Owner
<1>2. CASE Indexer
  <2>1. (\E block \in SUBSET mined : ReadBlock(block)) \/ AbandonBlock \/ CommitBlock
            => UNCHANGED envelopes /\ RefsKept
    BY DEF ReadBlock, AbandonBlock, CommitBlock, history, requests, RefsKept
  <2>2. PublishEnvelopes \/ FailEnvelopes => RowsLasting /\ RefsKept
    BY PublishRows, FailRows DEF PublishEnvelopes, FailEnvelopes, history, requests, RefsKept
  <2> QED BY <1>0, <1>2, <2>1, <2>2 DEF Indexer
<1>3. ASSUME NEW e \in Envelopes, NEW u \in Users, Claimer(e, u) PROVE RowsLasting /\ RefsKept
  <2>1. AttemptClaim(e, u) \/ RefuseClaim(e, u) \/ PayClaim(e, u) \/ SettleClaimFails(e, u)
            => UNCHANGED envelopes /\ RefsKept
    BY DEF AttemptClaim, TakeNext, RefuseClaim, PayClaim, SettleClaimFails, history, requests, RefsKept
  <2>2. ReserveClaim(e, u) \/ SettleClaim(e, u) => RowsLasting /\ RefsKept
    BY ReservedRows, SettledRows DEF ReserveClaim, SettleClaim, history, requests, RefsKept
  <2> QED BY <1>0, <1>3, <2>1, <2>2 DEF Claimer, ClaimStep
<1>4. ASSUME NEW p \in Procs, EndStep(p) PROVE RowsLasting /\ RefersToRows
  <2>1. UNCHANGED envelopes \/ UpdateRedEnvelope(p)
    BY <1>4 DEF EndStep, Proceed, Refund, CancelWithoutRefund, ReleaseWallet, Abandon
  <2>2. RowsLasting
    BY <1>0, <2>1, EndingRows
  <2> QED BY <1>4, <2>2, EndStepRefers
<1>5. CASE JobStep
  <2>1. CASE GetExpiredEnvelopes
    <3>1. UNCHANGED <<envelopes, deposited, proc>>
      BY <2>1 DEF GetExpiredEnvelopes, history, requests
    <3>2. \A e \in todo' : Exists(e)
      BY <2>1 DEF GetExpiredEnvelopes, Expired, Open, Exists
    <3>3. RefersToRows
      BY <3>1, <3>2 DEF RefersToRows, LedgerInv
    <3> QED BY <1>0, <3>1, <3>3
  <2>2. ASSUME NEW e \in Envelopes, ProcessExpired(e) PROVE UNCHANGED envelopes /\ RefersToRows
    <3>1. Job \in Procs /\ Exists(e)
      BY <2>2 DEF Procs, ProcessExpired, LedgerInv
    <3>2. PICK stage, a : proc' = [proc EXCEPT ![Job] =
                       [op |-> "expire", stage |-> stage, env |-> e, amount |-> a]]
      BY <2>2, Zenon DEF ProcessExpired, Begin
    <3>3. UNCHANGED <<envelopes, deposited>> /\ todo' \subseteq todo
      BY <2>2 DEF ProcessExpired, history, requests
    <3> QED BY <3>1, <3>2, <3>3, BeginRefers
  <2> QED BY <1>0, <1>5, <2>1, <2>2 DEF JobStep
<1>6. (\E e \in Envelopes : QueueExpires(e)) \/ UNCHANGED vars => UNCHANGED envelopes /\ RefsKept
  BY DEF QueueExpires, vars, history, requests, RefsKept
<1>7. Crash => UNCHANGED envelopes /\ RefersToRows
  BY DEF Crash, history, requests, RefersToRows, LedgerInv
<1> QED BY <1>0, <1>1, <1>2, <1>3, <1>4, <1>5, <1>6, <1>7 DEF Next

LEMMA LedgerInvStep == RedAssumption /\ TypeOK /\ TypeOK' /\ LedgerInv /\ [Next]_vars => LedgerInv'
<1> SUFFICES ASSUME RedAssumption, TypeOK, TypeOK', LedgerInv, [Next]_vars PROVE LedgerInv'
  OBVIOUS
<1>1. RowsLasting /\ RefersToRows
  BY StepRows
<1>2. \A e \in Envelopes : Exists(e) => Exists(e)'
  BY <1>1 DEF RowsLasting, RowLasts
<1>3. \A e \in Envelopes : Exists(e)' => envelopes'[e].total \in Totals
  BY <1>1 DEF RowsLasting, RowLasts, LedgerInv
<1>4. \A e \in deposited' \cup todo' : Exists(e)'
  <2>1. deposited' \cup todo' \subseteq Envelopes
    BY DEF TypeOK
  <2>2. \A e \in deposited' \cup todo' : Exists(e)
    BY <1>1 DEF RefersToRows, LedgerInv
  <2> QED BY <1>2, <2>1, <2>2
<1>5. ASSUME NEW p \in Procs, proc'[p] # Idle PROVE Exists(proc[p].env)'
  <2>1. proc'[p].env \in Envelopes
    BY <1>5 DEF TypeOK, Ending
  <2>2. Exists(proc'[p].env)
    BY <1>1, <1>5 DEF RefersToRows
  <2> QED BY <1>2, <2>1, <2>2 DEF Exists
<1> QED BY <1>3, <1>4, <1>5 DEF LedgerInv, Exists

(* What ClaimLedger is told of a user's share.                              *)
LEMMA ShareIs ==
    ASSUME NEW e \in Envelopes, NEW u \in Users
    PROVE  /\ payouts[e][u] = 1 => ShareOf(e, u) = "paid"
           /\ payouts[e][u] = 0 /\ claims[e][u].status = "NONE" => ShareOf(e, u) = "none"
           /\ payouts[e][u] = 0 /\ claims[e][u].status = "PENDING" => ShareOf(e, u) = "pending"
           /\ payouts[e][u] = 0 /\ claims[e][u].status = "FAILED" => ShareOf(e, u) = "failed"
BY DEF ShareOf, ShareStatus

LEMMA ShareNext ==
    ASSUME NEW e \in Envelopes, NEW u \in Users
    PROVE  /\ payouts'[e][u] = 1 => ShareOf(e, u)' = "paid"
           /\ payouts'[e][u] = 0 /\ claims'[e][u].status = "PENDING" => ShareOf(e, u)' = "pending"
           /\ payouts'[e][u] = 0 /\ claims'[e][u].status = "FAILED" => ShareOf(e, u)' = "failed"
BY DEF ShareOf, ShareStatus

LEMMA SameCell ==
    ASSUME NEW e \in Envelopes, NEW u \in Users, UNCHANGED <<claims[e][u], payouts[e][u]>>
    PROVE  ShareOf(e, u)' = ShareOf(e, u) /\ TakenBy(e, u)' = TakenBy(e, u)
BY DEF ShareOf, TakenBy

LEMMA PaidOnceOrNot ==
    ASSUME TypeOK, RedInv, NEW e \in Envelopes, NEW u \in Users
    PROVE  payouts[e][u] \in {0, 1}
<1>1. payouts[e][u] \in Nat /\ payouts[e][u] <= 1
  BY DEF TypeOK, RedInv, ClaimInv
<1> QED BY <1>1

(* The rows of a user's share and of no other are written.                  *)
LEMMA OneShare ==
    ASSUME NEW e \in Envelopes, NEW u \in Users,
           \A f \in Envelopes, v \in Users :
              f # e \/ v # u => UNCHANGED <<claims[f][v], payouts[f][v]>>
    PROVE  /\ Share' = [Share EXCEPT ![e][u] = ShareOf(e, u)']
           /\ Taken' = [Taken EXCEPT ![e][u] = TakenBy(e, u)']
           /\ ShareOf(e, u)' = ShareOf(e, u) => UNCHANGED Share
           /\ TakenBy(e, u)' = TakenBy(e, u) => UNCHANGED Taken
<1>1. ASSUME NEW f \in Envelopes, NEW v \in Users, f # e \/ v # u
      PROVE  ShareOf(f, v)' = ShareOf(f, v) /\ TakenBy(f, v)' = TakenBy(f, v)
  BY <1>1, SameCell
<1>2. Share' = [Share EXCEPT ![e][u] = ShareOf(e, u)']
  <2> DEFINE F == Share
             G == Share'
  <2>1. F = [x \in Envelopes |-> [y \in Users |-> F[x][y]]]
    BY DEF Share
  <2>2. G = [x \in Envelopes |-> [y \in Users |-> G[x][y]]]
    BY DEF Share
  <2>3. \A x \in Envelopes, y \in Users : x # e \/ y # u => G[x][y] = F[x][y]
    BY <1>1 DEF Share
  <2>4. G[e][u] = ShareOf(e, u)'
    BY DEF Share
  <2> HIDE DEF F, G
  <2>5. \A x \in Envelopes : F[x] = [y \in Users |-> F[x][y]] /\ G[x] = [y \in Users |-> G[x][y]]
    BY <2>1, <2>2
  <2>6. \A x \in Envelopes : x # e => G[x] = F[x]
    BY <2>3, <2>5
  <2>7. G[e] = [F[e] EXCEPT ![u] = ShareOf(e, u)']
    BY <2>3, <2>4, <2>5
  <2>8. F = [x \in Envelopes |-> F[x]] /\ G = [x \in Envelopes |-> G[x]]
    BY <2>1, <2>2
  <2>9. G = [F EXCEPT ![e][u] = ShareOf(e, u)']
    BY <2>6, <2>7, <2>8
  <2> QED BY <2>9 DEF F, G
<1>3. Taken' = [Taken EXCEPT ![e][u] = TakenBy(e, u)']
  <2> DEFINE F == Taken
             G == Taken'
  <2>1. F = [x \in Envelopes |-> [y \in Users |-> F[x][y]]]
    BY DEF Taken
  <2>2. G = [x \in Envelopes |-> [y \in Users |-> G[x][y]]]
    BY DEF Taken
  <2>3. \A x \in Envelopes, y \in Users : x # e \/ y # u => G[x][y] = F[x][y]
    BY <1>1 DEF Taken
  <2>4. G[e][u] = TakenBy(e, u)'
    BY DEF Taken
  <2> HIDE DEF F, G
  <2>5. \A x \in Envelopes : F[x] = [y \in Users |-> F[x][y]] /\ G[x] = [y \in Users |-> G[x][y]]
    BY <2>1, <2>2
  <2>6. \A x \in Envelopes : x # e => G[x] = F[x]
    BY <2>3, <2>5
  <2>7. G[e] = [F[e] EXCEPT ![u] = TakenBy(e, u)']
    BY <2>3, <2>4, <2>5
  <2>8. F = [x \in Envelopes |-> F[x]] /\ G = [x \in Envelopes |-> G[x]]
    BY <2>1, <2>2
  <2>9. G = [F EXCEPT ![e][u] = TakenBy(e, u)']
    BY <2>6, <2>7, <2>8
  <2> QED BY <2>9 DEF F, G
<1>4. ShareOf(e, u)' = ShareOf(e, u) => UNCHANGED Share
  BY <1>1 DEF Share
<1>5. TakenBy(e, u)' = TakenBy(e, u) => UNCHANGED Taken
  BY <1>1 DEF Taken
<1> QED BY <1>2, <1>3, <1>4, <1>5

(* A deposit that has arrived stays as large as it was.                     *)
LEMMA FundKept ==
    ASSUME LedgerInv, RowsLasting, UNCHANGED deposited
    PROVE  UNCHANGED Fund
<1>1. \A e \in Envelopes : e \in deposited => envelopes'[e].total = envelopes[e].total
  BY DEF LedgerInv, RowsLasting, RowLasts
<1> QED BY <1>1 DEF Fund

LEMMA LedgerQuiet ==
    ASSUME LedgerInv, RowsLasting, UNCHANGED <<claims, payouts, deposited>>
    PROVE  UNCHANGED <<Fund, Taken, Share>>
<1>1. UNCHANGED <<Taken, Share>>
  BY SameCell DEF Taken, Share
<1> QED BY <1>1, FundKept

(* The exact deposit funds an envelope that had none.                       *)
LEMMA LedgerDeposit ==
    ASSUME TypeOK, LedgerInv, NEW e \in Envelopes, NEW a, NEW ok, SendDeposit(e, a, ok)
    PROVE  Ledger!Fund(e) \/ UNCHANGED <<Fund, Taken, Share>>
<1>1. Exists(e) /\ UNCHANGED <<envelopes, claims, payouts>>
  BY DEF SendDeposit, Exists
<1>2. UNCHANGED <<Taken, Share>>
  BY <1>1, SameCell DEF Taken, Share
<1>3. CASE UNCHANGED deposited
  BY <1>1, <1>2, <1>3 DEF Fund
<1>4. CASE e \notin deposited /\ deposited' = deposited \cup {e}
  <2>1. Fund[e] = 0 /\ envelopes[e].total \in Totals
    BY <1>1, <1>4 DEF Fund, LedgerInv
  <2>2. Fund' = [Fund EXCEPT ![e] = envelopes[e].total]
    BY <1>1, <1>4 DEF Fund
  <2> QED BY <1>2, <2>1, <2>2 DEF Ledger!Fund
<1>5. UNCHANGED deposited \/ (e \notin deposited /\ deposited' = deposited \cup {e})
  BY DEF SendDeposit
<1> QED BY <1>3, <1>4, <1>5

(* The indexer writes SUCCESS into rows the chain has paid.                 *)
LEMMA LedgerCommit ==
    ASSUME TypeOK, RedInv, CommitBlock
    PROVE  UNCHANGED <<Fund, Taken, Share>>
<1>1. UNCHANGED <<envelopes, deposited, payouts>>
  BY DEF CommitBlock, history, requests
<1>2. indexing # Idle
  BY DEF CommitBlock, Idle
<1>3. ASSUME NEW e \in Envelopes, NEW u \in Users
      PROVE  TakenBy(e, u)' = TakenBy(e, u) /\ ShareOf(e, u)' = ShareOf(e, u)
  <2>1. claims[e][u] \in ClaimRow
    BY DEF TypeOK
  <2>2. CASE <<e, u>> \in Reconciled(indexing.block)
    <3>1. PICK t \in indexing.block : t.kind = "claim" /\ t.env = e /\ t.user = u
      BY <2>2 DEF Reconciled
    <3>2. payouts[e][u] > 0
      BY <1>2, <3>1 DEF RedInv, InsertionInv, TxInv
    <3>3. payouts[e][u] = 1 /\ payouts'[e][u] = 1
      BY <1>1, <3>2, PaidOnceOrNot
    <3>4. claims'[e][u] = [claims[e][u] EXCEPT !.status = "SUCCESS"] /\ claims[e][u].status = "PENDING"
      BY <2>2 DEF CommitBlock, Reconciled
    <3>5. ShareOf(e, u)' = ShareOf(e, u)
      BY <3>3, ShareIs, ShareNext
    <3> QED BY <2>1, <3>4, <3>5 DEF TakenBy, ClaimRow
  <2>3. CASE <<e, u>> \notin Reconciled(indexing.block)
    <3>1. claims'[e][u] = [claims[e][u] EXCEPT !.status = claims[e][u].status]
      BY <2>3 DEF CommitBlock
    <3>2. claims'[e][u] = claims[e][u]
      BY <2>1, <3>1 DEF ClaimRow
    <3> QED BY <1>1, <3>2, SameCell
  <2> QED BY <2>2, <2>3
<1>4. UNCHANGED Fund
  BY <1>1 DEF Fund
<1>5. UNCHANGED <<Taken, Share>>
  BY <1>3 DEF Taken, Share
<1> QED BY <1>4, <1>5

(* Shares that their users were handed are no more than the total.          *)
LEMMA SharesHanded ==
    ASSUME RedAssumption, TypeOK, NEW e \in Envelopes, PromiseInv(e),
           NEW g, DOMAIN g = Users, \A u \in Users : g[u] \in Nat /\ g[u] <= taken[e][u]
    PROVE  SumFunction(g) <= envelopes[e].total /\ \A u \in Users : g[u] <= envelopes[e].total
<1>1. AmountsInv(e)
  BY DEF PromiseInv
<1>2. (\A u \in Users : taken[e][u] \in Nat) /\ DOMAIN taken[e] = Users /\ IsFiniteSet(Users)
  BY <1>1, TakenFunction DEF AmountsInv
<1>3. SumFunctionOnSet(g, Users) <= SumFunctionOnSet(taken[e], Users)
  BY <1>2, SumMonotone
<1>4. /\ SumFunctionOnSet(g, Users) \in Nat /\ SumFunctionOnSet(taken[e], Users) \in Nat
      /\ \A u \in Users : g[u] <= SumFunctionOnSet(g, Users)
  BY <1>2, SumNat
<1>5. SumFunction(queue[e]) \in Nat
  BY <1>1, TakenSum
<1>6. SumFunction(taken[e]) + SumFunction(queue[e]) <= envelopes[e].total /\ envelopes[e].total \in Nat
  BY DEF PromiseInv, TypeOK, EnvelopeRow
<1>7. SumFunction(taken[e]) = SumFunctionOnSet(taken[e], Users) /\ SumFunction(g) = SumFunctionOnSet(g, Users)
  BY <1>2 DEF SumFunction
<1>8. SumFunctionOnSet(g, Users) <= envelopes[e].total
  BY <1>3, <1>4, <1>5, <1>6, <1>7
<1> QED BY <1>4, <1>6, <1>7, <1>8

(* A claim takes its share of an envelope that is funded, within the deposit. *)
LEMMA LedgerReserve ==
    ASSUME RedAssumption, TypeOK, RedInv, LedgerInv, NEW e \in Envelopes, NEW u \in Users,
           PromiseInv(e), RowsLasting, ReserveClaim(e, u)
    PROVE  Ledger!Claim(e, u)
<1>1. claims[e][u].status = "NONE" /\ envelopes[e].status = "PUBLISHED" /\ UNCHANGED <<payouts, deposited>>
  BY DEF ReserveClaim, history
<1>2. PICK a \in VerifyReservation(e, u) :
      /\ claims'[e][u] = [status |-> "PENDING", amount |-> a]
      /\ \A f \in Envelopes, v \in Users : f # e \/ v # u => claims'[f][v] = claims[f][v]
  BY DEF ReserveClaim, TypeOK
<1>3. e \in deposited /\ payouts[e][u] = 0
  <2>1. EnvelopeInv(e) /\ ClaimInv(e, u)
    BY DEF RedInv
  <2>2. payouts[e][u] \in {0, 1}
    BY PaidOnceOrNot
  <2> QED BY <1>1, <2>1, <2>2 DEF EnvelopeInv, ClaimInv
<1>4. /\ Share' = [Share EXCEPT ![e][u] = ShareOf(e, u)']
      /\ Taken' = [Taken EXCEPT ![e][u] = TakenBy(e, u)']
  BY <1>1, <1>2, OneShare
<1>5. ShareOf(e, u) = "none" /\ ShareOf(e, u)' = "pending"
  <2>1. payouts'[e][u] = 0 /\ claims'[e][u].status = "PENDING"
    BY <1>1, <1>2, <1>3
  <2> QED BY <1>1, <1>3, <2>1, ShareIs, ShareNext
<1>6. Fund[e] = envelopes[e].total /\ Fund[e] > 0 /\ UNCHANGED Fund
  <2>1. Fund[e] = envelopes[e].total /\ envelopes[e].total \in Totals
    BY <1>3 DEF Fund, LedgerInv
  <2>2. envelopes[e].total > 0
    <3>1. envelopes[e].total \in Nat \ {0}
      BY <2>1 DEF RedAssumption
    <3> QED BY <3>1
  <2> QED BY <1>1, <2>1, <2>2, FundKept
<1>7. AmountsInv(e)
  BY DEF PromiseInv
<1>8. \A v \in Users : TakenBy(e, v)' \in Nat /\ TakenBy(e, v)' <= taken[e][v]
  <2>1. a \in 0 .. taken[e][u] /\ taken[e][u] \in Nat
    BY <1>7, CarriedTaken DEF AmountsInv
  <2>2. TakenBy(e, u)' = a
    BY <1>2 DEF TakenBy
  <2>3. ASSUME NEW v \in Users, v # u
        PROVE  TakenBy(e, v)' \in Nat /\ TakenBy(e, v)' <= taken[e][v]
    <3>1. claims'[e][v] = claims[e][v]
      BY <1>2, <2>3
    <3>2. claims[e][v].amount \in 0 .. taken[e][v] /\ taken[e][v] \in Nat
      BY <1>7 DEF AmountsInv
    <3> QED BY <3>1, <3>2 DEF TakenBy
  <2> QED BY <2>1, <2>2, <2>3
<1>9. DOMAIN Taken'[e] = Users /\ \A v \in Users : Taken'[e][v] = TakenBy(e, v)'
  BY DEF Taken
<1>10. SumFunction(Taken'[e]) <= Fund[e] /\ TakenBy(e, u)' \in 0 .. Fund[e]
  <2>1. SumFunction(Taken'[e]) <= envelopes[e].total /\ Taken'[e][u] <= envelopes[e].total
    BY <1>8, <1>9, SharesHanded
  <2>2. TakenBy(e, u)' \in Nat /\ envelopes[e].total \in Nat
    BY <1>8 DEF TypeOK, EnvelopeRow
  <2> QED BY <1>6, <1>9, <2>1, <2>2
<1>11. Share[e][u] = "none"
  BY <1>5 DEF Share
<1>12. Share' = [Share EXCEPT ![e][u] = "pending"]
  BY <1>4, <1>5
<1>13. \E b \in 0 .. Fund[e] : Taken' = [Taken EXCEPT ![e][u] = b]
  BY <1>4, <1>10
<1>14. Ledger!SumFunction(Taken'[e]) = SumFunction(Taken'[e])
  BY DEF SumFunction, SumFunctionOnSet, FoldFunctionOnSet, MapThenFoldSet,
         Ledger!SumFunction, Ledger!SumFunctionOnSet, Ledger!FoldFunctionOnSet, Ledger!MapThenFoldSet
<1> QED BY <1>6, <1>10, <1>11, <1>12, <1>13, <1>14 DEF Ledger!Claim

(* A transfer that moves the money settles the share; one that does not leaves
   it pending.                                                              *)
LEMMA LedgerPay ==
    ASSUME TypeOK, RedInv, LedgerInv, NEW e \in Envelopes, NEW u \in Users,
           RowsLasting, PayClaim(e, u)
    PROVE  Ledger!Settle(e, u) \/ UNCHANGED <<Fund, Taken, Share>>
<1>1. PICK k \in {0, 1} : payouts' = [payouts EXCEPT ![e][u] = @ + k]
  BY DEF PayClaim
<1>2. claiming[e][u] = "reserved" /\ UNCHANGED <<claims, deposited>>
  BY DEF PayClaim
<1>3. payouts[e][u] = 0 /\ claims[e][u].status = "PENDING"
  <2>1. ClaimInv(e, u) /\ payouts[e][u] \in {0, 1}
    BY PaidOnceOrNot DEF RedInv
  <2> QED BY <1>2, <2>1 DEF ClaimInv, HoldsTurn
<1>4. CASE k = 0
  <2>1. UNCHANGED payouts
    <3>1. \A f \in Envelopes, v \in Users : payouts'[f][v] = payouts[f][v]
      BY <1>1, <1>3, <1>4 DEF TypeOK
    <3> QED BY <1>1, <3>1 DEF TypeOK
  <2> QED BY <1>2, <2>1, LedgerQuiet
<1>5. CASE k = 1
  <2>1. /\ payouts'[e][u] = 1
        /\ \A f \in Envelopes, v \in Users : f # e \/ v # u => payouts'[f][v] = payouts[f][v]
    BY <1>1, <1>3, <1>5 DEF TypeOK
  <2>2. Share' = [Share EXCEPT ![e][u] = ShareOf(e, u)']
    BY <1>2, <2>1, OneShare
  <2>3. Share[e][u] = "pending" /\ ShareOf(e, u)' = "paid"
    BY <1>3, <2>1, ShareIs, ShareNext DEF Share
  <2>4. UNCHANGED <<Fund, Taken>>
    BY <1>2, FundKept DEF Taken, TakenBy
  <2> QED BY <2>2, <2>3, <2>4 DEF Ledger!Settle
<1> QED BY <1>4, <1>5

(* The answer writes the row: a share that was paid stays so, one that was not
   fails.                                                                   *)
LEMMA LedgerSettle ==
    ASSUME TypeOK, RedInv, LedgerInv, NEW e \in Envelopes, NEW u \in Users,
           RowsLasting, SettleClaim(e, u)
    PROVE  Ledger!Settle(e, u) \/ UNCHANGED <<Fund, Taken, Share>>
<1>1. claiming[e][u] \in {"paid", "unpaid"} /\ UNCHANGED <<payouts, deposited>>
  BY DEF SettleClaim, history, requests
<1>2. claims[e][u] \in ClaimRow
  BY DEF TypeOK
<1>3. /\ claims'[e][u] = [claims[e][u] EXCEPT !.status =
             IF claiming[e][u] = "paid" THEN "SUCCESS" ELSE "FAILED"]
      /\ \A f \in Envelopes, v \in Users : f # e \/ v # u => claims'[f][v] = claims[f][v]
  BY DEF SettleClaim, TypeOK
<1>4. ClaimInv(e, u) /\ payouts[e][u] \in {0, 1}
  BY PaidOnceOrNot DEF RedInv
<1>5. /\ Share' = [Share EXCEPT ![e][u] = ShareOf(e, u)']
      /\ ShareOf(e, u)' = ShareOf(e, u) => UNCHANGED Share
      /\ TakenBy(e, u)' = TakenBy(e, u) => UNCHANGED Taken
  BY <1>1, <1>3, OneShare
<1>6. UNCHANGED <<Fund, Taken>>
  <2>1. claims[e][u].status # "NONE"
    BY <1>1, <1>4 DEF ClaimInv, HoldsTurn
  <2>2. claims'[e][u].amount = claims[e][u].amount /\ claims'[e][u].status # "NONE"
    BY <1>2, <1>3 DEF ClaimRow
  <2>3. TakenBy(e, u)' = TakenBy(e, u)
    BY <2>1, <2>2 DEF TakenBy
  <2> QED BY <1>1, <1>5, <2>3, FundKept
<1>7. CASE payouts[e][u] = 1
  <2>1. ShareOf(e, u)' = ShareOf(e, u)
    BY <1>1, <1>7, ShareIs, ShareNext
  <2> QED BY <1>5, <1>6, <2>1
<1>8. CASE payouts[e][u] = 0
  <2>1. claiming[e][u] = "unpaid" /\ claims[e][u].status = "PENDING"
    BY <1>1, <1>4, <1>8 DEF ClaimInv, HoldsTurn
  <2>2. claims'[e][u].status = "FAILED" /\ payouts'[e][u] = 0
    BY <1>1, <1>2, <1>3, <1>8, <2>1 DEF ClaimRow
  <2>3. Share[e][u] = "pending" /\ ShareOf(e, u)' = "failed"
    BY <1>8, <2>1, <2>2, ShareIs, ShareNext DEF Share
  <2> QED BY <1>5, <1>6, <2>3 DEF Ledger!Settle
<1> QED BY <1>4, <1>7, <1>8

(* The steps that write neither claims nor the history of the chain.        *)
LedgerStutters == UNCHANGED <<claims, payouts, deposited>>

LEMMA LedgerStep ==
    ASSUME RedAssumption, TypeOK, RedInv, LedgerInv, PromisesInv, [Next]_vars
    PROVE  [Ledger!Next]_<<Fund, Taken, Share>>
<1> DEFINE Quiet == UNCHANGED <<Fund, Taken, Share>>
<1>r. RowsLasting
  BY StepRows
<1>q. LedgerStutters => Quiet
  BY <1>r, LedgerQuiet DEF LedgerStutters
<1>1. ASSUME Owner PROVE Quiet \/ Ledger!Next
  <2>1. ASSUME NEW e \in Envelopes, NEW a, NEW ok, SendDeposit(e, a, ok)
        PROVE  Quiet \/ Ledger!Next
    BY <2>1, LedgerDeposit DEF Ledger!Next
  <2>2. Owner => \/ LedgerStutters
                 \/ \E e \in Envelopes, a \in Totals \cup {t * Multiplier : t \in Totals}, ok \in BOOLEAN :
                       SendDeposit(e, a, ok)
    BY DEF Owner, CreateRedEnvelope, CancelRedEnvelope, CloseSession, Lapse, history, requests, LedgerStutters
  <2> HIDE DEF Quiet
  <2> QED BY <1>q, <1>1, <2>1, <2>2
<1>2. ASSUME Indexer PROVE Quiet
  <2>1. CommitBlock => Quiet
    BY LedgerCommit
  <2>2. Indexer => CommitBlock \/ LedgerStutters
    BY DEF Indexer, ReadBlock, PublishEnvelopes, FailEnvelopes, AbandonBlock, history, requests, LedgerStutters
  <2> QED BY <1>q, <1>2, <2>1, <2>2
<1>3. ASSUME NEW e \in Envelopes, NEW u \in Users, Claimer(e, u) PROVE Quiet \/ Ledger!Next
  <2>1. ReserveClaim(e, u) => Ledger!Claim(e, u)
    BY <1>r, LedgerReserve DEF PromisesInv
  <2>2. PayClaim(e, u) \/ SettleClaim(e, u) => Ledger!Settle(e, u) \/ Quiet
    BY <1>r, LedgerPay, LedgerSettle
  <2>3. AttemptClaim(e, u) \/ RefuseClaim(e, u) \/ SettleClaimFails(e, u) => LedgerStutters
    BY DEF AttemptClaim, TakeNext, RefuseClaim, SettleClaimFails, history, requests, LedgerStutters
  <2>4. Ledger!Claim(e, u) \/ Ledger!Settle(e, u) => Ledger!Next
    BY DEF Ledger!Next
  <2> HIDE DEF Quiet
  <2> QED BY <1>q, <1>3, <2>1, <2>2, <2>3, <2>4 DEF Claimer, ClaimStep
<1>4. (\E p \in Procs : EndStep(p)) => LedgerStutters
  BY DEF EndStep, Proceed, Refund, CancelWithoutRefund, UpdateRedEnvelope, ReleaseWallet, Abandon,
     history, LedgerStutters
<1>5. JobStep \/ (\E e \in Envelopes : QueueExpires(e)) \/ Crash \/ UNCHANGED vars => LedgerStutters
  BY DEF JobStep, GetExpiredEnvelopes, ProcessExpired, QueueExpires, Crash, vars, history, requests, LedgerStutters
<1>6. Quiet \/ Ledger!Next
  <2> HIDE DEF Quiet
  <2> QED BY <1>q, <1>1, <1>2, <1>3, <1>4, <1>5 DEF Next
<1> QED BY <1>6

(* What refers to an envelope refers to one that was created.               *)
THEOREM LedgerAlways == Spec => []LedgerInv
<1>1. Init => LedgerInv
  BY DEF Init, LedgerInv, Exists
<1> QED BY <1>1, RedAssumption, LedgerInvStep, RedTypeCorrect, PTL DEF Spec

(* Whatever requests, retries, crashes, blocks that come again, expired keys,
   the job and the owner do, each envelope is funded once, each user takes one
   share of it within the deposit, and what becomes of a share is final.     *)
THEOREM EnvelopesImplementClaimLedger == Spec => ImplementsClaimLedger
<1>1. Init => Ledger!Init
  BY DEF Init, Ledger!Init, Fund, Taken, TakenBy, Share, ShareOf, ShareStatus
<1>2. TypeOK /\ RedInv /\ LedgerInv /\ PromisesInv /\ [Next]_vars
          => [Ledger!Next]_<<Fund, Taken, Share>>
  BY RedAssumption, LedgerStep
<1> QED BY <1>1, <1>2, RedInvariant, LedgerAlways, PromisesAlways, PTL
        DEF Spec, ImplementsClaimLedger, Ledger!Spec
=============================================================================
