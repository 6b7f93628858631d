-------------------------- MODULE BlockPipelineProofs --------------------------
(***************************************************************************)
(* The safety of BlockPipeline, for every length of the chain, any number  *)
(* of workers, any batch sizes and any number of connections.              *)
(*                                                                         *)
(* PipelineInv is inductive.  Its heart is that the batch being inserted   *)
(* starts where the main table ends and has no gap: then what a batch      *)
(* leaves behind is below a block of the same batch, which torn records,   *)
(* and both counters of the cleanup stay below what is accounted for.      *)
(***************************************************************************)
EXTENDS BlockPipeline, WellFoundedInduction, TLAPS

Inserting == committer.step = "inserting"
Batch == IF Inserting THEN committer.blocks ELSE {}
Accounted == committed \cup torn \cup unreported

(* A range that a worker holds is not empty and not beyond the chain.       *)
RangesAreOnChain ==
    \A w \in Workers :
        worker[w].step # "idle" => worker[w].blocks # {} /\ worker[w].blocks \subseteq 0 .. latest

(* A batch is not empty, is of the chain, and is above all other blocks.    *)
BatchComesNext ==
    /\ Inserting => committer.blocks # {}
    /\ Batch \subseteq 0 .. latest
    /\ committer.pending \subseteq Batch
    /\ \A m \in committed \ Batch, n \in Batch : m < n

(* HolesComeFromTornInserts, of the batch's own blocks as well.             *)
NoOtherHoles ==
    \A m \in committed \cup Batch : \A n \in 0 .. m : n \in committed \cup torn \cup Batch

(* What the committer remembers is above nothing that was forgotten, and so is
   what the cleanup has read of it.                                         *)
LastIsAccounted ==
    committer.last > 0 => \A n \in 0 .. committer.last : n \in Accounted
LimitIsAccounted ==
    cleaning.limit > 0 => \A n \in 0 .. cleaning.limit : n \in Accounted

PipelineInv ==
    /\ TypeOK
    /\ RangesAreOnChain
    /\ BatchComesNext
    /\ NoOtherHoles
    /\ LastIsAccounted
    /\ LimitIsAccounted
    /\ PublishedAreCommitted
    /\ OnlyFalseSuccessHalts

-----------------------------------------------------------------------------
(* Maxima.                                                                  *)

\* The largest of some block numbers is one of them, and above all of them.
LEMMA MaxOfBlocks ==
    ASSUME NEW n \in Nat, NEW S \in SUBSET (0 .. n), S # {}
    PROVE  Max(S) \in S /\ \A x \in S : x <= Max(S)
<1> DEFINE T == {n - x : x \in S}
<1>1. T \subseteq Nat /\ T # {}
  <2>1. PICK s \in S : TRUE
    OBVIOUS
  <2>2. n - s \in T
    OBVIOUS
  <2>3. \A x \in S : n - x \in Nat
    OBVIOUS
  <2> QED BY <2>2, <2>3
<1>2. PICK t \in T : \A y \in T : ~ (<<y, t>> \in OpToRel(<, Nat))
  <2> HIDE DEF T
  <2> QED BY <1>1, NatLessThanWellFounded, WFMin, Zenon
<1>3. \A y \in T : ~ (y < t)
  BY <1>1, <1>2 DEF OpToRel
<1>4. PICK x \in S : t = n - x
  OBVIOUS
<1>5. \A y \in S : x >= y
  <2> SUFFICES ASSUME NEW y \in S PROVE x >= y
    OBVIOUS
  <2>1. n - y \in T
    OBVIOUS
  <2>2. ~ (n - y < t)
    BY <1>3, <2>1
  <2> QED BY <1>4, <2>2
<1>6. Max(S) \in S /\ \A y \in S : Max(S) >= y
  BY <1>4, <1>5 DEF Max
<1> QED BY <1>6

\* GetMaxBlockNumber is the last block of the main table, or 0.
LEMMA HighestIsMax ==
    ASSUME TypeOK
    PROVE  /\ Highest \in 0 .. latest
           /\ Highest > 0 => Highest \in committed
           /\ \A n \in committed : n <= Highest
<1>1. latest \in Nat /\ committed \in SUBSET (0 .. latest)
  BY PipelineAssumption DEF TypeOK, Blocks
<1>2. CASE committed = {}
  BY <1>1, <1>2 DEF Highest
<1>3. CASE committed # {}
  <2>1. Max(committed) \in committed /\ \A n \in committed : n <= Max(committed)
    BY <1>1, <1>3, MaxOfBlocks
  <2> QED BY <1>1, <1>3, <2>1 DEF Highest
<1> QED BY <1>2, <1>3

\* A restart finds the two counters and the poller's position on the chain.
LEMMA RestartIsTyped ==
    ASSUME TypeOK
    PROVE  /\ NewPoller \in [mode : Modes, last : -1 .. latest, running : BOOLEAN]
           /\ NewCommitter \in [mode : Modes, step : {"idle", "filling", "inserting"},
                                blocks : SUBSET Nat, pending : SUBSET Blocks, failed : BOOLEAN,
                                last : 0 .. latest]
<1>1. latest \in Nat /\ staged \in SUBSET (0 .. latest) /\ Highest \in 0 .. latest
  BY HighestIsMax, PipelineAssumption DEF TypeOK, Blocks
<1>2. staged \ {0} # {} => Max(staged) \in 0 .. latest
  BY <1>1, MaxOfBlocks
<1> QED BY <1>1, <1>2 DEF NewPoller, NewCommitter, Modes

-----------------------------------------------------------------------------
(* The types, one group of actions at a time.                               *)

LEMMA WorkersKeepTypes ==
    ASSUME PipelineInv, NEW w \in Workers, WorkerStep(w)
    PROVE  TypeOK' /\ RangesAreOnChain'
<1>1. latest \in Nat /\ latest \in Blocks /\ 0 .. latest \subseteq Blocks /\ BlocksPerPoll \in Nat \ {0}
  BY PipelineAssumption DEF PipelineInv, TypeOK, Blocks
<1>2. CASE GetNextBlockRange(w)
  <2> DEFINE R == {n \in 0 .. latest : poller.last < n /\ n <= poller.last + BlocksPerPoll}
  <2>1. poller.last \in -1 .. latest /\ poller.last < latest
    BY <1>2 DEF GetNextBlockRange, PipelineInv, TypeOK
  <2>2. poller.last + 1 \in R
    BY <1>1, <2>1
  <2>3. R # {} /\ R \subseteq 0 .. latest
    BY <2>2
  <2>4. worker' = [worker EXCEPT ![w] = [step |-> "ranged", blocks |-> R]]
    BY <1>2 DEF GetNextBlockRange
  <2>5. UNCHANGED <<latest, tables, publisherVars, monitor, mail, poller, committer, history>>
    BY <1>2 DEF GetNextBlockRange
  <2> HIDE DEF R
  <2>6. TypeOK'
    BY <1>1, <2>3, <2>4, <2>5 DEF PipelineInv, TypeOK, tables, publisherVars, history, Blocks
  <2>7. RangesAreOnChain'
    BY <2>3, <2>4, <2>5 DEF PipelineInv, TypeOK, RangesAreOnChain
  <2> QED BY <2>6, <2>7
<1>3. CASE StartPoll(w)
  <2>1. worker[w].blocks # {} /\ worker[w].blocks \in SUBSET (0 .. latest)
    BY <1>3 DEF StartPoll, PipelineInv, RangesAreOnChain
  <2>2. Max(worker[w].blocks) \in 0 .. latest
    BY <1>1, <2>1, MaxOfBlocks
  <2>3. TypeOK'
    BY <1>1, <1>3, <2>2 DEF StartPoll, PipelineInv, TypeOK, tables, publisherVars, history, Blocks
  <2>4. RangesAreOnChain'
    BY <1>3, <2>1 DEF StartPoll, PipelineInv, TypeOK, RangesAreOnChain
  <2> QED BY <2>3, <2>4
<1>4. CASE PollEnds(w)
  <2>1. staged' \subseteq 0 .. latest /\ \E b \in BOOLEAN : poller' = [poller EXCEPT !.running = b]
    BY <1>4 DEF PollEnds, Fetched, PipelineInv, TypeOK
  <2>2. worker' = [worker EXCEPT ![w] = [step |-> "idle", blocks |-> {}]]
    BY <1>4 DEF PollEnds
  <2>3. UNCHANGED <<latest, committed, publisherVars, monitor, mail, committer, history>>
    BY <1>4 DEF PollEnds
  <2>4. TypeOK'
    BY <1>1, <2>1, <2>2, <2>3 DEF PipelineInv, TypeOK, publisherVars, history, Blocks
  <2>5. RangesAreOnChain'
    BY <2>2, <2>3 DEF PipelineInv, TypeOK, RangesAreOnChain
  <2> QED BY <2>4, <2>5
<1> QED BY <1>2, <1>3, <1>4 DEF WorkerStep

-----------------------------------------------------------------------------
(* The committer.                                                           *)

\* A batch that starts after the main table and has no gap keeps the invariant.
LEMMA BatchBegins ==
    ASSUME PipelineInv, committer.step = "idle",
           NEW blocks \in SUBSET (0 .. latest), blocks \subseteq First .. Last, First \in blocks,
           InsertBlockData(Sequential(blocks)),
           UNCHANGED <<latest, tables, publisherVars, monitor, mail, poller, worker, history>>
    PROVE  PipelineInv'
<1> DEFINE S == Sequential(blocks)
<1>1. TypeOK /\ latest \in Nat /\ latest \in Blocks /\ 0 .. latest \subseteq Blocks
  BY PipelineAssumption DEF PipelineInv, TypeOK, Blocks
<1>2. /\ Highest \in 0 .. latest
      /\ Highest > 0 => Highest \in committed
      /\ \A n \in committed : n <= Highest
  BY <1>1, HighestIsMax
<1>3. First \in Nat /\ (Highest = 0 => First = 0) /\ (Highest > 0 => First = Highest + 1)
  BY <1>2 DEF First
<1>4. First \in S /\ S \subseteq blocks /\ \A n \in S : First .. n \subseteq S
  <2>1. First \in S /\ S \subseteq blocks
    BY <1>3 DEF Sequential
  <2>2. ASSUME NEW n \in S, NEW m \in First .. n PROVE m \in S
    <3>1. m \in blocks /\ n \in Nat /\ m \in Nat
      BY <1>3, <2>1, <2>2 DEF Sequential
    <3>2. \A k \in First .. m : k \in blocks
      BY <1>3, <2>2, <3>1 DEF Sequential
    <3> QED BY <3>1, <3>2 DEF Sequential
  <2> QED BY <2>1, <2>2
<1>5. committer' = [committer EXCEPT !.step = "inserting", !.blocks = S,
                                     !.pending = S, !.failed = FALSE]
  BY DEF InsertBlockData
<1>6. UNCHANGED <<latest, staged, committed, publishing, lastPublished, cleaning,
                  monitor, mail, poller, worker, torn, unreported>>
  BY DEF tables, publisherVars, history
<1> HIDE DEF S
<1>7. S \in SUBSET Nat /\ S \in SUBSET Blocks /\ S \subseteq 0 .. latest
  BY <1>1, <1>4
<1>8. TypeOK'
  BY <1>1, <1>5, <1>6, <1>7 DEF TypeOK, Blocks
<1>9. Batch = {} /\ Batch' = S /\ committer'.pending = S /\ committer'.last = committer.last
  BY <1>1, <1>5 DEF Batch, Inserting, TypeOK
<1>10. BatchComesNext'
  <2>1. ASSUME NEW m \in committed \ S, NEW n \in S PROVE m < n
    <3>1. m \in Nat /\ n \in Nat /\ First <= n /\ m <= Highest
      BY <1>1, <1>2, <1>4, <1>7 DEF TypeOK, First
    <3>2. CASE Highest > 0
      BY <1>2, <1>3, <3>1, <3>2
    <3>3. CASE Highest = 0
      BY <1>2, <1>3, <1>4, <3>1, <3>3
    <3> QED BY <1>2, <3>2, <3>3
  <2>2. \A m \in (committed' \ S), n \in S : m < n
    BY <1>6, <2>1
  <2> QED BY <1>4, <1>5, <1>6, <1>7, <1>9, <2>2 DEF BatchComesNext, TypeOK, Batch, Inserting
<1>11. NoOtherHoles'
  <2>1. ASSUME NEW m \in committed \cup S, NEW n \in 0 .. m PROVE n \in committed \cup torn \cup S
    <3>1. CASE m \in committed
      BY <1>9, <2>1, <3>1 DEF PipelineInv, NoOtherHoles
    <3>2. CASE m \in S /\ n >= First
      BY <1>3, <1>4, <1>7, <2>1, <3>2
    <3>3. CASE m \in S /\ n < First
      <4>1. Highest > 0 /\ n \in 0 .. Highest
        BY <1>2, <1>3, <1>7, <2>1, <3>3
      <4> QED BY <1>2, <1>9, <4>1 DEF PipelineInv, NoOtherHoles
    <3>4. n >= First \/ n < First
      BY <1>1, <1>3, <1>7 DEF TypeOK
    <3> QED BY <2>1, <3>1, <3>2, <3>3, <3>4
  <2> QED BY <1>6, <1>9, <2>1 DEF NoOtherHoles
<1>12. LastIsAccounted' /\ LimitIsAccounted' /\ PublishedAreCommitted' /\ OnlyFalseSuccessHalts'
  BY <1>6, <1>9 DEF PipelineInv, LastIsAccounted, LimitIsAccounted, Accounted, PublishedAreCommitted,
                    OnlyFalseSuccessHalts, Highest
<1>13. RangesAreOnChain'
  BY <1>6 DEF PipelineInv, RangesAreOnChain
<1> QED BY <1>8, <1>10, <1>11, <1>12, <1>13 DEF PipelineInv

\* A block goes into the main table: the highest one can only rise.
LEMMA BlockGoesIn ==
    ASSUME PipelineInv, NEW n \in committer.pending, InsertBlock(n)
    PROVE  PipelineInv'
<1>1. TypeOK /\ latest \in Nat /\ committer.step = "inserting" /\ Inserting
  BY PipelineAssumption DEF PipelineInv, TypeOK, Blocks, InsertBlock, Inserting
<1>2. /\ committed' = committed \cup {n}
      /\ committer' = [committer EXCEPT !.pending = committer.pending \ {n}]
      /\ UNCHANGED <<latest, staged, publishing, lastPublished, cleaning,
                     monitor, mail, poller, worker, torn, unreported>>
  BY DEF InsertBlock, publisherVars, history
<1>3. n \in Batch /\ n \in 0 .. latest /\ n \in committer.blocks
  BY <1>1 DEF PipelineInv, BatchComesNext, Batch
<1>4. TypeOK'
  BY <1>1, <1>2, <1>3 DEF TypeOK
<1>5. /\ Batch' = Batch /\ Inserting' /\ committer'.blocks = committer.blocks
      /\ committer'.last = committer.last /\ committer'.pending = committer.pending \ {n}
  BY <1>1, <1>2 DEF TypeOK, Batch, Inserting
<1>6. Highest <= Highest' /\ Highest \in Nat /\ Highest' \in Nat
  <2>1. /\ Highest \in 0 .. latest
        /\ Highest > 0 => Highest \in committed
    BY <1>1, HighestIsMax
  <2>2. committed' # {} /\ committed' \in SUBSET (0 .. latest)
    BY <1>1, <1>2, <1>3 DEF TypeOK
  <2>3. Max(committed') \in committed' /\ \A k \in committed' : k <= Max(committed')
    BY <1>1, <2>2, MaxOfBlocks
  <2>4. Highest' \in 0 .. latest /\ \A k \in committed : k <= Highest'
    BY <1>2, <2>2, <2>3 DEF Highest
  <2> QED BY <1>1, <2>1, <2>4
<1>7. BatchComesNext'
  <2>1. committed' \ Batch = committed \ Batch
    BY <1>2, <1>3
  <2> QED BY <1>1, <1>2, <1>5, <2>1 DEF PipelineInv, BatchComesNext
<1>8. NoOtherHoles'
  BY <1>2, <1>3, <1>5 DEF PipelineInv, NoOtherHoles
<1>9. LastIsAccounted' /\ LimitIsAccounted' /\ PublishedAreCommitted' /\ RangesAreOnChain'
  BY <1>2, <1>5 DEF PipelineInv, LastIsAccounted, LimitIsAccounted, Accounted, PublishedAreCommitted, RangesAreOnChain
<1>10. OnlyFalseSuccessHalts'
  BY <1>1, <1>2, <1>5, <1>6 DEF PipelineInv, OnlyFalseSuccessHalts, TypeOK
<1> QED BY <1>4, <1>7, <1>8, <1>9, <1>10 DEF PipelineInv

\* What a batch leaves behind below a committed block is torn when the batch ends.
LEMMA EndOfBatch ==
    ASSUME PipelineInv
    PROVE  /\ Holes(Batch) \subseteq 0 .. latest
           /\ \A m \in committed : \A n \in 0 .. m : n \in committed \cup torn \cup Holes(Batch)
<1>1. Holes(Batch) \subseteq 0 .. latest
  BY DEF PipelineInv, BatchComesNext, Holes
<1>2. ASSUME NEW m \in committed, NEW n \in 0 .. m, n \notin committed \cup torn
      PROVE  n \in Holes(Batch)
  <2>1. n \in Batch /\ m \in Nat /\ n \in Nat /\ n <= m
    BY <1>2, PipelineAssumption DEF PipelineInv, NoOtherHoles, TypeOK, Blocks
  <2>2. m \in Batch
    BY <1>2, <2>1 DEF PipelineInv, BatchComesNext
  <2>3. n < m
    BY <1>2, <2>1
  <2> QED BY <1>2, <2>1, <2>2, <2>3 DEF Holes
<1> QED BY <1>1, <1>2

\* An insertion that reports its failure, or that passes for a success.
LEMMA BatchEnds ==
    ASSUME PipelineInv, CommitFails \/ CommitSucceeds
    PROVE  PipelineInv'
<1>1. TypeOK /\ latest \in Nat /\ Inserting /\ Batch = committer.blocks /\ committer.pending = {}
  BY PipelineAssumption
     DEF PipelineInv, TypeOK, Blocks, CommitFails, CommitSucceeds, InsertionEnds, Inserting, Batch
<1>2. Batch # {} /\ Batch \in SUBSET (0 .. latest) /\ torn' = torn \cup Holes(Batch)
  BY <1>1 DEF PipelineInv, BatchComesNext, CommitFails, CommitSucceeds, InsertionEnds
<1>3. /\ Holes(Batch) \subseteq 0 .. latest
      /\ \A m \in committed : \A n \in 0 .. m : n \in committed \cup torn \cup Holes(Batch)
  BY EndOfBatch
<1>4. UNCHANGED <<latest, staged, committed, lastPublished, monitor, mail, poller, worker>>
  BY DEF CommitFails, CommitSucceeds, tables, publisherVars
<1>5. Highest' = Highest
  BY <1>4 DEF Highest
<1>6. /\ committer'.step = "idle"
      /\ committer'.pending = {}
      /\ unreported \subseteq unreported'
      /\ cleaning' \in {cleaning, [cleaning EXCEPT !.step = "due"]}
      /\ Batch' = {}
  BY <1>1 DEF CommitFails, CommitSucceeds, InsertionEnds, TriggerCleanup, publisherVars, TypeOK,
               Batch, Inserting
<1>7. BatchComesNext' /\ RangesAreOnChain'
  BY <1>4, <1>6 DEF PipelineInv, BatchComesNext, Inserting, RangesAreOnChain
<1>8. NoOtherHoles'
  BY <1>2, <1>3, <1>4, <1>6 DEF NoOtherHoles
<1>9. /\ cleaning' \in [step : {"idle", "due", "reading", "deleting"}, limit : 0 .. latest]
      /\ cleaning'.limit = cleaning.limit
  BY <1>1, <1>6 DEF TypeOK
<1>10. LimitIsAccounted'
  BY <1>2, <1>4, <1>6, <1>9 DEF PipelineInv, LimitIsAccounted, Accounted
<1>11. CASE CommitFails
  <2>1. /\ committer' = [committer EXCEPT !.step = "idle", !.blocks = {}, !.failed = FALSE]
        /\ UNCHANGED <<publishing, unreported>>
    BY <1>11 DEF CommitFails, publisherVars
  <2>2. TypeOK'
    BY <1>1, <1>2, <1>3, <1>4, <1>9, <2>1 DEF TypeOK
  <2>3. committer'.last = committer.last
    BY <1>1, <2>1 DEF TypeOK
  <2>4. LastIsAccounted' /\ PublishedAreCommitted' /\ OnlyFalseSuccessHalts'
    BY <1>2, <1>4, <1>5, <2>1, <2>3
       DEF PipelineInv, LastIsAccounted, Accounted, PublishedAreCommitted, OnlyFalseSuccessHalts
  <2> QED BY <1>7, <1>8, <1>10, <2>2, <2>4 DEF PipelineInv
<1>12. CASE CommitSucceeds
  <2>1. /\ unreported' = unreported \cup (Batch \ committed)
        /\ committer' = [committer EXCEPT !.step = "idle", !.blocks = {}, !.failed = FALSE,
                                          !.last = Max(Batch)]
        /\ publishing' = IF publishing = {} THEN Batch ELSE publishing
    BY <1>1, <1>12 DEF CommitSucceeds
  <2>2. Max(Batch) \in Batch /\ \A n \in Batch : n <= Max(Batch)
    BY <1>1, <1>2, MaxOfBlocks
  <2>3. TypeOK'
    BY <1>1, <1>2, <1>3, <1>4, <1>9, <2>1, <2>2 DEF TypeOK
  <2>4. committer'.last = Max(Batch)
    BY <1>1, <2>1 DEF TypeOK
  <2>5. \A n \in 0 .. Max(Batch) : n \in committed \cup torn \cup Batch
    BY <2>2 DEF PipelineInv, NoOtherHoles
  <2>6. LastIsAccounted'
    BY <1>2, <1>4, <2>1, <2>4, <2>5 DEF LastIsAccounted, Accounted
  <2>7. PublishedAreCommitted'
    BY <1>2, <1>4, <2>1 DEF PipelineInv, PublishedAreCommitted
  <2>8. OnlyFalseSuccessHalts'
    <3>1. \A n \in committed : n <= Highest
      BY <1>1, HighestIsMax
    <3>2. Highest \in 0 .. latest /\ Max(Batch) \in 0 .. latest
      BY <1>1, <1>2, <2>2, HighestIsMax
    <3>3. ASSUME Max(Batch) > Highest PROVE unreported' # {}
      <4>1. Max(Batch) \notin committed
        BY <1>1, <3>1, <3>2, <3>3
      <4> QED BY <2>1, <2>2, <4>1
    <3> QED BY <1>5, <2>4, <3>3 DEF OnlyFalseSuccessHalts
  <2> QED BY <1>7, <1>8, <1>10, <2>3, <2>6, <2>7, <2>8 DEF PipelineInv
<1> QED BY <1>11, <1>12

\* A restart: the memory is new, and the cleanup it begins with is that of the table.
LEMMA Restart ==
    ASSUME PipelineInv, Crash
    PROVE  /\ PipelineInv'
           /\ \A n \in staged \ staged' : n \in committed \cup torn'
<1>1. TypeOK /\ latest \in Nat
  BY PipelineAssumption DEF PipelineInv, TypeOK, Blocks
<1>2. /\ Highest \in 0 .. latest
      /\ Highest > 0 => Highest \in committed
  BY <1>1, HighestIsMax
<1>3. torn' = torn \cup Holes(Batch)
  BY DEF Crash, Batch, Inserting, Holes
<1>4. /\ Holes(Batch) \subseteq 0 .. latest
      /\ \A m \in committed : \A n \in 0 .. m : n \in committed \cup torn \cup Holes(Batch)
  BY EndOfBatch
<1>5. /\ staged' = Kept(Highest)
      /\ monitor' = "none"
      /\ mail' = [l \in Listeners |-> "none"]
      /\ poller' = NewPoller
      /\ worker' = [w \in Workers |-> [step |-> "idle", blocks |-> {}]]
      /\ committer' = NewCommitter
      /\ publishing' = {} /\ lastPublished' = Highest /\ cleaning' = NoCleanup
      /\ UNCHANGED <<latest, committed, unreported>>
  BY DEF Crash
<1>6. staged' \subseteq staged
  BY <1>5 DEF Kept
<1>7. TypeOK'
  <2>1. cleaning' \in [step : {"idle", "due", "reading", "deleting"}, limit : 0 .. latest]
    BY <1>1, <1>5 DEF NoCleanup
  <2>2. /\ mail' \in [Listeners -> Modes] /\ monitor' \in Modes
        /\ worker' \in [Workers -> [step : {"idle", "ranged", "polling"}, blocks : SUBSET Blocks]]
    BY <1>5 DEF Modes
  <2> QED BY <1>1, <1>2, <1>3, <1>4, <1>5, <1>6, <2>1, <2>2, RestartIsTyped DEF TypeOK
<1>8. /\ committer'.step = "idle" /\ committer'.last = Highest /\ committer'.pending = {}
      /\ Batch' = {} /\ Highest' = Highest
  BY <1>5 DEF NewCommitter, Batch, Inserting, Highest
<1>9. BatchComesNext' /\ RangesAreOnChain'
  BY <1>5, <1>8 DEF BatchComesNext, Inserting, RangesAreOnChain
<1>10. NoOtherHoles'
  BY <1>3, <1>4, <1>5, <1>8 DEF NoOtherHoles
<1>11. Highest > 0 => \A n \in 0 .. Highest : n \in committed \cup torn'
  BY <1>2, <1>3, <1>4
<1>12. LastIsAccounted' /\ LimitIsAccounted' /\ PublishedAreCommitted' /\ OnlyFalseSuccessHalts'
  BY <1>2, <1>5, <1>8, <1>11
     DEF LastIsAccounted, LimitIsAccounted, NoCleanup, Accounted, PublishedAreCommitted, OnlyFalseSuccessHalts
<1>13. \A n \in staged \ staged' : n \in committed \cup torn'
  <2>1. \A n \in staged \ staged' : Highest # 0 /\ n <= Highest /\ n \in Nat
    BY <1>1, <1>2, <1>5 DEF Kept, TypeOK
  <2> QED BY <1>2, <1>11, <2>1
<1> QED BY <1>7, <1>9, <1>10, <1>12, <1>13 DEF PipelineInv

-----------------------------------------------------------------------------
(* All steps.                                                               *)

\* Steps that leave the main table, the batch and the publisher's batch alone.
LEMMA NothingCommitted ==
    ASSUME PipelineInv, TypeOK', RangesAreOnChain',
           UNCHANGED <<committed, publishing, torn, unreported>>, latest <= latest',
           Batch' = Batch, Inserting' = Inserting,
           committer'.blocks = committer.blocks \/ ~ Inserting,
           committer'.pending \subseteq committer.pending, committer'.last = committer.last,
           \/ cleaning' = cleaning
           \/ cleaning'.limit <= cleaning.limit \/ cleaning'.limit <= committer.last
    PROVE  PipelineInv'
<1>1. latest \in Nat /\ latest' \in Nat /\ 0 .. latest \subseteq 0 .. latest'
  BY PipelineAssumption DEF PipelineInv, TypeOK, Blocks
<1>2. BatchComesNext'
  BY <1>1 DEF PipelineInv, BatchComesNext
<1>3. NoOtherHoles'
  BY DEF PipelineInv, NoOtherHoles
<1>4. LastIsAccounted' /\ PublishedAreCommitted' /\ OnlyFalseSuccessHalts'
  BY DEF PipelineInv, LastIsAccounted, Accounted, PublishedAreCommitted, OnlyFalseSuccessHalts, Highest
<1>5. LimitIsAccounted'
  <2>1. cleaning.limit \in Nat /\ cleaning'.limit \in Nat /\ committer.last \in Nat
    BY <1>1 DEF PipelineInv, TypeOK
  <2> QED BY <2>1 DEF PipelineInv, LimitIsAccounted, LastIsAccounted, Accounted
<1> QED BY <1>2, <1>3, <1>4, <1>5 DEF PipelineInv

LEMMA PipelineInvInit == Init => PipelineInv
<1> SUFFICES ASSUME Init PROVE PipelineInv
  OBVIOUS
<1>1. /\ latest \in Blocks /\ latest \in Nat
      /\ staged = {} /\ committed = {} /\ torn = {} /\ unreported = {}
      /\ monitor = "none" /\ mail = [l \in Listeners |-> "none"]
      /\ worker = [w \in Workers |-> [step |-> "idle", blocks |-> {}]]
      /\ poller = NewPoller /\ committer = NewCommitter
      /\ publishing = {} /\ lastPublished = Highest /\ cleaning = NoCleanup
  BY PipelineAssumption DEF Init, Blocks
<1>2. Highest = 0
  BY <1>1 DEF Highest
<1>3. /\ poller = [mode |-> "none", running |-> TRUE, last |-> -1]
      /\ committer = [mode |-> "none", step |-> "idle", blocks |-> {}, pending |-> {},
                      failed |-> FALSE, last |-> 0]
  BY <1>1, <1>2 DEF NewPoller, NewCommitter
<1>4. TypeOK
  <2>1. poller \in [mode : Modes, last : -1 .. latest, running : BOOLEAN]
    BY <1>1, <1>3 DEF Modes
  <2>2. committer \in [mode : Modes, step : {"idle", "filling", "inserting"}, blocks : SUBSET Nat,
                       pending : SUBSET Blocks, failed : BOOLEAN, last : 0 .. latest]
    BY <1>1, <1>3 DEF Modes
  <2>3. worker \in [Workers -> [step : {"idle", "ranged", "polling"}, blocks : SUBSET Blocks]]
    BY <1>1
  <2>4. /\ mail \in [Listeners -> Modes] /\ monitor \in Modes
        /\ cleaning \in [step : {"idle", "due", "reading", "deleting"}, limit : 0 .. latest]
    BY <1>1 DEF Modes, NoCleanup
  <2>5. lastPublished \in 0 .. latest
    BY <1>1, <1>2
  <2> QED BY <1>1, <2>1, <2>2, <2>3, <2>4, <2>5 DEF TypeOK
<1>5. Batch = {} /\ ~ Inserting
  BY <1>3 DEF Batch, Inserting
<1> QED
  BY <1>1, <1>2, <1>3, <1>4, <1>5
     DEF PipelineInv, RangesAreOnChain, BatchComesNext, NoOtherHoles, LastIsAccounted,
         LimitIsAccounted, NoCleanup, PublishedAreCommitted, OnlyFalseSuccessHalts

LEMMA PipelineInvStep == PipelineInv /\ [Next]_vars => PipelineInv'
<1> SUFFICES ASSUME PipelineInv, [Next]_vars PROVE PipelineInv'
  OBVIOUS
<1>1. TypeOK /\ latest \in Nat /\ RangesAreOnChain
  BY PipelineAssumption DEF PipelineInv, TypeOK, Blocks
<1>2. CASE ChainGrows
  <2>1. /\ latest' = latest + 1 /\ latest' \in Blocks
        /\ UNCHANGED <<tables, publisherVars, monitor, mail, poller, worker, committer, history>>
    BY <1>1, <1>2, PipelineAssumption DEF ChainGrows, Blocks
  <2>2. 0 .. latest \subseteq 0 .. latest' /\ -1 .. latest \subseteq -1 .. latest' /\ latest <= latest'
    BY <1>1, <2>1
  <2>3. TypeOK'
    BY <1>1, <2>1, <2>2 DEF TypeOK, tables, publisherVars, history
  <2>4. RangesAreOnChain'
    BY <1>1, <2>1, <2>2 DEF RangesAreOnChain
  <2> QED BY <2>1, <2>2, <2>3, <2>4, NothingCommitted
             DEF tables, publisherVars, history, Batch, Inserting
<1>3. CASE MonitorChecks
  <2>1. TypeOK'
    BY <1>1, <1>3 DEF MonitorChecks, TypeOK, WorkMode, Modes, tables, publisherVars, history
  <2> QED BY <1>1, <1>3, <2>1, NothingCommitted
             DEF MonitorChecks, tables, publisherVars, history, Batch, Inserting, RangesAreOnChain
<1>4. CASE PollerHearsMode
  <2>1. Highest \in -1 .. latest
    BY <1>1, HighestIsMax
  <2>2. TypeOK'
    BY <1>1, <1>4, <2>1
       DEF PollerHearsMode, TypeOK, Listeners, Modes, tables, publisherVars, history
  <2> QED BY <1>1, <1>4, <2>2, NothingCommitted
             DEF PollerHearsMode, tables, publisherVars, history, Batch, Inserting, RangesAreOnChain
<1>5. ASSUME NEW w \in Workers, WorkerStep(w) PROVE PipelineInv'
  <2>1. UNCHANGED <<latest, committed, publishing, cleaning, torn, unreported, committer>>
    BY <1>5 DEF WorkerStep, GetNextBlockRange, StartPoll, PollEnds, tables, publisherVars, history
  <2> QED BY <1>1, <1>5, <2>1, WorkersKeepTypes, NothingCommitted DEF Batch, Inserting
<1>6. CASE CommitterHearsMode
  <2>1. TypeOK'
    BY <1>1, <1>6
       DEF CommitterHearsMode, TypeOK, Listeners, Modes, tables, publisherVars, history
  <2> QED BY <1>1, <1>6, <2>1, NothingCommitted
             DEF CommitterHearsMode, TypeOK, tables, publisherVars, history, Batch, Inserting,
                 RangesAreOnChain
<1>7. CASE CommitStaged
  <2>1. Present \in SUBSET (0 .. latest) /\ Present \subseteq First .. Last
    BY <1>1 DEF Present, TypeOK
  <2> QED BY <1>7, <2>1, BatchBegins DEF CommitStaged, Ticks
<1>8. CASE PollMissing
  <2>1. First \in Nat
    BY <1>1, HighestIsMax DEF First
  <2> DEFINE M == {n \in First .. Last : n < First + BlocksPerPoll /\ \A m \in Present : n < m}
  <2>2. committer' = [committer EXCEPT !.step = "filling", !.blocks = M] /\ M \in SUBSET Nat
    <3>1. M \in SUBSET Nat
      <4>1. Last \in Int
        BY <2>1, PipelineAssumption DEF Last
      <4> QED BY <2>1, <4>1
    <3>2. committer' = [committer EXCEPT !.step = "filling", !.blocks = M]
      BY <1>8 DEF PollMissing
    <3> QED BY <3>1, <3>2
  <2> HIDE DEF M
  <2>3. /\ UNCHANGED <<latest, tables, publisherVars, monitor, mail, poller, worker, history>>
        /\ committer.step = "idle"
    BY <1>8 DEF PollMissing, Ticks
  <2>4. TypeOK'
    BY <1>1, <2>2, <2>3 DEF TypeOK, tables, publisherVars, history
  <2> QED BY <1>1, <2>2, <2>3, <2>4, NothingCommitted
             DEF TypeOK, tables, publisherVars, history, Batch, Inserting, RangesAreOnChain
<1>9. CASE PollMissingEnds
  <2>1. staged' \subseteq 0 .. latest
    BY <1>1, <1>9 DEF PollMissingEnds, Fetched, TypeOK
  <2>2. TypeOK'
    BY <1>1, <1>9, <2>1 DEF PollMissingEnds, TypeOK, publisherVars, history
  <2> QED BY <1>1, <1>9, <2>2, NothingCommitted
             DEF PollMissingEnds, TypeOK, publisherVars, history, Batch, Inserting, RangesAreOnChain
<1>10. CASE CommitLive
  <2>1. PICK p \in LivePoll : First \in p.got /\ InsertBlockData(Sequential(p.got))
    BY <1>10 DEF CommitLive
  <2>2. p.got \in SUBSET (0 .. latest) /\ p.got \subseteq First .. Last
    BY DEF LivePoll, Asked
  <2> QED BY <1>10, <2>1, <2>2, BatchBegins DEF CommitLive, Ticks
<1>11. ASSUME NEW n \in committer.pending, InsertBlock(n) PROVE PipelineInv'
  BY <1>11, BlockGoesIn
<1>12. ASSUME NEW n \in committer.pending, InsertBlockFails(n) PROVE PipelineInv'
  <2>1. InFlight \ {n} \subseteq committer.pending
    BY DEF InFlight
  <2>2. committer' = [committer EXCEPT !.pending = InFlight \ {n}, !.failed = TRUE]
    BY <1>12 DEF InsertBlockFails
  <2>3. UNCHANGED <<latest, tables, publisherVars, monitor, mail, poller, worker, history>>
    BY <1>12 DEF InsertBlockFails
  <2>4. TypeOK'
    BY <1>1, <2>1, <2>2, <2>3 DEF TypeOK, tables, publisherVars, history
  <2> QED BY <1>1, <2>1, <2>2, <2>3, <2>4, NothingCommitted
             DEF TypeOK, tables, publisherVars, history, Batch, Inserting, RangesAreOnChain
<1>13. CASE CommitFails \/ CommitSucceeds
  BY <1>13, BatchEnds
<1>14. CASE PublishEnds
  <2>1. publishing # {} /\ publishing \in SUBSET (0 .. latest)
    BY <1>1, <1>14 DEF PublishEnds, TypeOK
  <2>2. Max(publishing) \in 0 .. latest
    BY <1>1, <2>1, MaxOfBlocks
  <2>3. /\ cleaning' \in [step : {"idle", "due", "reading", "deleting"}, limit : 0 .. latest]
        /\ cleaning'.limit = cleaning.limit
    BY <1>1, <1>14 DEF PublishEnds, TriggerCleanup, TypeOK
  <2>4. TypeOK'
    BY <1>1, <1>14, <2>2, <2>3 DEF PublishEnds, TypeOK, tables, history
  <2>5. /\ UNCHANGED <<latest, committed, torn, unreported, committer, worker>> /\ publishing' = {}
        /\ Batch' = Batch /\ Inserting' = Inserting /\ Highest' = Highest
    BY <1>14 DEF PublishEnds, tables, history, Batch, Inserting, Highest
  <2> QED
    BY <2>3, <2>4, <2>5
       DEF PipelineInv, RangesAreOnChain, BatchComesNext, NoOtherHoles, LastIsAccounted,
           LimitIsAccounted, Accounted, PublishedAreCommitted, OnlyFalseSuccessHalts
<1>15. CASE CleanupReadsCommitted \/ CleanupReadsPublished \/ CleanupProcessedStagingBlocks
  <2>1. /\ cleaning' \in [step : {"idle", "due", "reading", "deleting"}, limit : 0 .. latest]
        /\ cleaning'.limit <= cleaning.limit \/ cleaning'.limit <= committer.last
    BY <1>1, <1>15 DEF CleanupReadsCommitted, CleanupReadsPublished, CleanupProcessedStagingBlocks,
                       NoCleanup, TypeOK
  <2>2. /\ UNCHANGED <<latest, committed, publishing, lastPublished, monitor, mail, poller, worker,
                       committer, torn, unreported>>
        /\ staged' \subseteq staged
    BY <1>15 DEF CleanupReadsCommitted, CleanupReadsPublished, CleanupProcessedStagingBlocks,
                 Kept, tables, history
  <2>3. TypeOK'
    BY <1>1, <2>1, <2>2 DEF TypeOK
  <2> QED BY <1>1, <2>1, <2>2, <2>3, NothingCommitted DEF Batch, Inserting, RangesAreOnChain
<1>16. CASE Crash
  BY <1>16, Restart
<1>17. CASE UNCHANGED vars
  <2>1. TypeOK'
    BY <1>1, <1>17 DEF vars, TypeOK
  <2> QED BY <1>1, <1>17, <2>1, NothingCommitted DEF vars, Batch, Inserting, RangesAreOnChain
<1> QED
  BY <1>2, <1>3, <1>4, <1>5, <1>6, <1>7, <1>8, <1>9, <1>10, <1>11, <1>12, <1>13, <1>14, <1>15,
     <1>16, <1>17 DEF Next, CommitterStep

-----------------------------------------------------------------------------
(* What holds, for every chain, any number of workers and any batch size.   *)

\* The inductive invariant holds in every reachable state.
THEOREM PipelineInvariant == Spec => []PipelineInv
BY PipelineInvInit, PipelineInvStep, PTL DEF Spec

\* No range, batch or counter leaves the chain, however late a range is used.
THEOREM PipelineTypeCorrect == Spec => []TypeOK
<1>1. PipelineInv => TypeOK
  BY DEF PipelineInv
<1> QED BY <1>1, PipelineInvariant, PTL

\* Lost answers, full channels, mode changes and restarts make no hole in the
\* main table: only an insertion that committed part of its batch does.
THEOREM HolesAreTorn == Spec => []HolesComeFromTornInserts
<1>1. PipelineInv => HolesComeFromTornInserts
  BY DEF PipelineInv, NoOtherHoles, HolesComeFromTornInserts, Batch, Inserting
<1> QED BY <1>1, PipelineInvariant, PTL

\* What goes to Kafka is in the tables, or an insertion has lost it.
THEOREM PublishedCommitted == Spec => []PublishedAreCommitted
<1>1. PipelineInv => PublishedAreCommitted
  BY DEF PipelineInv
<1> QED BY <1>1, PipelineInvariant, PTL

\* The committer's memory gets ahead of the table by a false success alone.
THEOREM HaltsByFalseSuccess == Spec => []OnlyFalseSuccessHalts
<1>1. PipelineInv => OnlyFalseSuccessHalts
  BY DEF PipelineInv
<1> QED BY <1>1, PipelineInvariant, PTL

\* The cleanup, in a goroutine or after a restart, deletes no staged block that
\* was neither committed nor lost by an insertion.
THEOREM StagedIsKept == Spec => StagedUntilCommitted
<1> DEFINE Keeps == \A n \in staged \ staged' : n \in committed \cup torn' \cup unreported
<1>1. PipelineInv /\ [Next]_vars => Keeps
  <2> SUFFICES ASSUME PipelineInv, [Next]_vars PROVE Keeps
    OBVIOUS
  <2>1. staged \subseteq staged' => Keeps
    OBVIOUS
  <2>2. CASE CleanupProcessedStagingBlocks
    <3>1. /\ staged' = Kept(cleaning.limit) /\ UNCHANGED torn
          /\ TypeOK /\ latest \in Nat
      BY <2>2, PipelineAssumption
         DEF CleanupProcessedStagingBlocks, history, PipelineInv, TypeOK, Blocks
    <3>2. \A n \in staged \ staged' : cleaning.limit > 0 /\ n \in 0 .. cleaning.limit
      BY <3>1 DEF Kept, TypeOK
    <3> QED BY <3>1, <3>2 DEF PipelineInv, LimitIsAccounted, Accounted
  <2>3. CASE Crash
    BY <2>3, Restart
  <2>4. ASSUME NEW w \in Workers, WorkerStep(w) PROVE Keeps
    BY <2>1, <2>4 DEF WorkerStep, GetNextBlockRange, StartPoll, PollEnds, tables
  <2>5. CASE CommitterStep
    BY <2>1, <2>5
       DEF CommitterStep, CommitterHearsMode, CommitStaged, PollMissing, PollMissingEnds, CommitLive,
           InsertBlock, InsertBlockFails, CommitFails, CommitSucceeds, tables
  <2>6. CASE \/ ChainGrows \/ MonitorChecks \/ PollerHearsMode \/ PublishEnds
             \/ CleanupReadsCommitted \/ CleanupReadsPublished \/ UNCHANGED vars
    BY <2>1, <2>6 DEF ChainGrows, MonitorChecks, PollerHearsMode, PublishEnds,
                      CleanupReadsCommitted, CleanupReadsPublished, vars, tables
  <2> HIDE DEF Keeps
  <2> QED BY <2>2, <2>3, <2>4, <2>5, <2>6 DEF Next
<1> QED BY <1>1, PipelineInvariant, PTL DEF Spec, StagedUntilCommitted
=============================================================================
