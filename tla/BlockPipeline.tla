----------------------------- MODULE BlockPipeline -----------------------------
(***************************************************************************)
(* The pipeline that brings the chain into the indexer's tables: pollers   *)
(* stage blocks, the committer moves them to the main tables, a publisher  *)
(* sends them to Kafka, and a monitor tells poller and committer whether   *)
(* to work from staging ("backfill") or at the head of the chain ("live"). *)
(*                                                                         *)
(* Goroutines share the tables block_data and blocks, two atomic counters  *)
(* and two channels of one element; nothing else orders them.  The memory  *)
(* of all of them is lost in a crash, the tables are not.                  *)
(*                                                                         *)
(* Block numbers start at 0, as fromBlock does, and untilBlock is 0: no    *)
(* limit.  The publisher runs in its default mode.                         *)
(***************************************************************************)
EXTENDS Integers, FiniteSets, FiniteSetsExt

CONSTANTS
    Head,               \* bound: the last block the chain gets
    Workers,            \* poll workers, as many as parallelPollers
    BlocksPerPoll,
    BlocksPerCommit,
    LiveModeThreshold,
    Connections         \* blocks that are inserted at the same time

ASSUME PipelineAssumption ==
    /\ Head \in Nat
    /\ BlocksPerPoll \in Nat \ {0}
    /\ BlocksPerCommit \in Nat \ {0}
    /\ LiveModeThreshold \in Nat \ {0}
    /\ Connections \in Nat \ {0}

VARIABLES
    latest,         \* number of the node's last block
    staged,         \* block_data
    committed,      \* blocks
    monitor,        \* WorkModeMonitor.currentMode
    mail,           \* what is in each work mode channel
    poller,         \* the poller: its mode, lastPolledBlock, whether its workers run
    worker,         \* what each poll worker is doing
    committer,      \* the committer: its mode, lastCommittedBlock and current batch
    publishing,     \* batch of the publish goroutine, empty when none runs
    lastPublished,  \* lastPublishedBlock
    cleaning,       \* the cleanup goroutine: where it is, and the counters it has read
    torn,           \* history: blocks left behind below a block of their own batch
    unreported      \* history: blocks not inserted by an insertion that reported success

tables == <<staged, committed>>
publisherVars == <<publishing, lastPublished, cleaning>>
history == <<torn, unreported>>
vars == <<latest, staged, committed, monitor, mail, poller, worker,
          committer, publishing, lastPublished, cleaning, torn, unreported>>

Blocks == 0 .. Head
Modes == {"none", "backfill", "live"}
Listeners == {"poller", "committer"}

TypeOK ==
    /\ latest \in Blocks
    /\ staged \subseteq 0 .. latest
    /\ committed \subseteq 0 .. latest
    /\ monitor \in Modes
    /\ mail \in [Listeners -> Modes]
    /\ poller \in [mode : Modes, last : -1 .. latest, running : BOOLEAN]
    /\ worker \in [Workers -> [step : {"idle", "ranged", "polling"}, blocks : SUBSET Blocks]]
    /\ committer \in [mode : Modes, step : {"idle", "filling", "inserting"},
                      blocks : SUBSET Nat, pending : SUBSET Blocks, failed : BOOLEAN,
                      last : 0 .. latest]
    /\ publishing \subseteq 0 .. latest
    /\ lastPublished \in 0 .. latest
    /\ cleaning \in [step : {"idle", "due", "reading", "deleting"}, limit : 0 .. latest]
    /\ torn \subseteq 0 .. latest
    /\ unreported \subseteq 0 .. latest

-----------------------------------------------------------------------------
\* GetMaxBlockNumber: the empty table and block 0 alone are both reported as 0
Highest == IF committed = {} THEN 0 ELSE Max(committed)

\* Mutant of Kept: the limit is taken for the first block to keep.
KeptPastLimit(limit) == {n \in staged : limit = 0 \/ n > limit + 1}

\* 0 is no limit: a counter was not set yet
Kept(limit) == {n \in staged : limit = 0 \/ n > limit}

NoCleanup == [step |-> "idle", limit |-> 0]

\* what a batch leaves behind below its own highest committed block
Holes(batch) ==
    {n \in batch \ committed : \E m \in batch \cap committed : n < m}

\* a new poller goes on after the main table, else after staging, else from the start
NewPoller ==
    [mode |-> "none", running |-> TRUE,
     last |-> IF Highest > 0 THEN Highest
              ELSE IF staged \ {0} # {} THEN Max(staged) ELSE -1]

NewCommitter ==
    [mode |-> "none", step |-> "idle", blocks |-> {}, pending |-> {}, failed |-> FALSE,
     last |-> Highest]

Init ==
    /\ latest \in Blocks
    /\ staged = {} /\ committed = {}
    /\ monitor = "none"
    /\ mail = [l \in Listeners |-> "none"]
    /\ poller = NewPoller
    /\ worker = [w \in Workers |-> [step |-> "idle", blocks |-> {}]]
    /\ committer = NewCommitter
    /\ publishing = {} /\ lastPublished = Highest /\ cleaning = NoCleanup
    /\ torn = {} /\ unreported = {}

-----------------------------------------------------------------------------
(* The chain, the monitor, and the loops that hear of a new mode.          *)

ChainGrows ==
    /\ latest < Head
    /\ latest' = latest + 1
    /\ UNCHANGED <<tables, publisherVars, monitor, mail, poller, worker, committer, history>>

WorkMode ==
    IF Highest = 0 \/ latest - Highest >= LiveModeThreshold THEN "backfill" ELSE "live"

\* A full channel drops the message, and the monitor does not send it again.
MonitorChecks ==
    /\ monitor # WorkMode
    /\ monitor' = WorkMode
    /\ mail' = [l \in Listeners |-> IF mail[l] = "none" THEN WorkMode ELSE mail[l]]
    /\ UNCHANGED <<latest, tables, publisherVars, poller, worker, committer, history>>

PollerHearsMode ==
    /\ mail["poller"] # "none"
    /\ mail' = [mail EXCEPT !["poller"] = "none"]
    /\ poller' = [poller EXCEPT
          !.mode = mail["poller"],
          !.last = IF poller.mode = "live" /\ mail["poller"] = "backfill" THEN Highest ELSE @]
    /\ UNCHANGED <<latest, tables, publisherVars, monitor, worker, committer, history>>

CommitterHearsMode ==
    /\ committer.step = "idle"
    /\ mail["committer"] # "none"
    /\ mail' = [mail EXCEPT !["committer"] = "none"]
    /\ committer' = [committer EXCEPT !.mode = mail["committer"]]
    /\ UNCHANGED <<latest, tables, publisherVars, monitor, poller, worker, history>>

-----------------------------------------------------------------------------
(* A poll worker: it computes a range, notes the range's end as polled, and *)
(* stages what the node returned.                                           *)

\* Mutant of GetNextBlockRange: the range is not cut at the last block of the node.
GetRangeBeyondLatest(w) ==
    /\ worker[w].step = "idle"
    /\ poller.running
    /\ poller.mode = "backfill"
    /\ poller.last < latest
    /\ worker' = [worker EXCEPT ![w] =
          [step |-> "ranged",
           blocks |-> {n \in Blocks : poller.last < n /\ n <= poller.last + BlocksPerPoll}]]
    /\ UNCHANGED <<latest, tables, publisherVars, monitor, mail, poller, committer, history>>

\* Two workers may compute the same range: lastPolledBlock is set later.
GetNextBlockRange(w) ==
    /\ worker[w].step = "idle"
    /\ poller.running
    /\ poller.mode = "backfill"
    /\ poller.last < latest
    /\ worker' = [worker EXCEPT ![w] =
          [step |-> "ranged",
           blocks |-> {n \in 0 .. latest : poller.last < n /\ n <= poller.last + BlocksPerPoll}]]
    /\ UNCHANGED <<latest, tables, publisherVars, monitor, mail, poller, committer, history>>

StartPoll(w) ==
    /\ worker[w].step = "ranged"
    /\ poller.running
    /\ poller' = [poller EXCEPT !.last = Max(worker[w].blocks)]
    /\ worker' = [worker EXCEPT ![w].step = "polling"]
    /\ UNCHANGED <<latest, tables, publisherVars, monitor, mail, committer, history>>

\* what the node returns of the blocks it is asked for, after the retries
Fetched(blocks) == SUBSET (blocks \cap 0 .. latest)

\* A poll that returns no block at all counts as the end of all polling.
PollEnds(w) ==
    /\ worker[w].step = "polling"
    /\ \E got \in Fetched(worker[w].blocks) :
          /\ staged' \in {staged, staged \cup got}
          /\ poller' = [poller EXCEPT !.running = @ /\ got # {}]
    /\ worker' = [worker EXCEPT ![w] = [step |-> "idle", blocks |-> {}]]
    /\ UNCHANGED <<latest, committed, publisherVars, monitor, mail, committer, history>>

-----------------------------------------------------------------------------
(* A tick of the committer.                                                 *)

\* the first block to commit, and the batch that starts there
First == IF Highest = 0 THEN 0 ELSE Highest + 1
Last == First + BlocksPerCommit - 1
Present == staged \cap First .. Last

\* Mutant of Ticks: the table must be ahead of what the committer remembers.
TicksOnlyWhenAhead(mode) ==
    /\ committer.step = "idle"
    /\ committer.mode = mode
    /\ Highest = 0 \/ Highest > committer.last

\* the tick goes on only if the table has what the committer remembers
Ticks(mode) ==
    /\ committer.step = "idle"
    /\ committer.mode = mode
    /\ Highest = 0 \/ Highest >= committer.last

\* Mutant of Sequential: a gap inside the batch does not end it.
SequentialAcrossGaps(blocks) == blocks

Sequential(blocks) == {n \in blocks : \A m \in First .. n : m \in blocks}

InsertBlockData(blocks) ==
    committer' = [committer EXCEPT !.step = "inserting", !.blocks = blocks,
                                   !.pending = blocks, !.failed = FALSE]

CommitStaged ==
    /\ Ticks("backfill")
    /\ First \in Present
    /\ InsertBlockData(Sequential(Present))
    /\ UNCHANGED <<latest, tables, publisherVars, monitor, mail, poller, worker, history>>

\* What is missing is polled when a later block shows that it is.
PollMissing ==
    /\ Ticks("backfill")
    /\ First \notin Present
    /\ Present # {} \/ \E n \in staged \ {0} : n >= Last
    /\ committer' = [committer EXCEPT !.step = "filling", !.blocks =
          {n \in First .. Last : n < First + BlocksPerPoll /\ \A m \in Present : n < m}]
    /\ UNCHANGED <<latest, tables, publisherVars, monitor, mail, poller, worker, history>>

PollMissingEnds ==
    /\ committer.step = "filling"
    /\ \E got \in Fetched(committer.blocks) : staged' \in {staged, staged \cup got}
    /\ committer' = [committer EXCEPT !.step = "idle", !.blocks = {}]
    /\ UNCHANGED <<latest, committed, publisherVars, monitor, mail, poller, worker, history>>

\* A live committer asks the node itself for what it has of the batch.
Asked == First .. Last \cap 0 .. latest

\* A block that neither arrived nor failed was in a call that failed as a whole:
\* one block of the call is tried again, of the others nothing is reported.
LivePoll == {p \in [got : SUBSET Asked, failed : SUBSET Asked] : p.got \cap p.failed = {}}

\* A block reported as failed ends the tick with nothing committed; so does a
\* first block that is missing.
CommitLive ==
    /\ Ticks("live")
    /\ \E p \in LivePoll :
          /\ p.failed = {}
          /\ First \in p.got
          /\ InsertBlockData(Sequential(p.got))
    /\ UNCHANGED <<latest, tables, publisherVars, monitor, mail, poller, worker, history>>

-----------------------------------------------------------------------------
(* InsertBlockData: one transaction per block, some at the same time.       *)

InFlight ==
    {n \in committer.pending : Cardinality({m \in committer.pending : m < n}) < Connections}

InsertBlock(n) ==
    /\ committer.step = "inserting"
    /\ n \in InFlight
    /\ committed' = committed \cup {n}
    /\ committer' = [committer EXCEPT !.pending = @ \ {n}]
    /\ UNCHANGED <<latest, staged, publisherVars, monitor, mail, poller, worker, history>>

\* An error cancels the blocks that have not begun.
InsertBlockFails(n) ==
    /\ committer.step = "inserting"
    /\ n \in InFlight
    /\ committer' = [committer EXCEPT !.pending = InFlight \ {n}, !.failed = TRUE]
    /\ UNCHANGED <<latest, tables, publisherVars, monitor, mail, poller, worker, history>>

InsertionEnds ==
    /\ committer.step = "inserting"
    /\ committer.pending = {}
    /\ torn' = torn \cup Holes(committer.blocks)

\* Mutant of CommitFails: the committer remembers the batch that failed.
CommitFailsButRemembers ==
    /\ InsertionEnds
    /\ committer.failed
    /\ committer' = [committer EXCEPT !.step = "idle", !.blocks = {}, !.failed = FALSE,
                                      !.last = Max(committer.blocks)]
    /\ UNCHANGED <<latest, tables, publisherVars, monitor, mail, poller, worker, unreported>>

\* Mutant of CommitFails: the batch is published although it failed.
CommitFailsButPublishes ==
    /\ InsertionEnds
    /\ committer.failed
    /\ committer' = [committer EXCEPT !.step = "idle", !.blocks = {}, !.failed = FALSE]
    /\ publishing' = committer.blocks
    /\ UNCHANGED <<latest, tables, lastPublished, cleaning, monitor, mail, poller, worker,
                   unreported>>

CommitFails ==
    /\ InsertionEnds
    /\ committer.failed
    /\ committer' = [committer EXCEPT !.step = "idle", !.blocks = {}, !.failed = FALSE]
    /\ UNCHANGED <<latest, tables, publisherVars, monitor, mail, poller, worker, unreported>>

\* one cleanup at a time: a trigger that comes during one is dropped
TriggerCleanup ==
    cleaning' = IF cleaning.step = "idle" THEN [cleaning EXCEPT !.step = "due"] ELSE cleaning

\* With an error and the end of all inserts both ready, select may take the
\* end: then the failed insertion is a success for the committer too.
CommitSucceeds ==
    /\ InsertionEnds
    /\ unreported' = unreported \cup (committer.blocks \ committed)
    /\ committer' = [committer EXCEPT !.step = "idle", !.blocks = {}, !.failed = FALSE,
                                      !.last = Max(committer.blocks)]
    /\ publishing' = IF publishing = {} THEN committer.blocks ELSE publishing
    /\ TriggerCleanup
    /\ UNCHANGED <<latest, tables, lastPublished, monitor, mail, poller, worker>>

-----------------------------------------------------------------------------
(* What the committer leaves to goroutines, and the end of all of them.     *)

\* A message that Kafka refuses is logged, and counts as published.
PublishEnds ==
    /\ publishing # {}
    /\ lastPublished' = Max(publishing)
    /\ publishing' = {}
    /\ TriggerCleanup
    /\ UNCHANGED <<latest, tables, monitor, mail, poller, worker, committer, history>>

\* The cleanup reads one counter, then the other, then deletes; both go on rising.
CleanupReadsCommitted ==
    /\ cleaning.step = "due"
    /\ cleaning' = [step |-> "reading", limit |-> committer.last]
    /\ UNCHANGED <<latest, tables, publishing, lastPublished,
                   monitor, mail, poller, worker, committer, history>>

CleanupReadsPublished ==
    /\ cleaning.step = "reading"
    /\ cleaning' = IF lastPublished < cleaning.limit
                   THEN [step |-> "deleting", limit |-> lastPublished]
                   ELSE [cleaning EXCEPT !.step = "deleting"]
    /\ UNCHANGED <<latest, tables, publishing, lastPublished,
                   monitor, mail, poller, worker, committer, history>>

CleanupProcessedStagingBlocks ==
    /\ cleaning.step = "deleting"
    /\ staged' = Kept(cleaning.limit)
    /\ cleaning' = NoCleanup
    /\ UNCHANGED <<latest, committed, publishing, lastPublished,
                   monitor, mail, poller, worker, committer, history>>

\* The process stops anywhere and starts again; the committer begins with a cleanup.
Crash ==
    /\ staged' = Kept(Highest)
    /\ torn' = IF committer.step = "inserting" THEN torn \cup Holes(committer.blocks) ELSE torn
    /\ monitor' = "none"
    /\ mail' = [l \in Listeners |-> "none"]
    /\ poller' = NewPoller
    /\ worker' = [w \in Workers |-> [step |-> "idle", blocks |-> {}]]
    /\ committer' = NewCommitter
    /\ publishing' = {} /\ lastPublished' = Highest /\ cleaning' = NoCleanup
    /\ UNCHANGED <<latest, committed, unreported>>

-----------------------------------------------------------------------------
WorkerStep(w) == GetNextBlockRange(w) \/ StartPoll(w) \/ PollEnds(w)

CommitterStep ==
    \/ CommitterHearsMode
    \/ CommitStaged
    \/ PollMissing
    \/ PollMissingEnds
    \/ CommitLive
    \/ \E n \in committer.pending : InsertBlock(n) \/ InsertBlockFails(n)
    \/ CommitFails
    \/ CommitSucceeds

Next ==
    \/ ChainGrows
    \/ MonitorChecks
    \/ PollerHearsMode
    \/ \E w \in Workers : WorkerStep(w)
    \/ CommitterStep
    \/ PublishEnds
    \/ CleanupReadsCommitted
    \/ CleanupReadsPublished
    \/ CleanupProcessedStagingBlocks
    \/ Crash

Spec == Init /\ [][Next]_vars

-----------------------------------------------------------------------------
(* What must hold.                                                          *)

\* Every block below a committed one is committed, is of the batch being
\* inserted, or was left behind by an insertion of which a later block made it:
\* staging, the two modes, restarts and gaps in what is polled make no hole.
HolesComeFromTornInserts ==
    \A m \in committed : \A n \in 0 .. m :
        \/ n \in committed \cup torn
        \/ committer.step = "inserting" /\ n \in committer.blocks

\* A staged block is deleted only when the main table has it, or when an insertion
\* has lost it: the cleanup's counters never run ahead of the table otherwise.
StagedUntilCommitted ==
    [][\A n \in staged \ staged' : n \in committed \cup torn' \cup unreported]_vars

\* A consumer of Kafka that looks up what it hears of finds it in the tables.
PublishedAreCommitted == publishing \subseteq committed \cup torn \cup unreported

\* The committer refuses to go on only after an insertion that was not what it reported.
OnlyFalseSuccessHalts ==
    committer.last > Highest => unreported # {}

\* A committer that stays in live mode reaches the head of the chain, again and
\* again, however the node's answers and the insertions fail in between.
LiveCatchesUp ==
    <>[](committer.mode = "live") => []<>(latest \in committed \/ committer.last > Highest)

LiveFairness ==
    /\ WF_vars(CommitLive /\ committer'.blocks = Asked)
    /\ SF_vars(\E n \in committer.pending : InsertBlock(n))
    /\ WF_vars(CommitFails \/ CommitSucceeds)

LiveSpec == Spec /\ LiveFairness
===============================================================================
