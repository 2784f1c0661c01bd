------------------------------ MODULE Sequencer ------------------------------
(***************************************************************************)
(* The X Layer sequencer: the stage loop around the sequencing stage       *)
(* (zk/stages/stage_sequence_execute*.go), with the four stores it keeps   *)
(* in step: the chain database, the stand-alone SMT database, the data     *)
(* stream file and the transaction-pool database.  Nothing commits to two  *)
(* of them at once, so a crash or an error between two writes leaves them  *)
(* apart; alignment at the next start, the unwind and resequencing are     *)
(* what brings them back together.                                         *)
(*                                                                         *)
(* A block carries one transaction or none (Empty).  The SMT is the set of *)
(* <<block number, transaction>> pairs it has absorbed, and a state root   *)
(* is that set: a root is right exactly when it lists the blocks of the    *)
(* chain up to its own.                                                    *)
(***************************************************************************)
EXTENDS DataStream, FiniteSets

CONSTANTS
    Txs,              \* pool transactions, all of them flushed before the start
    Injected,         \* the transaction of the injected batch
    Empty,            \* "no transaction"
    AsyncCommit,      \* zkevm.enable-async-commit
    FlushPeriod,      \* flushSmtCachePeriod
    StateStreamLimit, \* stateStreamLimit of the execution stage
    CrashAt,          \* labels at which the process may die
    FailAt,           \* labels at which a call may return an error
    OperatorFlag,     \* may the operator restart with zkevm.sequencer-resequence?
    MaxBlocks,        \* bound: blocks ever built on one chain
    MaxBatchBlocks,   \* bound: blocks the timers leave room for in a batch
    MaxFaults         \* bound: crashes plus errors

UnwindLabels == {"unwindSmt", "unwindSmtDb", "unwindExec", "unwindFinish"}
Labels == UnwindLabels \cup
    {"begin", "spawn", "step", "injectCommit", "injectSmt", "injected", "build", "commit",
     "commitSmt", "remove", "close", "publish", "notify", "more", "finish", "stuck"}

ASSUME ConstantsAssumption ==
    /\ {AsyncCommit, OperatorFlag} \subseteq BOOLEAN
    /\ {FlushPeriod, StateStreamLimit, MaxBlocks, MaxBatchBlocks, MaxFaults} \subseteq Nat
    /\ CrashAt \subseteq Labels
    /\ FailAt \subseteq Labels \ {"begin", "injected", "more", "finish", "stuck"}
    /\ Injected \notin Txs /\ Empty \notin Txs /\ Injected # Empty

VARIABLES
    \* durable
    chain,     \* blocks of the chain database, with the batch of each
    hashed,    \* progress of the IntermediateHashes stage
    finish,    \* progress of the Finish stage
    smtDb,     \* [content, height]: the SMT database and its lastHeight
    ds,        \* the data stream server; only ds.file is durable
    poolDb,    \* transactions in the pool database
    \* in memory
    pc,        \* where the sequencer thread is
    blk,       \* the block in hand, executed and not yet committed
    longLived, \* LongLivedSmtCache: what it adds to the SMT database
    queue,     \* [delta, height] pushed to the flush channel
    pushed,    \* LastPushedHeight
    smtState,  \* shouldCheckForExecutionAndSMTAlignment
    checkDs,   \* shouldCheckForExecutionAndDataStreamAlignment
    unwindTo,  \* the unwind point, Nil if none is set
    job,       \* batches left to resequence, each the blocks left of it
    reseqFlag, \* zkevm.sequencer-resequence of this process
    pool,      \* transactions in the pool
    deleted,   \* deletedTxs: removed from the pool, not yet from its database
    acc,       \* unwound transactions held by the state-change accumulator
    \* bookkeeping
    faults,    \* crashes and errors so far
    published  \* every <<number, block>> a stream reader has ever been sent

durable == <<chain, hashed, finish, smtDb, poolDb>>
process == <<blk, longLived, queue, pushed, smtState, checkDs, unwindTo, job,
             reseqFlag, pool, deleted, acc>>
vars == <<durable, ds, process, pc, faults, published>>

-----------------------------------------------------------------------------
Height == Len(chain)

TxsOf(c) == {c[n].tx : n \in 1 .. Len(c)}

\* HighestSeenBatchNumber: updateSequencerProgress keeps it at the last block's batch.
LastBatch == IF Height = 0 THEN 0 ELSE chain[Height].batch

\* The SMT that the first n blocks of the chain ought to produce.
SmtOf(n) == {<<i, chain[i].tx>> : i \in 1 .. n}

\* What the SMT reads as: LongLived laid over the SMT database.
Smt == smtDb.content \cup longLived

\* The batch being built and its first block.
Batch == blk.batch
FirstOfBatch == CHOOSE n \in 1 .. Height :
    chain[n].batch = Batch /\ \A m \in 1 .. (n - 1) : chain[m].batch # Batch

\* Has this run of sequencingBatchStep committed a block already?
StepCommitted == Height > 0 /\ chain[Height].batch = Batch

NoBlock == [batch |-> 0, tx |-> Empty, root |-> {}]

\* GetHighestBlockInBatch; 0 when the batch has no block.
HighestBlockInBatch(b) ==
    IF \E n \in 1 .. Height : chain[n].batch = b
    THEN CHOOSE n \in 1 .. Height :
            chain[n].batch = b /\ \A m \in (n + 1) .. Height : chain[m].batch # b
    ELSE 0

Init ==
    /\ chain = <<>> /\ hashed = 0 /\ finish = 0
    /\ smtDb = [content |-> {}, height |-> 0]
    /\ ds = Opened(<<>>)
    /\ poolDb = Txs /\ pool = Txs /\ deleted = {} /\ acc = {}
    /\ pc = "begin" /\ blk = NoBlock
    /\ longLived = {} /\ queue = <<>> /\ pushed = 0
    /\ smtState = "init" /\ checkDs = TRUE
    /\ unwindTo = Nil /\ job = <<>> /\ reseqFlag = FALSE
    /\ faults = 0 /\ published = {}

-----------------------------------------------------------------------------
(* The stage loop *)

\* isSynced: the Finish stage has caught up with Headers.
KeepAccumulator == finish > 0 /\ finish = Height

\* StageLoopIteration: the BeforeRun hook resets the accumulator unless the node
\* is synced; then Run, unwinding first.
Begin ==
    /\ pc = "begin"
    /\ acc' = IF KeepAccumulator THEN acc ELSE {}
    /\ pc' = IF unwindTo # Nil THEN "unwindSmt" ELSE "spawn"
    /\ UNCHANGED <<durable, ds, blk, longLived, queue, pushed, smtState, checkDs,
                   unwindTo, job, reseqFlag, pool, deleted, faults, published>>

UnwoundNothing == Smt  \* seeded fault: the changes of the unwound blocks stay

\* The tree UnwindZkSMT leaves: what the unwound blocks wrote is reversed.
Unwound == Smt \ {<<n, chain[n].tx>> : n \in (unwindTo + 1) .. Height}

RootOf(n) == IF n = 0 THEN {} ELSE chain[n].root

\* UnwindZkIntermediateHashesStage verifies the root, then commits the chain
\* transaction (the stage progress) before the SMT transaction.
UnwindSmt ==
    /\ pc = "unwindSmt"
    /\ IF hashed <= unwindTo THEN pc' = "unwindExec" /\ hashed' = hashed
       ELSE IF Unwound = RootOf(unwindTo) THEN pc' = "unwindSmtDb" /\ hashed' = unwindTo
       ELSE pc' = "begin" /\ hashed' = hashed
    /\ UNCHANGED <<chain, finish, smtDb, poolDb, ds, process, faults, published>>

\* Seeded fault: the SMT transaction of the unwind is never committed.
UnwindSmtDbForgotten ==
    /\ pc = "unwindSmtDb"
    /\ pc' = "unwindExec"
    /\ UNCHANGED <<durable, ds, process, faults, published>>

UnwindSmtDb ==
    /\ pc = "unwindSmtDb"
    /\ smtDb' = [content |-> Unwound, height |-> smtDb.height]
    /\ pc' = "unwindExec"
    /\ UNCHANGED <<chain, hashed, finish, poolDb, ds, process, faults, published>>

\* Seeded fault: whatever the unwound blocks carry goes back to the pool.
UnwoundAll == TxsOf(SubSeq(chain, unwindTo + 1, Height))

UnwoundTxs == TxsOf(SubSeq(chain, unwindTo + 1, Height)) \cap Txs

\* unwindExecutionStage hands the transactions of the unwound blocks to the
\* accumulator; updateSequencerProgress moves Execution, Headers and the batch.
UnwindExec ==
    /\ pc = "unwindExec"
    /\ chain' = SubSeq(chain, 1, unwindTo)
    /\ acc' = IF Height - unwindTo < StateStreamLimit THEN acc \cup UnwoundTxs ELSE acc
    /\ pc' = "unwindFinish"
    /\ UNCHANGED <<hashed, finish, smtDb, poolDb, ds, blk, longLived, queue, pushed,
                   smtState, checkDs, unwindTo, job, reseqFlag, pool, deleted,
                   faults, published>>

\* Finish unwinds last; the unwind was for a bad block, so Run ends here.
UnwindFinish ==
    /\ pc = "unwindFinish"
    /\ finish' = IF finish > unwindTo THEN unwindTo ELSE finish
    /\ unwindTo' = Nil
    /\ pc' = "begin"
    /\ UNCHANGED <<chain, hashed, smtDb, poolDb, ds, blk, longLived, queue, pushed,
                   smtState, checkDs, job, reseqFlag, pool, deleted, acc,
                   faults, published>>

\* The Finish stage, at the end of an iteration that did not fail.
Finish ==
    /\ pc = "finish"
    /\ finish' = IF Height > finish THEN Height ELSE finish
    /\ pc' = "begin"
    /\ UNCHANGED <<chain, hashed, smtDb, poolDb, ds, process, faults, published>>

-----------------------------------------------------------------------------
(* SpawnSequencingStage *)

\* resequence and resequenceFromSMTAlignment: read the batches the chain lacks,
\* cut them off the stream, and sequence them again one by one.  Without the
\* batch's bookmark the read returns an error.
StartResequence ==
    LET from == LastBatch + 1
        to == GetHighestBatchNumber(ds)
    IN  IF HasBookmark(ds.file, "start", from)
        THEN /\ job' = ReadBatches(ds, from, to)
             /\ ds' = UnwindToBatchStart(CacheBatch(ds), from)
             /\ pc' = "step" /\ checkDs' = checkDs
        ELSE /\ ds' = CacheBatch(ds)
             /\ pc' = "begin" /\ checkDs' = TRUE /\ job' = job

\* With batches to resequence: the SMT alignment and the operator's flag start
\* the job, anything else is a panic, which the stage loop recovers from.
Spawn ==
    /\ pc = "spawn"
    /\ IF LastBatch < GetHighestBatchNumber(ds) /\ (smtState = "pending" \/ reseqFlag)
       THEN StartResequence
       ELSE /\ pc' = IF LastBatch < GetHighestBatchNumber(ds) THEN "begin"
                     ELSE IF reseqFlag THEN "finish" ELSE "step"
            /\ ds' = CacheBatch(ds)
            /\ UNCHANGED <<job, checkDs>>
    /\ UNCHANGED <<durable, blk, longLived, queue, pushed, smtState, unwindTo,
                   reseqFlag, pool, deleted, acc, faults, published>>

-----------------------------------------------------------------------------
(* sequencingBatchStep: checks before the first block *)

\* validateIfDatastreamIsAheadOfExecution panics.
StepAhead ==
    /\ pc = "step" /\ GetHighestBlockNumber(ds) > Height
    /\ pc' = "begin"
    /\ UNCHANGED <<durable, ds, process, faults, published>>

StepReady == pc = "step" /\ GetHighestBlockNumber(ds) <= Height

\* finaliseBlock: the root of the SMT after the block's changes.
RootWith(n, tx) == Smt \cup {<<n, tx>>}

\* The injected batch goes to the stream before any database commits.
StepInjected ==
    /\ StepReady /\ Height = 0
    /\ LET b == [batch |-> 1, tx |-> Injected, root |-> RootWith(1, Injected)] IN
       /\ blk' = b
       /\ ds' = WriteWholeBatch(ds, 1, b, LastBatch)
       /\ longLived' = IF AsyncCommit THEN b.root ELSE longLived
       /\ published' = published \cup {<<1, b.tx, b.root>>}
    /\ pc' = "injectCommit"
    /\ UNCHANGED <<durable, queue, pushed, smtState, checkDs, unwindTo, job,
                   reseqFlag, pool, deleted, acc, faults>>

\* The SMT alignment looks for more than one missing block.
SmtGap == smtState = "init" /\ job = <<>> /\ smtDb.height + 1 < Height

\* getTargetBlockForSMTAlignment: the end of the batch before the one the SMT is in.
SmtTarget ==
    IF smtDb.height = 0 THEN 0 ELSE HighestBlockInBatch(chain[smtDb.height].batch - 1)

StepUnwindToSmt ==
    /\ StepReady /\ Height > 0 /\ SmtGap
    /\ unwindTo' = SmtTarget
    /\ smtState' = "pending" /\ checkDs' = TRUE
    /\ pc' = "unwindSmt"
    /\ UNCHANGED <<durable, ds, blk, longLived, queue, pushed, job, reseqFlag, pool,
                   deleted, acc, faults, published>>

\* The SMT check is over, unless it is waiting for its resequencing.
SmtChecked == smtState' = IF smtState = "init" THEN "terminated" ELSE smtState

NewBatch == blk' = [batch |-> LastBatch + 1, tx |-> Empty, root |-> {}]

AheadByTwo(top) == Height > top + 1  \* seeded fault: off by one

ExecutionAhead(top) == Height > top

AlignBelow(top) == top - 1  \* seeded fault: off by one

\* The block the execution is unwound to.
AlignPoint(top) == top

\* alignExecutionToDatastream: close the batch the stream left open, then drop
\* the blocks that never reached the stream.  stages.go asks for one more
\* alignment after an unwind.
StepAlign ==
    /\ StepReady /\ Height > 0 /\ ~SmtGap /\ checkDs /\ job = <<>>
    /\ LET d == CacheClosed(CacheBatch(ds))
           started == GetHighestBatchNumber(d)
           top == GetHighestBlockNumber(d)
       IN  /\ ds' = IF started # GetHighestClosedBatch(d) /\ ~IsLastEntryBatchEnd(d)
                    THEN WriteBatchEnd(d, started, chain[top].root) ELSE d
           /\ checkDs' = ExecutionAhead(top)
           /\ unwindTo' = IF ExecutionAhead(top) THEN AlignPoint(top) ELSE Nil
           /\ pc' = IF ExecutionAhead(top) THEN "unwindSmt" ELSE "build"
    /\ SmtChecked /\ NewBatch
    /\ UNCHANGED <<durable, longLived, queue, pushed, job, reseqFlag, pool, deleted,
                   acc, faults, published>>

\* Nothing to align, or resequencing, which skips both alignments.
StepNoAlign ==
    /\ StepReady /\ Height > 0 /\ ~SmtGap /\ (~checkDs \/ job # <<>>)
    /\ checkDs' = FALSE
    /\ pc' = "build"
    /\ SmtChecked /\ NewBatch
    /\ UNCHANGED <<durable, ds, longLived, queue, pushed, unwindTo, job, reseqFlag,
                   pool, deleted, acc, faults, published>>

-----------------------------------------------------------------------------
(* sequencingBatchStep: one block *)

\* What the next block may carry: a pool transaction that still executes, or
\* nothing when the block timer fires first; in a job, the block that was read.
NextTx ==
    IF job = <<>> THEN (pool \ TxsOf(chain)) \cup {Empty}
    ELSE {Head(Head(job)).tx} \ (TxsOf(chain) \ {Empty})

Build ==
    /\ pc = "build" /\ Height < MaxBlocks
    /\ \E tx \in NextTx :
         /\ blk' = [batch |-> Batch, tx |-> tx, root |-> RootWith(Height + 1, tx)]
         /\ longLived' = IF AsyncCommit THEN RootWith(Height + 1, tx) ELSE longLived
    /\ pc' = "commit"
    /\ UNCHANGED <<durable, ds, queue, pushed, smtState, checkDs, unwindTo, job,
                   reseqFlag, pool, deleted, acc, faults, published>>

\* CommitAndStart commits the chain database, then (sync mode) the SMT database.
Commit ==
    /\ pc \in {"commit", "injectCommit"}
    /\ chain' = Append(chain, blk)
    /\ hashed' = Height + 1
    /\ pc' = IF pc = "commit" THEN IF AsyncCommit THEN "remove" ELSE "commitSmt"
             ELSE IF AsyncCommit THEN "injected" ELSE "injectSmt"
    /\ UNCHANGED <<finish, smtDb, poolDb, ds, process, faults, published>>

\* Seeded fault: the SMT commit drops the block's changes.
CommitSmtStale ==
    /\ pc \in {"commitSmt", "injectSmt"}
    /\ smtDb' = [content |-> smtDb.content, height |-> Height]
    /\ pc' = IF pc = "commitSmt" THEN "remove" ELSE "injected"
    /\ UNCHANGED <<chain, hashed, finish, poolDb, ds, process, faults, published>>

CommitSmt ==
    /\ pc \in {"commitSmt", "injectSmt"}
    /\ smtDb' = [content |-> blk.root, height |-> Height]
    /\ pc' = IF pc = "commitSmt" THEN "remove" ELSE "injected"
    /\ UNCHANGED <<chain, hashed, finish, poolDb, ds, process, faults, published>>

\* RemoveMinedTransactions; a resequenced block names no pool slots.
Remove ==
    /\ pc = "remove"
    /\ LET mined == IF job = <<>> THEN {blk.tx} \cap pool ELSE {} IN
       pool' = pool \ mined /\ deleted' = deleted \cup mined
    /\ pc' = "close"
    /\ UNCHANGED <<durable, ds, blk, longLived, queue, pushed, smtState, checkDs,
                   unwindTo, job, reseqFlag, acc, faults, published>>

\* stateRootBeforeReplay is the zero hash when the step has no job.
RootMismatch ==
    /\ smtState = "pending"
    /\ blk.root # IF job = <<>> THEN {} ELSE Head(Head(job)).root

MustCloseLate(d) ==  \* seeded fault: off by one
    /\ Batch > GetHighestBatchNumber(d) + 1
    /\ GetHighestClosedBatch(d) # GetHighestBatchNumber(d)

MustClose(d) ==
    /\ Batch > GetHighestBatchNumber(d)
    /\ GetHighestClosedBatch(d) # GetHighestBatchNumber(d)

ClosingRootOfNext == chain[FirstOfBatch].root  \* seeded fault: off by one

\* The batch before this one ended with the block before this batch's first.
ClosingRoot == chain[FirstOfBatch - 1].root

\* WriteBlockDetailsToDatastream, first half: end the previous batch.
Close ==
    /\ pc = "close" /\ ~RootMismatch
    /\ LET d == CacheBatch(CacheClosed(ds)) IN
       ds' = IF MustClose(d) THEN WriteBatchEnd(d, GetHighestBatchNumber(d), ClosingRoot)
             ELSE d
    /\ pc' = "publish"
    /\ UNCHANGED <<durable, process, faults, published>>

\* Second half: the block goes to the stream.
Publish ==
    /\ pc = "publish"
    /\ ds' = WriteBlockWithBatchStart(ds, Height, blk, chain[Height - 1].batch)
    /\ published' = published \cup {<<Height, blk.tx, blk.root>>}
    /\ pc' = "notify"
    /\ UNCHANGED <<durable, process, faults>>

\* The second CommitAndStart, then AfterRun: the pool takes back the unwound
\* transactions and drops the ones the chain already has.
Notify ==
    /\ pc = "notify"
    /\ pool' = (pool \cup acc) \ TxsOf(chain)
    /\ deleted' = deleted \cup ((pool \cup acc) \cap TxsOf(chain))
    /\ acc' = {}
    /\ pc' = "more"
    /\ UNCHANGED <<durable, ds, blk, longLived, queue, pushed, smtState, checkDs,
                   unwindTo, job, reseqFlag, faults, published>>

-----------------------------------------------------------------------------
(* sequencingBatchStep: the end of a batch *)

\* The next block of the batch, if the timers or the job leave one.
NextBlock ==
    /\ pc = "more"
    /\ IF job = <<>>
       THEN job' = job /\ Height - FirstOfBatch + 1 < MaxBatchBlocks
       ELSE job' = <<Tail(Head(job))>> \o Tail(job) /\ Len(Head(job)) > 1
    /\ pc' = "build"
    /\ UNCHANGED <<durable, ds, blk, longLived, queue, pushed, smtState, checkDs,
                   unwindTo, reseqFlag, pool, deleted, acc, faults, published>>

\* A pool batch ends: FlushSmtCache pushes what is due to the flush channel.
EndBatch ==
    /\ pc \in {"more", "injected"} /\ job = <<>>
    /\ LET due == AsyncCommit /\ Height - pushed >= FlushPeriod IN
       /\ queue' = IF due THEN Append(queue, [delta |-> longLived, height |-> Height])
                   ELSE queue
       /\ pushed' = IF due THEN Height ELSE pushed
    /\ pc' = "finish"
    /\ UNCHANGED <<durable, ds, blk, longLived, smtState, checkDs, unwindTo, job,
                   reseqFlag, pool, deleted, acc, faults, published>>

\* A resequenced batch ends; the last one ends the SMT alignment.  The injected
\* batch is not part of the job, which goes on with its first batch.
EndJobBatch ==
    /\ pc \in {"more", "injected"} /\ job # <<>>
    /\ pc = "more" => Len(Head(job)) = 1
    /\ job' = IF pc = "more" THEN Tail(job) ELSE job
    /\ smtState' = IF job' = <<>> /\ smtState = "pending" THEN "terminated" ELSE smtState
    /\ pc' = IF job' = <<>> THEN "finish" ELSE "step"
    /\ UNCHANGED <<durable, ds, blk, longLived, queue, pushed, checkDs, unwindTo,
                   reseqFlag, pool, deleted, acc, faults, published>>

-----------------------------------------------------------------------------
(* Background goroutines *)

\* FlushDataToDB, one image at a time (SmtCache models the six workers).
FlushSmt ==
    /\ queue # <<>>
    /\ smtDb' = [content |-> smtDb.content \cup Head(queue).delta,
                 height |-> Head(queue).height]
    /\ queue' = Tail(queue)
    /\ UNCHANGED <<chain, hashed, finish, poolDb, ds, blk, longLived, pushed, smtState,
                   checkDs, unwindTo, job, reseqFlag, pool, deleted, acc, pc, faults,
                   published>>

\* The pool's periodic flush.
FlushPool ==
    /\ poolDb' = (poolDb \ deleted) \cup pool
    /\ deleted' = {}
    /\ UNCHANGED <<chain, hashed, finish, smtDb, ds, blk, longLived, queue, pushed,
                   smtState, checkDs, unwindTo, job, reseqFlag, pool, acc, pc, faults,
                   published>>

-----------------------------------------------------------------------------
(* Faults *)

\* A process starts: StartIfNotStarted loads the pool before the stage loop runs.
Restart ==
    /\ ds' = Opened(ds.file)
    /\ pool' = poolDb \ TxsOf(chain) /\ deleted' = {} /\ acc' = {}
    /\ pc' = "begin" /\ blk' = NoBlock
    /\ longLived' = {} /\ queue' = <<>> /\ pushed' = 0
    /\ smtState' = "init" /\ checkDs' = TRUE
    /\ unwindTo' = Nil /\ job' = <<>>
    /\ reseqFlag' \in IF OperatorFlag THEN BOOLEAN ELSE {FALSE}
    /\ UNCHANGED <<durable, published>>

Crash ==
    /\ pc \in CrashAt /\ faults < MaxFaults
    /\ faults' = faults + 1
    /\ Restart

\* A resequenced block with another root: os.Exit.
ExitOnMismatch ==
    /\ pc = "close" /\ RootMismatch
    /\ Restart
    /\ UNCHANGED faults

\* In async mode, after a commit of this step, the deferred rollbacks run before
\* the deferred handler reads the database: the handler panics, and stages.go
\* never learns of the error.
ErrorPanics ==
    /\ AsyncCommit
    /\ \/ pc \in {"injectCommit", "commit", "remove", "close", "publish", "notify"}
       \/ pc = "build" /\ StepCommitted

\* The stage returns an error; stages.go asks for an alignment.
StepError ==
    /\ pc' = "begin" /\ job' = <<>>
    /\ checkDs' = (checkDs \/ ~ErrorPanics)
    /\ UNCHANGED <<durable, ds, blk, longLived, queue, pushed, smtState, unwindTo,
                   reseqFlag, pool, deleted, acc, published>>

\* Strict resequencing: the transaction of the job cannot be added.
StrictError ==
    /\ pc = "build" /\ job # <<>>
    /\ Head(Head(job)).tx \in TxsOf(chain) \ {Empty}
    /\ StepError
    /\ UNCHANGED faults

\* Some call of the step fails (a database or stream operation).
StepFails ==
    /\ pc \in FailAt \ (UnwindLabels \cup {"commitSmt"}) /\ faults < MaxFaults
    /\ faults' = faults + 1
    /\ StepError

\* CommitAndStart gives up on the SMT commit without releasing the chain
\* transaction it has just begun: the next writer waits for it for ever.
CommitSmtFails ==
    /\ pc = "commitSmt" /\ pc \in FailAt /\ faults < MaxFaults
    /\ faults' = faults + 1
    /\ pc' = "stuck"
    /\ UNCHANGED <<durable, ds, process, published>>

\* An unwind fails; the unwind point is kept for the next iteration.
UnwindFails ==
    /\ pc \in FailAt \cap UnwindLabels /\ faults < MaxFaults
    /\ faults' = faults + 1
    /\ pc' = "begin"
    /\ UNCHANGED <<durable, ds, process, published>>

\* The model's bound: the chain is full.
Full ==
    /\ pc = "build" /\ Height = MaxBlocks
    /\ UNCHANGED vars

Sequence ==
    \/ Begin \/ UnwindSmt \/ UnwindSmtDb \/ UnwindExec \/ UnwindFinish \/ Finish
    \/ Spawn \/ StepAhead \/ StepInjected \/ StepUnwindToSmt \/ StepAlign \/ StepNoAlign
    \/ Build \/ Commit \/ CommitSmt \/ Remove \/ Close \/ Publish \/ Notify
    \/ NextBlock \/ EndBatch \/ EndJobBatch \/ ExitOnMismatch \/ StrictError

Next ==
    \/ Sequence \/ FlushSmt \/ FlushPool
    \/ Crash \/ StepFails \/ CommitSmtFails \/ UnwindFails
    \/ Full

Spec == Init /\ [][Next]_vars

\* The stage loop never stops of its own accord, and the flush worker runs.
FairSpec == Spec /\ WF_vars(Sequence) /\ WF_vars(FlushSmt)

-----------------------------------------------------------------------------
(* Properties *)

Payload == Txs \cup {Injected, Empty}
Root == SUBSET (Nat \X Payload)
Block == [batch : Nat, tx : Payload, root : Root]
Entry == [type : {"start"}, batch : Nat]
    \cup [type : {"end"}, batch : Nat, root : Root]
    \cup [type : {"block"}, batch : Nat, num : Nat, tx : Payload, root : Root]

\* Every variable has the shape the Go declarations give it.
TypeOK ==
    /\ chain \in Seq(Block) /\ hashed \in Nat /\ finish \in Nat
    /\ smtDb \in [content : Root, height : Nat]
    /\ ds \in [file : Seq(Entry), block : Nat \cup {Nil}, batch : Nat \cup {Nil},
              closed : Nat \cup {Nil}]
    /\ poolDb \subseteq Txs /\ pool \subseteq Txs /\ deleted \subseteq Txs /\ acc \subseteq Txs
    /\ pc \in Labels /\ blk \in Block
    /\ longLived \in Root /\ queue \in Seq([delta : Root, height : Nat]) /\ pushed \in Nat
    /\ smtState \in {"init", "pending", "terminated"} /\ checkDs \in BOOLEAN
    /\ unwindTo \in Nat \cup {Nil} /\ job \in Seq(Seq(Entry)) /\ reseqFlag \in BOOLEAN
    /\ faults \in Nat /\ published \in SUBSET (Nat \X Payload \X Root)

\* Whatever errors and crashes hit the block loop, the stream stays in the
\* grammar its readers parse: batches open and close in order, every block is
\* inside its batch, no batch number is skipped.
StreamWellFormed == WellFormed(ds.file)

\* A batch end carries the root of the last block of its batch, whether the
\* next batch, a restart or the injected batch wrote it.
BatchEndRoot ==
    \A i \in 1 .. Len(ds.file) :
        ds.file[i].type = "end" => ds.file[i].root = ds.file[i - 1].root

\* The blocks of the stream are the first blocks of the chain, in order, with
\* no gap and no repetition, and with the batch, transaction and root the chain
\* database has.  The injected batch alone is streamed before it is committed.
StreamMatchesChain ==
    pc # "injectCommit" =>
        LET f == ds.file
            Blocks == {i \in 1 .. Len(f) : f[i].type = "block"}
        IN  /\ \A i \in Blocks : /\ f[i].num \in 1 .. Height
                                /\ f[i] = L2Block(f[i].num, chain[f[i].num])
            /\ \A i, j \in Blocks : i < j => f[i].num < f[j].num
            /\ \A n \in 1 .. HighestBlockInFile(f) : \E i \in Blocks : f[i].num = n

\* A block that was ever sent to stream readers is the block of the chain with
\* that number: unwinds and restarts only drop blocks nobody has seen.
PublishedOnChain ==
    pc # "injectCommit" =>
        \A p \in published :
            p[1] \in 1 .. Height /\ p = <<p[1], chain[p[1]].tx, chain[p[1]].root>>

\* Stream readers never see two blocks with one number.
NoFork == \A p, q \in published : p[1] = q[1] => p = q

\* The state root of every block is the root of the blocks up to it, however
\* often the SMT and the chain were unwound in between.
RootsCorrect == \A n \in 1 .. Height : chain[n].root = SmtOf(n)

\* When the SMT check is terminated and a block is about to be built, the SMT is
\* the one of the chain.
SmtAligned ==
    pc = "build" /\ smtState = "terminated" => Smt = SmtOf(Height)

\* The numbers the stream server caches are the ones in its file whenever a
\* block is about to be closed or published against them.
CacheCoherent ==
    pc \in {"close", "publish"} =>
        /\ ds.block # Nil => ds.block = HighestBlockInFile(ds.file)
        /\ ds.batch # Nil => ds.batch = HighestBatchInFile(ds.file)
        /\ ds.closed # Nil => ds.closed = HighestClosedInFile(ds.file)

\* A pool transaction is on the chain, in the pool, on its way back to the pool
\* or at least in the pool database, where the next start finds it.
NoTxLost ==
    Txs \subseteq TxsOf(chain) \cup pool \cup acc \cup (poolDb \ deleted)

\* The stream only grows: whatever the sequencer unwinds or rebuilds, no entry
\* a reader may have consumed is cut off or rewritten.
StreamAppendOnly ==
    [][/\ Len(ds.file) <= Len(ds'.file)
       /\ SubSeq(ds'.file, 1, Len(ds.file)) = ds.file]_vars

\* When the resequencing of an SMT alignment is over, every block ever published
\* is back on the chain, with the root it had.
ResequenceRestores ==
    [][smtState = "pending" /\ smtState' = "terminated" => PublishedOnChain']_vars

\* A chain ahead of the stream does not stay ahead: the block in hand is
\* published, or the next iteration or process unwinds it.  The exception is a process
\* that waits for ever for the chain transaction a failed SMT commit left open.
StreamCatchesUp ==
    Height > HighestBlockInFile(ds.file) ~>
        (Height = HighestBlockInFile(ds.file) \/ pc = "stuck")

\* A stream ahead of the chain is caught up with by resequencing.
ChainCatchesUp ==
    Height < HighestBlockInFile(ds.file) ~> PublishedOnChain
=============================================================================
