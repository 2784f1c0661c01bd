------------------------------ MODULE RpcNode ------------------------------
(***************************************************************************)
(* A node that follows the sequencer's data stream: the stages Batches,    *)
(* Execution (with the hash stages), DataStream and Finish of the stage    *)
(* loop, their unwinds, the stream client, and the node's own data stream. *)
(*                                                                         *)
(* The sequencer is the environment: `feed` is the file it serves.  It     *)
(* appends to the file and, when it resequences, cuts it back to a batch   *)
(* start.  A block is [batch, tx, root]; its root stands for its hash and  *)
(* is the sequence of the payloads up to it, so that equal roots mean      *)
(* equal ancestors.                                                        *)
(*                                                                         *)
(* `disk` is the committed database and `db` what the running transaction  *)
(* sees of it.  When the node is synced a whole iteration is one           *)
(* transaction (oneTx); otherwise every stage commits its own.  `own` is   *)
(* the node's data stream, durable as soon as it is written.               *)
(*                                                                         *)
(* The channel between the stream client and the stage only delays         *)
(* entries, so reading and processing an entry are one step; a full        *)
(* channel may drop the last entry of a read (LastEntryDropped).           *)
(***************************************************************************)
EXTENDS DataStream, FiniteSets, FiniteSetsExt

CONSTANTS
    MaxBlocks,       \* bound: blocks of the feed
    MaxCuts,         \* bound: resequencings of the sequencer
    MaxFaults,       \* bound: failed connections, reads and queries, and crashes
    CrashPoints,     \* the program points at which the node may crash
    LoopBlockLimit,  \* blocks executed in one iteration, 0 for no limit
    UseTLS,          \* the stream client dials with TLS
    Quirks           \* what the sequencer may do that the node does not handle

ASSUME RpcAssumption ==
    /\ {MaxBlocks, MaxCuts, MaxFaults, LoopBlockLimit} \subseteq Nat
    /\ UseTLS \in BOOLEAN
    /\ Quirks \subseteq {"fork", "rebatch", "gap"}

VARIABLES feed, disk, db, oneTx, own, pc, unwindTo, reader, search, conn,
          cuts, faults

feedVars == <<feed, cuts>>
clientVars == <<reader, search>>
vars == <<feed, disk, db, oneTx, own, pc, unwindTo, reader, search, conn,
          cuts, faults>>

Numbers == 1 .. MaxBlocks
Batches == 1 .. (2 * MaxBlocks)

NoReader == [at |-> 0, limit |-> 0, last |-> 0]
NoSearch == [lo |-> 0, hi |-> 0, best |-> Nil, latest |-> 0, cuts |-> 0]

\* An empty database: rows is BLOCKBATCHES (0: no row), lists is BATCH_BLOCKS as
\* pairs <<batch, block>>, ends is BATCH_ENDS; the others are stage progresses.
EmptyDb == [blocks |-> <<>>, rows |-> [n \in Numbers |-> 0], lists |-> {}, ends |-> {},
            progress |-> 0, exec |-> 0, headers |-> 0, finish |-> 0]

Init ==
    /\ feed = <<>>
    /\ disk = EmptyDb
    /\ db = EmptyDb
    /\ oneTx = FALSE
    /\ own = Opened(<<>>)
    /\ pc = "batches"
    /\ unwindTo = Nil
    /\ reader = NoReader
    /\ search = NoSearch
    /\ conn = "new"
    /\ cuts = 0
    /\ faults = 0

-----------------------------------------------------------------------------
(* The sequencer. *)

\* Block n of a file, found by its bookmark.
BlockAt(file, n) == file[BookmarkOf(file, "block", n)]

FeedHeight == HighestBlockInFile(feed)

SameBlock(e, blk) == e.root = blk.root /\ e.batch = blk.batch

\* What the node does not notice, and what therefore needs a quirk.  "fork": the feed
\* reaches a height that the node takes for its own, with another block than the node's,
\* before the node looked: the stage progress, the last block read, the unwind point or
\* a block up to the candidate of the search.  "rebatch": a block the node has comes back
\* in another batch, or the batches leave behind a row above the stage progress.
MayPublish(n, blk) ==
    /\ "fork" \notin Quirks =>
         /\ n = disk.progress => blk.root = disk.blocks[n].root
         /\ n \in {db.progress, reader.last, unwindTo} \cup (1 .. search.best)
              /\ n <= Len(db.blocks) => blk.root = db.blocks[n].root
    /\ "rebatch" \notin Quirks => \A d \in {db, disk} :
         /\ n <= Len(d.blocks) /\ d.blocks[n].root = blk.root => d.blocks[n].batch = blk.batch
         /\ \A m \in n .. MaxBlocks : m > d.progress /\ d.rows[m] # 0 =>
              d.rows[m] >= blk.batch /\ (m = n => d.rows[m] = blk.batch)

\* The sequencer sends a block, in the open batch or in the next one; with the quirk
\* "gap" it may leave a batch empty.  The payload is the resequencing that made the
\* block; block 1 is the injected batch's and the same in each of them.
Publish ==
    LET open == feed # <<>> /\ ~IsLastEntryBatchEnd(Opened(feed))
        prev == HighestBatchInFile(feed)
        n == FeedHeight + 1
        path == IF n = 1 THEN <<>> ELSE BlockAt(feed, n - 1).root
    IN  \E p \in 0 .. (IF n = 1 THEN 0 ELSE cuts),
           b \in IF open THEN {prev}
                 ELSE (prev + 1) .. (IF "gap" \in Quirks /\ n > 1 THEN prev + 2 ELSE prev + 1) :
          LET blk == [batch |-> b, tx |-> p, root |-> Append(path, p)] IN
          /\ n <= MaxBlocks
          /\ MayPublish(n, blk)
          /\ feed' = feed \o (IF open THEN <<>> ELSE BatchStartEntries(prev, b, blk.root))
                          \o <<L2Block(n, blk)>>
          /\ UNCHANGED <<disk, db, oneTx, own, pc, unwindTo, reader, search, conn, cuts, faults>>

CloseBatch ==
    /\ feed # <<>>
    /\ ~IsLastEntryBatchEnd(Opened(feed))
    /\ feed' = Append(feed, BatchEnd(HighestBatchInFile(feed), feed[Len(feed)].root))
    /\ UNCHANGED <<disk, db, oneTx, own, pc, unwindTo, reader, search, conn, cuts, faults>>

\* A resequencing cuts the file back to a batch start.  A client that has read past
\* the cut is sent what is appended from there on.
Cut ==
    \E b \in 1 .. HighestBatchInFile(feed) :
        /\ cuts < MaxCuts
        /\ cuts' = cuts + 1
        /\ feed' = UnwindToBatchStart(Opened(feed), b).file
        /\ reader' = [reader EXCEPT !.at = IF @ > Len(feed') THEN Len(feed') + 1 ELSE @]
        /\ UNCHANGED <<disk, db, oneTx, own, pc, unwindTo, search, conn, faults>>

Sequencer == Publish \/ CloseBatch \/ Cut

-----------------------------------------------------------------------------
(* Transactions, faults and the stage loop. *)

\* The end of a stage that leaves the database as d: it commits unless the whole
\* iteration is one transaction.
StageEnds(d) ==
    /\ db' = d
    /\ disk' = IF oneTx THEN disk ELSE d
    /\ UNCHANGED oneTx

\* The next iteration starts on the committed database d, in one transaction if the
\* last one left Finish level with Headers.
StartIteration(d) ==
    /\ disk' = d
    /\ db' = d
    /\ oneTx' = (d.finish > 0 /\ d.finish = d.headers)
    /\ pc' = "batches"

\* A stage error ends the iteration and rolls back; the next one starts again at
\* the failed stage, here always Batches.
StageFails ==
    /\ StartIteration(disk)
    /\ reader' = NoReader
    /\ search' = NoSearch
    /\ UNCHANGED <<own, unwindTo>>

Fault == faults < MaxFaults /\ faults' = faults + 1

-----------------------------------------------------------------------------
(* The Batches stage. *)

\* HandleStart: the client dials at first and after an error.  A failed dial with TLS
\* leaves a nil *tls.Conn in the connection's interface; the next attempt takes it
\* for a connection, closes it and panics, which the stage loop recovers.
HandleStartFails ==
    /\ pc = "batches"
    /\ conn # "up"
    /\ conn = "nil" \/ faults < MaxFaults
    /\ faults' = IF conn = "nil" THEN faults ELSE faults + 1
    /\ conn' = IF conn = "error" /\ UseTLS THEN "nil" ELSE conn
    /\ StageFails
    /\ UNCHANGED feedVars

\* getHighestDSL2Block fails: the RPC endpoint and the stream are out of reach.
\* The stage ends without an error.
HighestBlockFails ==
    /\ pc = "batches"
    /\ conn # "nil"
    /\ Fault
    /\ conn' = "up"
    /\ pc' = "execution"
    /\ UNCHANGED <<feedVars, disk, db, oneTx, own, unwindTo, clientVars>>

SearchFrom(latest) ==
    [lo |-> 0, hi |-> latest, best |-> Nil, latest |-> latest, cuts |-> cuts]

SpawnStageBatchesAhead ==  \* seeded fault: a stream that is behind counts as level
    /\ pc = "batches"
    /\ conn # "nil"
    /\ conn' = "up"
    /\ pc' = IF FeedHeight > db.progress /\ db.exec >= db.progress THEN "start" ELSE "execution"
    /\ UNCHANGED <<feedVars, disk, db, oneTx, own, unwindTo, reader, search, faults>>

\* The stream is level with the node, behind it (rollback), or ahead; it is not read
\* while there are blocks to execute.
SpawnStageBatches ==
    /\ pc = "batches"
    /\ conn # "nil"
    /\ conn' = "up"
    /\ pc' = CASE FeedHeight < db.progress -> "search"
               [] FeedHeight > db.progress /\ db.exec >= db.progress -> "start"
               [] OTHER -> "execution"
    /\ search' = IF FeedHeight < db.progress THEN SearchFrom(FeedHeight) ELSE NoSearch
    /\ UNCHANGED <<feedVars, disk, db, oneTx, own, unwindTo, reader, faults>>

\* readAllEntriesToChannel: the read starts at the bookmark of the next block, or at
\* the first batch, and goes to the number of entries in the header.  Without the
\* bookmark (a cut since the query) the client reports an error and nothing is read.
StartRead ==
    LET n == db.progress + 1
        found == db.progress = 0 \/ HasBookmark(feed, "block", n)
        at == IF db.progress = 0 THEN 1 ELSE BookmarkOf(feed, "block", n)
    IN  /\ pc = "start"
        /\ reader' = [at |-> IF found THEN at ELSE Len(feed) + 1, limit |-> Len(feed),
                      last |-> db.progress]
        /\ pc' = IF found /\ at <= Len(feed) THEN "read" ELSE "save"
        /\ conn' = IF found THEN conn ELSE "error"
        /\ UNCHANGED <<feedVars, disk, db, oneTx, own, unwindTo, search, faults>>

AfterEntry == IF reader.at = reader.limit THEN "save" ELSE "read"

NextEntry == feed[reader.at]

\* processBatchStartEntry, and processBatchEndEntry, which marks the last block.
ProcessBatchEntry ==
    /\ pc = "read"
    /\ reader.at <= Len(feed)
    /\ NextEntry.type # "block"
    /\ db' = [db EXCEPT !.ends =
                IF NextEntry.type = "end" THEN @ \cup {reader.last} ELSE @]
    /\ reader' = [reader EXCEPT !.at = @ + 1]
    /\ pc' = AfterEntry
    /\ UNCHANGED <<feedVars, disk, oneTx, own, unwindTo, search, conn, faults>>

\* A block the node has: the last one of the stage progress, in the same batch.
AlreadyProcessed(e) == e.num = db.progress /\ db.rows[e.num] = e.batch

\* The whole of writeL2Block that later steps look at.  WriteBlockBatch leaves the
\* block in the list of any other batch that has it.
WriteL2Block(d, e) ==
    LET blk == [batch |-> e.batch, tx |-> e.tx, root |-> e.root]
        top == IF e.num > Len(d.blocks) THEN e.num ELSE Len(d.blocks)
    IN  [d EXCEPT !.blocks = [i \in 1 .. top |-> IF i = e.num THEN blk ELSE @[i]],
                  !.rows[e.num] = e.batch,
                  !.lists = @ \cup {<<e.batch, e.num>>}]

\* processFullBlock, for a block that is skipped or written.  The comparison of the
\* parent's hash (lines 269-291) reads the hash of the last block twice from the same
\* table, so it never fails; the client hands on consecutive entries, so no number is
\* skipped (line 304).
ProcessFullBlock ==
    /\ pc = "read"
    /\ reader.at <= Len(feed)
    /\ NextEntry.type = "block"
    /\ NextEntry.num = reader.last + 1 \/ AlreadyProcessed(NextEntry)
    /\ IF NextEntry.num <= db.progress
       THEN db' = db /\ reader' = [reader EXCEPT !.at = @ + 1]
       ELSE /\ db' = WriteL2Block(db, NextEntry)
            /\ reader' = [reader EXCEPT !.at = @ + 1, !.last = NextEntry.num]
    /\ pc' = AfterEntry
    /\ UNCHANGED <<feedVars, disk, oneTx, own, unwindTo, search, conn, faults>>

\* processFullBlock, for a number the node has already: it unwinds.
ProcessRepeatedBlock ==
    /\ pc = "read"
    /\ reader.at <= Len(feed)
    /\ NextEntry.type = "block"
    /\ NextEntry.num <= reader.last
    /\ ~AlreadyProcessed(NextEntry)
    /\ search' = SearchFrom(NextEntry.num)
    /\ reader' = NoReader
    /\ pc' = "search"
    /\ UNCHANGED <<feedVars, disk, db, oneTx, own, unwindTo, conn, faults>>

\* The stream was cut behind the reader: no entry comes before the timeout.
ReadTimesOut ==
    /\ pc = "read"
    /\ reader.at > Len(feed)
    /\ conn' = "error"
    /\ pc' = "save"
    /\ UNCHANGED <<feedVars, disk, db, oneTx, own, unwindTo, clientVars, faults>>

\* The connection is lost; what was received is kept.
ReadFails ==
    /\ pc = "read"
    /\ Fault
    /\ conn' = "error"
    /\ pc' = "save"
    /\ UNCHANGED <<feedVars, disk, db, oneTx, own, unwindTo, clientVars>>

\* The channel is full when the last entry arrives: the end of the read is noticed
\* before the entry is sent again.
LastEntryDropped ==
    /\ pc = "read"
    /\ reader.at = reader.limit
    /\ Fault
    /\ pc' = "save"
    /\ UNCHANGED <<feedVars, disk, db, oneTx, own, unwindTo, clientVars, conn>>

\* The stage saves its progress and commits.  Without a new block it returns at once,
\* and a transaction of its own is rolled back.
SaveStageProgress ==
    /\ pc = "save"
    /\ IF reader.last = db.progress
       THEN StageEnds(IF oneTx THEN db ELSE disk)
       ELSE StageEnds([db EXCEPT !.progress = reader.last])
    /\ pc' = "execution"
    /\ reader' = NoReader
    /\ UNCHANGED <<feedVars, own, unwindTo, search, conn, faults>>

-----------------------------------------------------------------------------
(* rollback: a binary search for the common ancestor, one query at a time. *)

Mid == (search.lo + search.hi) \div 2

Matches(n) ==
    \/ n = 0
    \/ /\ BlockAt(feed, n).root = db.blocks[n].root
       /\ BlockAt(feed, n).batch = db.rows[n]

GetBatchNoByL2Block(d, n) == IF n = 0 THEN 0 ELSE d.rows[n]

GetHighestBlockInBatch(d, b) == Max({0} \cup {n \in Numbers : <<b, n>> \in d.lists})

FindAncestorUnmoved ==  \* seeded fault: a match does not move the candidate
    /\ pc = "search"
    /\ search.lo <= search.hi
    /\ search.hi # 0
    /\ Mid <= FeedHeight
    /\ search' = IF Matches(Mid)
                 THEN [search EXCEPT !.lo = Mid + 1, !.best = IF @ = Nil THEN Mid ELSE @]
                 ELSE [search EXCEPT !.hi = Mid - 1]
    /\ UNCHANGED <<feedVars, disk, db, oneTx, own, pc, unwindTo, reader, conn, faults>>

\* One iteration of the loop of findCommonAncestor.
FindCommonAncestor ==
    /\ pc = "search"
    /\ search.lo <= search.hi
    /\ search.hi # 0
    /\ Mid <= FeedHeight
    /\ search' = IF Matches(Mid) THEN [search EXCEPT !.lo = Mid + 1, !.best = Mid]
                 ELSE [search EXCEPT !.hi = Mid - 1]
    /\ UNCHANGED <<feedVars, disk, db, oneTx, own, pc, unwindTo, reader, conn, faults>>

RollbackWithinBatch ==  \* seeded fault: the ancestor's own batch is kept
    LET batch == GetBatchNoByL2Block(db, search.best) IN
    /\ pc = "search"
    /\ search.lo > search.hi
    /\ batch # 0
    /\ unwindTo' = GetHighestBlockInBatch(db, batch)
    /\ db' = IF oneTx THEN db ELSE disk
    /\ pc' = "unwindExec"
    /\ search' = NoSearch
    /\ UNCHANGED <<feedVars, disk, oneTx, own, reader, conn, faults>>

\* The end of the loop: the node goes back to the last block of the batch before the
\* ancestor's.  A transaction of the stage's own is rolled back.
Rollback ==
    LET batch == GetBatchNoByL2Block(db, search.best) IN
    /\ pc = "search"
    /\ search.lo > search.hi
    /\ batch # 0
    /\ unwindTo' = GetHighestBlockInBatch(db, batch - 1)
    /\ db' = IF oneTx THEN db ELSE disk
    /\ pc' = "unwindExec"
    /\ search' = NoSearch
    /\ UNCHANGED <<feedVars, disk, oneTx, own, reader, conn, faults>>

\* No ancestor, or none in a batch, or the sequencer no longer has the block asked for.
RollbackFails ==
    /\ pc = "search"
    /\ IF search.lo > search.hi THEN GetBatchNoByL2Block(db, search.best) = 0
       ELSE search.hi = 0 \/ Mid > FeedHeight
    /\ StageFails
    /\ UNCHANGED <<feedVars, conn, faults>>

QueryFails ==
    /\ pc = "search"
    /\ Fault
    /\ StageFails
    /\ UNCHANGED <<feedVars, conn>>

-----------------------------------------------------------------------------
(* The other stages. *)

\* Execution and the hash stages; the Headers progress follows Execution.
SpawnExecuteBlocks ==
    LET most == db.exec + LoopBlockLimit
        to == IF LoopBlockLimit > 0 /\ db.progress > most THEN most ELSE db.progress
    IN  /\ pc = "execution"
        /\ StageEnds(IF to > db.exec THEN [db EXCEPT !.exec = to, !.headers = to] ELSE db)
        /\ pc' = "stream"
        /\ UNCHANGED <<feedVars, own, unwindTo, clientVars, conn, faults>>

BlockEntriesEnding(d, n, closed) ==  \* seeded fault: a batch that is closed is closed again
    LET prev == GetBatchNoByL2Block(d, n - 1)
        blk == d.blocks[n]
        end == IF n = 1 THEN <<>> ELSE <<BatchEnd(prev, d.blocks[n - 1].root)>>
    IN  (IF blk.batch = prev THEN <<>> ELSE end \o BatchStartEntries(prev, blk.batch, blk.root))
        \o <<L2Block(n, blk)>>
        \o (IF n = d.progress /\ n \in d.ends THEN <<BatchEnd(blk.batch, blk.root)>> ELSE <<>>)

\* createBlockWithBatchCheckStreamEntriesProto: block n of the database, preceded by the
\* end and the start of batches if its batch is new, followed by its batch's end if it
\* is the last block the node knows and the feed has closed the batch.
BlockEntries(d, n, closed) ==
    LET prev == GetBatchNoByL2Block(d, n - 1)
        b == GetBatchNoByL2Block(d, n)
        blk == [d.blocks[n] EXCEPT !.batch = b]
        prevRoot == IF n = 1 THEN <<>> ELSE d.blocks[n - 1].root
        end == IF closed THEN <<>> ELSE <<BatchEnd(prev, prevRoot)>>
    IN  (IF b = prev THEN <<>> ELSE end \o BatchStartEntries(prev, b, blk.root))
        \o <<L2Block(n, blk)>>
        \o (IF n = d.progress /\ n \in d.ends THEN <<BatchEnd(b, blk.root)>> ELSE <<>>)

\* WriteBlocksToStreamConsecutively.  The genesis batch is not part of the file, so an
\* empty file stands for one that ends with a batch end.  The cached numbers are set
\* to `to`, the batch of `from` and the batch of the last block, also when from > to.
WriteBlocksToStreamConsecutively(ds, d, from, to) ==
    LET u == UnwindIfNecessary(ds, from, GetBatchNoByL2Block(d, from - 1),
                               IF from \in Numbers THEN d.rows[from] ELSE 0)
        closed == u.file = <<>> \/ IsLastEntryBatchEnd(u)
        upTo[n \in (from - 1) .. to] ==
            IF n = from - 1 THEN u.file
            ELSE upTo[n - 1] \o BlockEntries(d, n, n = from /\ closed)
        lastBatch == GetBatchNoByL2Block(d, IF from > to THEN from - 1 ELSE to)
    IN  [file |-> IF from > to THEN u.file ELSE upTo[to], block |-> to,
         batch |-> IF from \in Numbers THEN d.rows[from] ELSE 0, closed |-> lastBatch]

\* CatchupDatastream on a node that is not the sequencer.
CatchupDatastream ==
    /\ pc = "stream"
    /\ own' = WriteBlocksToStreamConsecutively(own, db, GetHighestBlockNumber(own) + 1, db.exec)
    /\ pc' = "finish"
    /\ UNCHANGED <<feedVars, disk, db, oneTx, unwindTo, clientVars, conn, faults>>

FinishForward ==
    /\ pc = "finish"
    /\ StartIteration([db EXCEPT !.finish = db.exec])
    /\ UNCHANGED <<feedVars, own, unwindTo, clientVars, conn, faults>>

-----------------------------------------------------------------------------
(* The unwinds, in the order of ZkUnwindOrder; a stage that is not above the *)
(* unwind point is left alone.                                               *)

UnwindExecutionSkipped ==  \* seeded fault: Execution keeps its progress
    /\ pc = "unwindExec"
    /\ StageEnds(db)
    /\ pc' = "unwindBatches"
    /\ UNCHANGED <<feedVars, own, unwindTo, clientVars, conn, faults>>

UnwindExecutionStage ==
    /\ pc = "unwindExec"
    /\ StageEnds(IF db.exec <= unwindTo THEN db
                 ELSE [db EXCEPT !.exec = unwindTo, !.headers = unwindTo])
    /\ pc' = "unwindBatches"
    /\ UNCHANGED <<feedVars, own, unwindTo, clientVars, conn, faults>>

UnwoundRowsOnly(d, to) ==  \* seeded fault: BATCH_BLOCKS is left as it is
    [d EXCEPT !.blocks = SubSeq(@, 1, to),
              !.rows = [n \in Numbers |-> IF n > to /\ n <= d.progress THEN 0 ELSE @[n]],
              !.ends = @ \ ((to + 1) .. d.progress),
              !.progress = to]

\* DeleteBlockBatches and DeleteBatchEnds stop at the stage progress; TruncateBlocks
\* removes every block above the unwind point.
UnwoundBatches(d, to) ==
    LET gone == (to + 1) .. d.progress
    IN  [d EXCEPT !.blocks = SubSeq(@, 1, to),
                  !.rows = [n \in Numbers |-> IF n \in gone THEN 0 ELSE @[n]],
                  !.lists = {l \in @ : ~(l[2] \in gone
                                         /\ \E n \in gone : d.rows[n] = l[1])},
                  !.ends = @ \ gone,
                  !.progress = to]

UnwindBatchesStage ==
    /\ pc = "unwindBatches"
    /\ StageEnds(IF db.progress <= unwindTo THEN db ELSE UnwoundBatches(db, unwindTo))
    /\ pc' = "unwindFinish"
    /\ UNCHANGED <<feedVars, own, unwindTo, clientVars, conn, faults>>

\* The unwind of Finish; a bad-block unwind then ends the iteration.
UnwindFinish ==
    /\ pc = "unwindFinish"
    /\ StartIteration(IF db.finish <= unwindTo THEN db ELSE [db EXCEPT !.finish = unwindTo])
    /\ unwindTo' = Nil
    /\ UNCHANGED <<feedVars, own, clientVars, conn, faults>>

-----------------------------------------------------------------------------
\* The process dies and is started again.
Crash ==
    /\ pc \in CrashPoints
    /\ Fault
    /\ StartIteration(disk)
    /\ own' = Opened(own.file)
    /\ unwindTo' = Nil
    /\ reader' = NoReader
    /\ search' = NoSearch
    /\ conn' = "new"
    /\ UNCHANGED feedVars

Node ==
    \/ SpawnStageBatches \/ StartRead
    \/ ProcessBatchEntry \/ ProcessFullBlock \/ ProcessRepeatedBlock \/ ReadTimesOut
    \/ SaveStageProgress \/ FindCommonAncestor \/ Rollback \/ RollbackFails
    \/ SpawnExecuteBlocks \/ CatchupDatastream \/ FinishForward
    \/ UnwindExecutionStage \/ UnwindBatchesStage \/ UnwindFinish

Faults ==
    HandleStartFails \/ HighestBlockFails \/ ReadFails \/ LastEntryDropped \/ QueryFails \/ Crash

Next == Sequencer \/ Node \/ Faults

Spec == Init /\ [][Next]_vars

\* The stage loop runs for ever; the sequencer and the faults owe nothing.
FairSpec == Spec /\ WF_vars(Node)

-----------------------------------------------------------------------------
\* Every variable is of its kind, no stage is ahead of the one before it, and the
\* blocks reach the progress of Batches, in the transaction and on disk.
TypeOK ==
    /\ cuts \in 0 .. MaxCuts /\ faults \in 0 .. MaxFaults
    /\ conn \in {"new", "up", "error", "nil"}
    /\ unwindTo \in {Nil, 0} \cup Numbers
    /\ \A d \in {db, disk} :
         /\ d.finish \in {0} \cup Numbers
         /\ 0 <= d.exec /\ d.exec <= d.progress /\ d.progress <= Len(d.blocks)
         /\ Len(d.blocks) <= MaxBlocks
         /\ d.headers = d.exec
         /\ d.rows \in [Numbers -> {0} \cup Batches]
         /\ d.lists \subseteq Batches \X Numbers
         /\ d.ends \subseteq {0} \cup Numbers

\* The blocks up to the stage progress are one chain, each built on the one before,
\* although the comparison of the parents' hashes in processFullBlock never finds a
\* difference: a fork is noticed by the height of the feed, by a repeated number, or
\* by the search, whatever is cut while the node reads, searches, unwinds or is down.
OneFork ==
    \A d \in {db, disk} : \A n \in 2 .. d.progress :
        d.blocks[n].root = Append(d.blocks[n - 1].root, d.blocks[n].tx)

\* BLOCKBATCHES and BATCH_BLOCKS say of every block up to the stage progress what the
\* block says, and no other batch claims it, although an unwind leaves the rows of
\* blocks that were written and never saved.
IndexCoherent ==
    \A d \in {db, disk} : \A n \in 1 .. d.progress, b \in Batches :
        /\ d.rows[n] = d.blocks[n].batch
        /\ <<b, n>> \in d.lists <=> b = d.blocks[n].batch

CommonAncestor(latest) ==
    Max({n \in 0 .. latest : \A m \in 1 .. n : SameBlock(BlockAt(feed, m), db.blocks[m])})

\* rollback resolves the last block of the batch before the one of the latest common
\* ancestor, for any chain of the node and any feed, if the sequencer does not cut its
\* stream during the search: no common batch but the last one is given up, and no
\* block that differs is kept.
UnwindsToBatchBefore ==
    [][pc = "search" /\ unwindTo' # unwindTo /\ search.cuts = cuts =>
         unwindTo' = Max({0} \cup {n \in 1 .. search.latest :
                       db.blocks[n].batch < db.blocks[CommonAncestor(search.latest)].batch})]_vars

\* The node's own stream keeps the grammar and has each block of the chain once, in
\* order, while the sequencer's stream only grows: batch ends are written with the
\* block, with the next batch, or by neither when the file already ends with one.
OwnStreamMatches ==
    cuts = 0 =>
        /\ WellFormed(own.file)
        /\ \A i \in 1 .. Len(own.file) : own.file[i].type = "block" =>
             LET n == HighestBlockInFile(SubSeq(own.file, 1, i - 1)) + 1
             IN  own.file[i] = L2Block(n, db.blocks[n])

Level ==
    /\ disk.progress = FeedHeight
    /\ disk.exec = FeedHeight
    /\ \A n \in 1 .. FeedHeight : SameBlock(BlockAt(feed, n), disk.blocks[n])

\* When the feed rests, the node ends up with exactly its blocks, executed and
\* committed, whatever was cut, lost, dropped or interrupted before.
CatchesUp == <>[](feed = <<>> \/ Level)
=============================================================================
