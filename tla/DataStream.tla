----------------------------- MODULE DataStream -----------------------------
(***************************************************************************)
(* The data stream server (zk/datastream/server): an append-only file of   *)
(* entries plus three numbers the server caches in memory.  A value `ds`   *)
(* is the record [file, block, batch, closed]; block, batch and closed are *)
(* highestBlockWritten, highestBatchWritten and highestClosedBatchWritten, *)
(* Nil being the nil pointer.  Only the file survives a restart.           *)
(*                                                                         *)
(* A batch bookmark is written with its batch start and a block bookmark   *)
(* with its block, so the bookmarks are the positions of those entries;    *)
(* GER updates, L2 transactions and the block-end marker travel with the   *)
(* entry they belong to.  A chain is a sequence of blocks                  *)
(* [batch, tx, root], block n being chain[n].                              *)
(***************************************************************************)
EXTENDS Integers, Sequences

\* The nil pointer of the three cached numbers.
Nil == -1

BatchStart(b) == [type |-> "start", batch |-> b]

BatchEnd(b, root) == [type |-> "end", batch |-> b, root |-> root]

L2Block(n, blk) ==
    [type |-> "block", batch |-> blk.batch, num |-> n, tx |-> blk.tx, root |-> blk.root]

\* Position of the last entry of a type, 0 if there is none.
LastOfType(file, type) ==
    CHOOSE i \in 0 .. Len(file) :
        /\ i > 0 => file[i].type = type
        /\ \A j \in (i + 1) .. Len(file) : file[j].type # type

HighestBlockInFile(file) ==
    LET i == LastOfType(file, "block") IN IF i = 0 THEN 0 ELSE file[i].num

HighestBatchInFile(file) ==
    LET i == LastOfType(file, "start") IN IF i = 0 THEN 0 ELSE file[i].batch

HighestClosedInFile(file) ==
    LET i == LastOfType(file, "end") IN IF i = 0 THEN 0 ELSE file[i].batch

\* A server opened on an existing file: nothing is cached.
Opened(file) == [file |-> file, block |-> Nil, batch |-> Nil, closed |-> Nil]

GetHighestBlockNumber(ds) ==
    IF ds.block # Nil THEN ds.block ELSE HighestBlockInFile(ds.file)

GetHighestBatchNumber(ds) ==
    IF ds.batch # Nil THEN ds.batch ELSE HighestBatchInFile(ds.file)

GetHighestClosedBatch(ds) ==
    IF ds.closed # Nil THEN ds.closed ELSE HighestClosedInFile(ds.file)

\* Reading the highest batch caches it, unless the file has no batch start.
CacheBatch(ds) ==
    IF LastOfType(ds.file, "start") = 0 THEN ds
    ELSE [file |-> ds.file, block |-> ds.block, batch |-> GetHighestBatchNumber(ds),
          closed |-> ds.closed]

\* Reading the highest closed batch always caches it.
CacheClosed(ds) ==
    [file |-> ds.file, block |-> ds.block, batch |-> ds.batch,
     closed |-> GetHighestClosedBatch(ds)]

IsLastEntryBatchEnd(ds) ==
    ds.file # <<>> /\ ds.file[Len(ds.file)].type = "end"

TruncateFileLate(ds, pos) ==  \* seeded fault: off by one, the bookmark's entry stays
    [ds EXCEPT !.file = SubSeq(@, 1, pos)]

\* TruncateFile at a bookmark; the cached numbers are left as they are.
TruncateFile(ds, pos) == [ds EXCEPT !.file = SubSeq(@, 1, pos - 1)]

BookmarkOf(file, type, n) ==
    CHOOSE i \in 1 .. Len(file) :
        /\ file[i].type = type
        /\ n = IF type = "start" THEN file[i].batch ELSE file[i].num

HasBookmark(file, type, n) ==
    \E i \in 1 .. Len(file) :
        /\ file[i].type = type
        /\ n = IF type = "start" THEN file[i].batch ELSE file[i].num

UnwindToBatchStart(ds, b) == TruncateFile(ds, BookmarkOf(ds.file, "start", b))

UnwindToBlock(ds, n) == TruncateFile(ds, BookmarkOf(ds.file, "block", n))

UnwindEagerly(ds, n, prevBatch, b) ==  \* seeded fault: <= for <, the last block is cut
    IF GetHighestBlockNumber(ds) < n - 1 \/ ~HasBookmark(ds.file, "block", n - 1) THEN ds
    ELSE UnwindToBlock(ds, n - 1)

\* UnwindIfNecessary: the stream already has block n, written in an earlier life.
UnwindIfNecessary(ds, n, prevBatch, b) ==
    IF GetHighestBlockNumber(ds) < n THEN ds
    ELSE IF prevBatch # b THEN UnwindToBatchStart(ds, b)
    ELSE UnwindToBlock(ds, n)

\* The batch start of b, preceded by an empty batch for every number skipped
\* since prevBatch; their ends carry the root of the block about to be written.
BatchStartEntries(prevBatch, b, root) ==
    LET gap == b - prevBatch - 1
        skipped == IF gap > 0 THEN gap ELSE 0
    IN  [i \in 1 .. (2 * skipped + 1) |->
            LET w == prevBatch + ((i + 1) \div 2)
            IN  IF i > 2 * skipped THEN BatchStart(b)
                ELSE IF i % 2 = 1 THEN BatchStart(w) ELSE BatchEnd(w, root)]

\* WriteBlockWithBatchStartToStream for block n of the chain.
WriteBlockWithBatchStart(ds, n, blk, prevBatch) ==
    LET u == UnwindIfNecessary(ds, n, prevBatch, blk.batch)
        start == IF prevBatch = blk.batch THEN <<>>
                 ELSE BatchStartEntries(prevBatch, blk.batch, blk.root)
    IN  [file |-> u.file \o start \o <<L2Block(n, blk)>>,
         block |-> n, batch |-> blk.batch, closed |-> u.closed]

\* Seeded fault: the batch end is not recorded as the highest closed batch.
WriteBatchEndUncached(ds, b, root) == [ds EXCEPT !.file = Append(@, BatchEnd(b, root))]

\* WriteBatchEnd reads (and caches) the closed batch before it writes.
WriteBatchEnd(ds, b, root) ==
    [file |-> Append(ds.file, BatchEnd(b, root)), block |-> ds.block, batch |-> ds.batch,
     closed |-> b]

\* WriteWholeBatchToStream for a batch that is the single block n.
WriteWholeBatch(ds, n, blk, prevBatch) ==
    LET u == UnwindIfNecessary(ds, n, prevBatch, blk.batch)
    IN  [file |-> u.file \o <<BatchStart(blk.batch), L2Block(n, blk),
                              BatchEnd(blk.batch, blk.root)>>,
         block |-> n, batch |-> blk.batch, closed |-> blk.batch]

ReadBatchesShort(ds, from, to) ==  \* seeded fault: the last batch is left out
    [k \in 1 .. (IF to > from THEN to - from ELSE 1) |->
        SelectSeq(ds.file, LAMBDA e : e.type = "block" /\ e.batch = from + k - 1)]

\* ReadBatches(from, to): the blocks of each batch, in file order.
ReadBatches(ds, from, to) ==
    [k \in 1 .. (to - from + 1) |->
        SelectSeq(ds.file, LAMBDA e : e.type = "block" /\ e.batch = from + k - 1)]

-----------------------------------------------------------------------------
(* The grammar a reader of the stream relies on: every block lies in the   *)
(* batch opened last, a batch opens only after the previous one closed,    *)
(* a batch end closes the open batch, and batch numbers only grow.         *)
WellFormed(file) ==
    \A i \in 1 .. Len(file) :
        /\ file[i].type = "start" /\ i > 1 =>
             file[i - 1].type = "end" /\ file[i].batch = file[i - 1].batch + 1
        /\ file[i].type # "start" =>
             i > 1 /\ file[i - 1].type # "end" /\ file[i].batch = file[i - 1].batch
=============================================================================
