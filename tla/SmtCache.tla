------------------------------ MODULE SmtCache ------------------------------
(***************************************************************************)
(* The SMT cache of asynchronous commit (zk/smt) and the goroutines around *)
(* it: the sequencer records the SMT changes of each block, a goroutine at *)
(* the end of each batch pushes them to a channel once a flush period is   *)
(* full, a dispatcher hands the images to at most maxWorkers flush workers,*)
(* and a worker that has written its image drops the snapshots it covers.  *)
(*                                                                         *)
(* The tree is a function from keys to values: block n writes n, or None   *)
(* for a deletion.  "lastHeight" is a key like any other, written by every *)
(* block.  An image or a delta is such a function on the keys it touches.  *)
(* PreBatchSnapshotImage is left out: nothing in the program reads it.     *)
(***************************************************************************)
EXTENDS Integers, Sequences, FiniteSets, FiniteSetsExt

CONSTANTS
    Keys,           \* keys of the tree besides "lastHeight"
    FlushPeriod,    \* flushSmtCachePeriod
    ResetPeriod,    \* 10*flushSmtCachePeriod: when LongLivedSmtCache is renewed
    ChannelSize,    \* capacity of SmtCacheDataCh
    MaxWorkers,     \* maxWorkers
    InOrder,        \* do images reach the SMT database in the order they were pushed?
    Stops,          \* may the operator stop the node?
    Errors,         \* what may fail: "limbo", "commit" (of a block), "flush" (of an image)
    MaxBlocks,      \* bound: blocks of the chain
    MaxErrors       \* bound: errors

ASSUME SmtCacheAssumption ==
    /\ "lastHeight" \notin Keys
    /\ {FlushPeriod, ResetPeriod, MaxBlocks, MaxErrors} \subseteq Nat
    /\ {ChannelSize, MaxWorkers} \subseteq Nat \ {0}
    /\ {InOrder, Stops} \subseteq BOOLEAN
    /\ Errors \subseteq {"limbo", "commit", "flush"}

VARIABLES
    db,         \* the SMT database
    view,       \* the read transaction of the running step
    longLived,  \* LongLivedSmtCache
    snapshots,  \* SmtCacheSnapshotList, oldest first
    current,    \* CurrentBatchBlockSnapshotList, oldest first
    toPush,     \* ToPushedSmtCache
    lastRecord, \* LastRecordBlockHeight
    lastPushed, \* LastPushedHeight
    lastReset,  \* LastResetHeight
    pushed,     \* PushedHeap: [data, seen]
    confirmed,  \* ConfirmedHeap
    channel,    \* SmtCacheDataCh
    seq,        \* the sequencer thread: between, in or after a step
    committed,  \* has the running step committed a block?
    tree,       \* tree[n + 1]: the tree after block n, for every committed block
    flusher,    \* FlushSmtCache in the goroutine of the batch end and in the shutdown
    dispatcher, \* AsyncFlushSmtData: [pc, held]
    worker,     \* FlushDataToDB, one per slot of the worker pool
    errors      \* what failed so far, in order

cacheVars == <<longLived, snapshots, current, toPush, lastRecord, lastPushed, lastReset>>
heapVars == <<pushed, confirmed>>
seqVars == <<seq, committed, tree, view>>
vars == <<db, cacheVars, heapVars, channel, seqVars, flusher, dispatcher, worker, errors>>

-----------------------------------------------------------------------------
None == 0
NoImage == [height |-> 0, data |-> <<>>]
Slots == 1 .. MaxWorkers
AllKeys == Keys \cup {"lastHeight"}

\* The maps of a newer image laid over an older one.
Merge(old, new) ==
    [k \in DOMAIN old \cup DOMAIN new |-> IF k \in DOMAIN new THEN new[k] ELSE old[k]]

\* The keys a list of snapshots touches, and the snapshots that touch a key.
Touched(list) == UNION {DOMAIN list[i].data : i \in DOMAIN list}
Touching(list, k) == {i \in DOMAIN list : k \in DOMAIN list[i].data}

MergeAllReversed(list) ==  \* seeded fault: older snapshots laid over newer ones
    [k \in Touched(list) |-> list[Min(Touching(list, k))].data[k]]

\* All snapshots of a list, the newer ones over the older.
MergeAll(list) == [k \in Touched(list) |-> list[Max(Touching(list, k))].data[k]]

\* What a reader of the cache over the database gets.
Read(base, cache) == [k \in AllKeys |-> Merge(base, cache)[k]]

\* The committed height of the chain.
Height == Len(tree) - 1

EmptyHeap == [data |-> {}, seen |-> {}]

\* ThreadSafePush: a height that was ever in the heap is discarded.
HeapPush(heap, h) ==
    IF h \in heap.seen THEN heap
    ELSE [data |-> heap.data \cup {h}, seen |-> heap.seen \cup {h}]

HeapPop(heap) ==
    IF heap.data = {} THEN heap ELSE [heap EXCEPT !.data = @ \ {Min(heap.data)}]

HeapTop(heap) == IF heap.data = {} THEN 0 ELSE Min(heap.data)

\* findNodeUnsafe: the newest snapshot of a height, or 0.
Newest(list, h) ==
    LET found == {i \in DOMAIN list : list[i].height = h}
    IN  IF found = {} THEN 0 ELSE Max(found)

\* cascadeDeleteCache: the snapshot of h and everything older.
CascadeDelete(list, h) == SubSeq(list, Newest(list, h) + 1, Len(list))

\* deleteTargetCache: the newest snapshot of h alone.
DeleteTarget(list, h) ==
    LET i == Newest(list, h)
    IN  IF i = 0 THEN list ELSE SubSeq(list, 1, i - 1) \o SubSeq(list, i + 1, Len(list))

\* Has a uint64 counter moved on by at least n?  A smaller height wraps around.
Since(height, last, n) == height < last \/ height - last >= n

\* Something of this kind fails.
Fails(kind) ==
    /\ kind \in Errors /\ Len(errors) < MaxErrors
    /\ errors' = Append(errors, kind)

Init ==
    /\ db = [k \in AllKeys |-> None] /\ view = db
    /\ longLived = <<>> /\ snapshots = <<>> /\ current = <<>> /\ toPush = <<>>
    /\ lastRecord = 0 /\ lastPushed = 0 /\ lastReset = 0
    /\ pushed = EmptyHeap /\ confirmed = EmptyHeap /\ channel = <<>>
    /\ seq = "between" /\ committed = FALSE /\ tree = <<db>>
    /\ flusher = [t \in {"batch", "stop"} |-> [pc |-> "off", height |-> 0]]
    /\ dispatcher = [pc |-> "loop", held |-> NoImage]
    /\ worker = [w \in Slots |-> [pc |-> "free", image |-> NoImage, top |-> 0]]
    /\ errors = <<>>

-----------------------------------------------------------------------------
(* The sequencer thread *)

\* FlushSmtCacheWait, then sequencingBatchStep opens its transactions.
StartStep ==
    /\ seq = "between" /\ flusher["batch"].pc = "off" /\ Height < MaxBlocks
    /\ seq' = "step" /\ committed' = FALSE /\ view' = db
    /\ UNCHANGED <<db, cacheVars, heapVars, channel, tree, flusher, dispatcher, worker, errors>>

\* A block is finalised over LongLivedSmtCache and recorded by SetSmtCache: it sets or
\* deletes a key, or touches "lastHeight" alone.
SetSmtCache ==
    /\ seq = "step" /\ Height < MaxBlocks
    /\ \E k \in AllKeys, v \in {Height + 1, None} :
         LET delta == [j \in {"lastHeight", k} |-> IF j = "lastHeight" THEN Height + 1 ELSE v]
             snapshot == [height |-> Height + 1, data |-> delta]
         IN  /\ snapshots' = Append(snapshots, snapshot)
             /\ current' = Append(current, snapshot)
             /\ longLived' = Merge(longLived, delta)
    /\ lastRecord' = Height + 1
    /\ seq' = "recorded"
    /\ UNCHANGED <<db, toPush, lastPushed, lastReset, heapVars, channel, committed, tree,
                   view, flusher, dispatcher, worker, errors>>

\* CommitAndStart: the block is on the chain.  The SMT read transaction is kept.
CommitBlock ==
    /\ seq = "recorded"
    /\ tree' = Append(tree, Merge(tree[Len(tree)], current[Len(current)].data))
    /\ seq' = "step" /\ committed' = TRUE
    /\ UNCHANGED <<db, cacheVars, heapVars, channel, view, flusher, dispatcher, worker, errors>>

\* The step ends without an error: FlushSmtCache in a goroutine.
EndStep ==
    /\ seq = "step" /\ committed
    /\ seq' = "between"
    /\ flusher' = [flusher EXCEPT !["batch"].pc = "merge"]
    /\ UNCHANGED <<db, cacheVars, heapVars, channel, committed, tree, view, dispatcher,
                   worker, errors>>

\* The step fails on the way to its first commit: the deferred handler starts a
\* goroutine that resets the cache to the committed height.
FailBeforeCommit ==
    /\ seq = "recorded" /\ ~committed
    /\ Fails("limbo")
    /\ seq' = "between"
    /\ flusher' = [flusher EXCEPT !["batch"].pc = "reset"]
    /\ UNCHANGED <<db, cacheVars, heapVars, channel, committed, tree, view, dispatcher, worker>>

\* The commit itself fails: its transaction is over when the handler reads the
\* committed height from it, the handler panics, and the cache is not reset.
FailInCommit ==
    /\ seq = "recorded"
    /\ Fails("commit")
    /\ seq' = "between"
    /\ UNCHANGED <<db, cacheVars, heapVars, channel, committed, tree, view, flusher,
                   dispatcher, worker>>

ResetCurrentBatchTooHigh ==  \* seeded fault: off by one, the failed block stays
    /\ flusher["batch"].pc = "reset"
    /\ flusher' = [flusher EXCEPT !["batch"].pc = "off"]
    /\ UNCHANGED <<db, cacheVars, heapVars, channel, seqVars, dispatcher, worker, errors>>

\* ResetCurrentBatch(Height + 1): forget the blocks above the committed height.  No
\* block is recorded more than one above it (TypeOK), so the loop runs once.
ResetCurrentBatch ==
    /\ flusher["batch"].pc = "reset"
    /\ IF Height + 1 > lastRecord THEN UNCHANGED cacheVars
       ELSE /\ current' = DeleteTarget(current, Height + 1)
            /\ snapshots' = DeleteTarget(snapshots, Height + 1)
            /\ longLived' = MergeAll(snapshots')
            /\ lastReset' = Height
            /\ UNCHANGED <<toPush, lastRecord, lastPushed>>
    /\ flusher' = [flusher EXCEPT !["batch"].pc = "off"]
    /\ UNCHANGED <<db, heapVars, channel, seqVars, dispatcher, worker, errors>>

-----------------------------------------------------------------------------
(* FlushSmtCache, run by the goroutine of a batch end and by the shutdown *)

\* Steps 1 and 2: the batch joins the image to push; LongLivedSmtCache is renewed
\* from the snapshots when it has grown for ResetPeriod blocks.
FlushMerge(t) ==
    /\ flusher[t].pc = "merge"
    /\ LET image == Merge(toPush, MergeAll(current))
           height == IF image = <<>> THEN 0 ELSE image["lastHeight"]
           due == (t = "batch") => Since(height, lastPushed, FlushPeriod)
       IN  /\ toPush' = image
           /\ flusher' = [flusher EXCEPT ![t] =
                            [pc |-> IF due THEN "send" ELSE "off", height |-> height]]
           /\ IF Since(height, lastReset, ResetPeriod + 1)
              THEN longLived' = MergeAll(snapshots) /\ lastReset' = height
              ELSE UNCHANGED <<longLived, lastReset>>
    /\ current' = <<>>
    /\ UNCHANGED <<db, snapshots, lastRecord, lastPushed, heapVars, channel, seqVars,
                   dispatcher, worker, errors>>

FlushSendBlind(t) ==  \* seeded fault: the channel is taken for unbounded
    /\ flusher[t].pc = "send"
    /\ channel' = Append(channel, [height |-> flusher[t].height, data |-> toPush])
    /\ flusher' = [flusher EXCEPT ![t].pc = "mark"]
    /\ UNCHANGED <<db, cacheVars, heapVars, seqVars, dispatcher, worker, errors>>

\* The select: a full channel is an error the caller ignores.
FlushSend(t) ==
    /\ flusher[t].pc = "send"
    /\ IF Len(channel) < ChannelSize
       THEN /\ channel' = Append(channel, [height |-> flusher[t].height, data |-> toPush])
            /\ flusher' = [flusher EXCEPT ![t].pc = "mark"]
       ELSE channel' = channel /\ flusher' = [flusher EXCEPT ![t].pc = "off"]
    /\ UNCHANGED <<db, cacheVars, heapVars, seqVars, dispatcher, worker, errors>>

\* The image is on its way: record its height and start a new one.
FlushMark(t) ==
    /\ flusher[t].pc = "mark"
    /\ pushed' = HeapPush(pushed, flusher[t].height)
    /\ lastPushed' = flusher[t].height
    /\ toPush' = <<>>
    /\ flusher' = [flusher EXCEPT ![t].pc = "off"]
    /\ UNCHANGED <<db, longLived, snapshots, current, lastRecord, lastReset, confirmed,
                   channel, seqVars, dispatcher, worker, errors>>

-----------------------------------------------------------------------------
(* AsyncFlushSmtData *)

\* The dispatcher takes an image; it blocks on the worker pool with the image in hand.
Receive ==
    /\ dispatcher.pc \in {"loop", "drain"} /\ dispatcher.held = NoImage /\ channel # <<>>
    /\ dispatcher' = [dispatcher EXCEPT !.held = Head(channel)]
    /\ channel' = Tail(channel)
    /\ UNCHANGED <<db, cacheVars, heapVars, seqVars, flusher, worker, errors>>

\* dispatchFlushTask, as soon as a slot is free.
Dispatch ==
    /\ dispatcher.held # NoImage
    /\ \E w \in Slots :
         /\ worker[w].pc = "free" /\ \A v \in 1 .. (w - 1) : worker[v].pc # "free"
         /\ worker' = [worker EXCEPT ![w] =
                          [pc |-> "flush", image |-> dispatcher.held, top |-> 0]]
    /\ dispatcher' = [dispatcher EXCEPT !.held = NoImage]
    /\ UNCHANGED <<db, cacheVars, heapVars, channel, seqVars, flusher, errors>>

\* Stop: the stage loop has ended, the context of the flush service is cancelled,
\* and handleShutdown pushes what is left, without waiting for the goroutine of
\* the last batch.
Stop ==
    /\ Stops /\ seq = "between" /\ dispatcher.pc = "loop" /\ dispatcher.held = NoImage
    /\ seq' = "stopped"
    /\ dispatcher' = [dispatcher EXCEPT !.pc = "flush"]
    /\ flusher' = [flusher EXCEPT !["stop"].pc = "merge"]
    /\ UNCHANGED <<db, cacheVars, heapVars, channel, committed, tree, view, worker, errors>>

\* handleShutdown goes on to drain the channel.
Drain ==
    /\ dispatcher.pc = "flush" /\ flusher["stop"].pc = "off"
    /\ dispatcher' = [dispatcher EXCEPT !.pc = "drain"]
    /\ UNCHANGED <<db, cacheVars, heapVars, channel, seqVars, flusher, worker, errors>>

NotWaiting(d) == TRUE  \* seeded fault: the workers are not waited for

\* The wait group of the workers.
WorkersDone(d) == \A w \in Slots : worker[w].pc = "free"

DoneUndrained ==  \* seeded fault: images left in the channel are dropped
    /\ dispatcher.pc = "drain" /\ dispatcher.held = NoImage
    /\ WorkersDone(dispatcher)
    /\ dispatcher' = [dispatcher EXCEPT !.pc = "done"]
    /\ UNCHANGED <<db, cacheVars, heapVars, channel, seqVars, flusher, worker, errors>>

\* The channel is empty: wait for the workers, and let Stop go on.
Done ==
    /\ dispatcher.pc = "drain" /\ dispatcher.held = NoImage /\ channel = <<>>
    /\ WorkersDone(dispatcher)
    /\ dispatcher' = [dispatcher EXCEPT !.pc = "done"]
    /\ UNCHANGED <<db, cacheVars, heapVars, channel, seqVars, flusher, worker, errors>>

-----------------------------------------------------------------------------
(* FlushDataToDB *)

\* The image is written in one transaction.
Flush(w) ==
    /\ worker[w].pc = "flush"
    /\ InOrder => \A v \in Slots :
         worker[v].pc = "flush" => worker[w].image.height <= worker[v].image.height
    /\ db' = Merge(db, worker[w].image.data)
    /\ worker' = [worker EXCEPT ![w].pc = "confirm"]
    /\ UNCHANGED <<cacheVars, heapVars, channel, seqVars, flusher, dispatcher, errors>>

FlushFailsUnnoticed(w) ==  \* seeded fault: the error is not looked at
    /\ worker[w].pc = "flush"
    /\ Fails("flush")
    /\ worker' = [worker EXCEPT ![w].pc = "confirm"]
    /\ UNCHANGED <<db, cacheVars, heapVars, channel, seqVars, flusher, dispatcher>>

\* The transaction fails; the error is logged.
FlushFails(w) ==
    /\ worker[w].pc = "flush"
    /\ Fails("flush")
    /\ worker' = [worker EXCEPT ![w].pc = "free"]
    /\ UNCHANGED <<db, cacheVars, heapVars, channel, seqVars, flusher, dispatcher>>

\* TruncateSmtCacheList: every access to a heap or to the list is locked by itself.
Confirm(w) ==
    /\ worker[w].pc = "confirm"
    /\ confirmed' = HeapPush(confirmed, worker[w].image.height)
    /\ worker' = [worker EXCEPT ![w].pc = "top"]
    /\ UNCHANGED <<db, cacheVars, pushed, channel, seqVars, flusher, dispatcher, errors>>

ReadTop(w) ==
    /\ worker[w].pc = "top"
    /\ worker' = [worker EXCEPT ![w] = [@ EXCEPT !.pc = "compare", !.top = HeapTop(confirmed)]]
    /\ UNCHANGED <<db, cacheVars, heapVars, channel, seqVars, flusher, dispatcher, errors>>

CompareTop(w) ==
    /\ worker[w].pc = "compare"
    /\ worker' = [worker EXCEPT ![w].pc =
                     IF worker[w].top = HeapTop(pushed) /\ worker[w].top > 0
                     THEN "popConfirmed" ELSE "free"]
    /\ UNCHANGED <<db, cacheVars, heapVars, channel, seqVars, flusher, dispatcher, errors>>

PopConfirmed(w) ==
    /\ worker[w].pc = "popConfirmed"
    /\ confirmed' = HeapPop(confirmed)
    /\ worker' = [worker EXCEPT ![w].pc = "popPushed"]
    /\ UNCHANGED <<db, cacheVars, pushed, channel, seqVars, flusher, dispatcher, errors>>

PopPushed(w) ==
    /\ worker[w].pc = "popPushed"
    /\ pushed' = HeapPop(pushed)
    /\ worker' = [worker EXCEPT ![w].pc = "delete"]
    /\ UNCHANGED <<db, cacheVars, confirmed, channel, seqVars, flusher, dispatcher, errors>>

DeleteSnapshots(w) ==
    /\ worker[w].pc = "delete"
    /\ snapshots' = CascadeDelete(snapshots, worker[w].top)
    /\ worker' = [worker EXCEPT ![w].pc = "top"]
    /\ UNCHANGED <<db, longLived, current, toPush, lastRecord, lastPushed, lastReset,
                   heapVars, channel, seqVars, flusher, dispatcher, errors>>

Work(w) ==
    \/ Flush(w) \/ Confirm(w) \/ ReadTop(w) \/ CompareTop(w)
    \/ PopConfirmed(w) \/ PopPushed(w) \/ DeleteSnapshots(w)

Sequence ==
    StartStep \/ SetSmtCache \/ CommitBlock \/ EndStep \/ FailBeforeCommit \/ FailInCommit

FlushCache(t) == FlushMerge(t) \/ FlushSend(t) \/ FlushMark(t)

Dispatching == Receive \/ Dispatch \/ Drain \/ Done

\* The node has stopped, or the chain of a node nobody stops is full.
Idle ==
    /\ dispatcher.pc = "done" \/ (~Stops /\ seq = "between" /\ Height = MaxBlocks)
    /\ UNCHANGED vars

Next ==
    \/ Sequence \/ ResetCurrentBatch \/ Dispatching \/ Stop \/ Idle
    \/ \E t \in {"batch", "stop"} : FlushCache(t)
    \/ \E w \in Slots : Work(w) \/ FlushFails(w)

Spec == Init /\ [][Next]_vars

\* Every goroutine runs; nothing obliges the operator to stop the node.
FairSpec ==
    /\ Spec
    /\ WF_vars(ResetCurrentBatch) /\ WF_vars(Dispatching)
    /\ \A t \in {"batch", "stop"} : WF_vars(FlushCache(t))
    /\ \A w \in Slots : WF_vars(Work(w))

-----------------------------------------------------------------------------
(* Properties *)

\* Every variable has the shape the Go declarations give it.
TypeOK ==
    /\ {db, view} \subseteq [AllKeys -> 0 .. MaxBlocks]
    /\ {lastRecord, lastPushed, lastReset} \subseteq 0 .. MaxBlocks
    /\ \A h \in {pushed, confirmed} : h.data \subseteq h.seen /\ h.seen \subseteq 0 .. MaxBlocks
    /\ Len(channel) <= ChannelSize
    /\ \A i \in DOMAIN tree : tree[i] \in [AllKeys -> 0 .. MaxBlocks]
    /\ \A i \in DOMAIN snapshots : snapshots[i].height \in 1 .. MaxBlocks
    /\ lastRecord <= Height + 1

\* A commit that fails leaves its block in the cache, a write that fails loses an
\* image, and a stop may overtake the reset after a failed step; after these the
\* database may mix blocks.
NoneSkipped ==
    /\ \A i \in 1 .. Len(errors) : errors[i] = "limbo"
    /\ seq = "stopped" => errors = <<>>

\* The sequencer builds every block on the tree of the block before it: what the
\* cache no longer holds is in the step's view of the SMT database.
ReadsLatest ==
    seq = "step" /\ NoneSkipped => Read(view, longLived) = tree[Len(tree)]

\* Whenever the process dies, the SMT database is the tree of one block, the one
\* its lastHeight names; the alignment at the next start relies on it.
DbIsOneBlock ==
    NoneSkipped => db["lastHeight"] <= Height /\ db = tree[db["lastHeight"] + 1]

\* No snapshot is dropped before the database has its block, whatever failed, as
\* long as the node runs.
SnapshotsCover ==
    seq # "stopped" =>
        \A n \in (db["lastHeight"] + 1) .. Height :
            \E i \in 1 .. Len(snapshots) : snapshots[i].height = n

\* A node that has stopped in good order has left the tree of its last block.
StopSavesAll ==
    dispatcher.pc = "done" /\ NoneSkipped => db = tree[Len(tree)]

\* What was pushed to the channel reaches the database, whatever failed before the push.
PushedIsFlushed ==
    \A n \in 1 .. MaxBlocks : lastPushed >= n ~> db["lastHeight"] >= n
=============================================================================
