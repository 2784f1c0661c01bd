------------------------------ MODULE Realtime ------------------------------
(***************************************************************************)
(* The realtime cache of an RPC node (zk/realtime).  The sequencer sends    *)
(* every block over Kafka while it builds it: a new-block message, the      *)
(* transactions and a confirmed-block message.  The listener                *)
(* (ListenKafkaConsumer) files the messages in the Kafka cache and receives *)
(* the height of every execution the stage loop finishes; the realtime loop *)
(* (realtimeLoop) builds block states from the messages on top of the       *)
(* executed chain.  The two goroutines share the caches and two flags.      *)
(*                                                                          *)
(* A block is what is applied for it, in order.  The messages of all blocks *)
(* are on the topics from the start: the sequencer may be any distance      *)
(* ahead of the node, and the consumer joins at the first message.  Opening *)
(* a block and linking it to the state before it is one step.  The API      *)
(* readers, the stateless maps and the LRU limit of the Kafka cache are     *)
(* left out.                                                                *)
(***************************************************************************)
EXTENDS Integers, SequencesExt

CONSTANTS
    TxCount,            \* transactions of each block: a sequence
    HeightThreshold,    \* blocks kept behind the execution
    PendingLimit,       \* PendingBlocksCacheSizeThreshold
    MaxFaults           \* delayed and repeated messages, unwinds, failures

ASSUME RealtimeAssumption ==
    /\ TxCount \in Seq(Nat) /\ TxCount # <<>>
    /\ HeightThreshold \in Nat /\ PendingLimit \in Nat /\ MaxFaults \in Nat

VARIABLES
    topics,     \* messages of each topic that were not consumed yet
    late,       \* messages of each topic that may still arrive, out of order
    trigger,    \* an error trigger is on its topic
    listening,  \* the listener runs; ~listening is errorFlag
    db,         \* the block the chain database is at
    exec,       \* highestExecutionHeight
    kafka,      \* the Kafka cache
    resetFlag,
    ready,      \* ReadyFlag
    cache,      \* the realtime cache
    pc,         \* the realtime loop is about to ...
    seen,       \* the height the loop read at the start of this pass
    faults

vars == <<topics, late, trigger, listening, db, exec, kafka, resetFlag, ready, cache,
          pc, seen, faults>>

Blocks == 1..Len(TxCount)
Message(kind, n, i) == [kind |-> kind, block |-> n, index |-> i]

\* The sequencer's messages, one topic for the blocks and one for the transactions, each
\* in the order of the blocks and, for one block, of the index.
BlockTopic ==
    {Message("new", n, 0) : n \in Blocks} \union {Message("confirmed", n, 1) : n \in Blocks}
TxTopic ==
    UNION {{Message("tx", n, i) : i \in 0 .. (TxCount[n] - 1)} : n \in Blocks}

\* What is applied for block n before the transaction with index k.
AppliedUpTo(n, k) ==
    <<Message("new", n, 0)>> \o [i \in 1 .. k |-> Message("tx", n, i - 1)]

\* What is applied for block n when all its messages are: its first changeset, its
\* transactions and its last changeset.
Content(n) ==
    AppliedUpTo(n, TxCount[n]) \o <<Message("confirmed", n, 1)>>

\* A list that is sorted before it is read is a bag, here of transaction indices.
EmptyKafka == [new |-> {}, confirmed |-> {}, txs |-> [n \in Blocks |-> EmptyBag]]

\* highestConfirmHeight, highestPendingHeight, the state cache (globalHeight and
\* blocksCache) and pendingBlocks.  The state of a block is what was applied to it and
\* whether it has a previous block state (linked); one without reads the database.
EmptyCache == [confirm |-> 0, pending |-> 0, global |-> 0, blocks |-> <<>>, open |-> <<>>]

Init ==
    /\ topics = [block |-> BlockTopic, tx |-> TxTopic]
    /\ late = [block |-> {}, tx |-> {}]
    /\ trigger = FALSE
    /\ listening = TRUE
    /\ db = 0
    /\ exec = 0
    /\ kafka = EmptyKafka
    /\ resetFlag = FALSE
    /\ ready = FALSE
    /\ cache = EmptyCache
    /\ pc = "top"
    /\ seen = 0
    /\ faults = 0
-----------------------------------------------------------------------------
(* The topics. *)

\* m is the next message of its topic, in order.
NextMessage(t, m) ==
    /\ m \in topics[t]
    /\ \A k \in topics[t] \ {m} :
         m.block < k.block \/ (m.block = k.block /\ m.index < k.index)

Fault == /\ faults < MaxFaults
         /\ faults' = faults + 1
-----------------------------------------------------------------------------
(* The listener. *)

\* A message is filed in the Kafka cache, unless its block was executed.  A block
\* message of the executed block itself is kept: the cache can be initialised from it.
File(t, m) ==
    CASE t = "block" /\ m.block >= exec /\ m.kind = "new" ->
            [kafka EXCEPT !.new = @ \union {m.block}]
      [] t = "block" /\ m.block >= exec /\ m.kind = "confirmed" ->
            [kafka EXCEPT !.confirmed = @ \union {m.block}]
      [] t = "tx" /\ m.block > exec ->
            [kafka EXCEPT !.txs[m.block] = @ (+) SetToBag({m.index})]
      [] OTHER -> kafka

\* A message arrives in the order of its topic.
Receive(t) ==
    /\ listening
    /\ \E m \in topics[t] :
        /\ NextMessage(t, m)
        /\ topics' = [topics EXCEPT ![t] = @ \ {m}]
        /\ kafka' = File(t, m)
    /\ UNCHANGED <<late, trigger, listening, db, exec, resetFlag, ready, cache, pc, seen, faults>>

\* A message that was delayed or repeated arrives.
ReceiveLate(t) ==
    /\ listening
    /\ \E m \in late[t] :
        /\ late' = [late EXCEPT ![t] = @ \ {m}]
        /\ kafka' = File(t, m)
    /\ UNCHANGED <<topics, trigger, listening, db, exec, resetFlag, ready, cache, pc, seen, faults>>

ReceiveTrigger ==
    /\ listening
    /\ trigger
    /\ trigger' = FALSE
    /\ resetFlag' = TRUE
    /\ UNCHANGED <<topics, late, listening, db, exec, kafka, ready, cache, pc, seen, faults>>

\* The message is passed over.  When it was the producer that could not queue it, an
\* error trigger follows on a topic of its own; the broker sends none.
Delay(t) ==
    /\ Fault
    /\ \E m \in topics[t] :
        /\ NextMessage(t, m)
        /\ topics' = [topics EXCEPT ![t] = @ \ {m}]
        /\ late' = [late EXCEPT ![t] = @ \union {m}]
    /\ trigger' \in {trigger, TRUE}
    /\ UNCHANGED <<listening, db, exec, kafka, resetFlag, ready, cache, pc, seen>>

\* The message arrives and will arrive once more.
Repeat(t) ==
    /\ listening
    /\ Fault
    /\ \E m \in topics[t] :
        /\ NextMessage(t, m)
        /\ topics' = [topics EXCEPT ![t] = @ \ {m}]
        /\ kafka' = File(t, m)
        /\ late' = [late EXCEPT ![t] = @ \union {m}]
    /\ UNCHANGED <<trigger, listening, db, exec, resetFlag, ready, cache, pc, seen>>

\* Blocks up to n leave the state cache; the first that is not there ends it.
FlushedTo(n) ==
    LET present == {m \in cache.global .. n :
                        (cache.global + 1) .. m \subseteq DOMAIN cache.blocks}
    IN  IF n > cache.global /\ cache.global # 0
           /\ (cache.global + 1 \in DOMAIN cache.blocks => ~cache.blocks[cache.global + 1].linked)
        THEN Max(present) ELSE cache.global

FlushFails(n) == cache.global # 0 /\ n > cache.global /\ FlushedTo(n) # n

\* Seeded fault: the block after the flushed ones keeps its link.
FlushBlockLinked(n) ==
    LET to == FlushedTo(n)
    IN  [cache EXCEPT !.global = to,
                      !.blocks = [m \in {k \in DOMAIN @ : k > to} |-> @[m]]]

FlushBlock(n) ==
    LET to == FlushedTo(n)
    IN  IF to = cache.global THEN cache ELSE
        [cache EXCEPT
            !.global = to,
            !.blocks = [m \in {k \in DOMAIN @ : k > to} |->
                            IF m = to + 1 THEN [@[m] EXCEPT !.linked = FALSE] ELSE @[m]],
            !.open = [i \in DOMAIN @ |->
                        IF @[i].num = to + 1 THEN [@[i] EXCEPT !.linked = FALSE] ELSE @[i]]]

\* The stage loop has executed up to block h and hands h to the listener, which waits
\* for it in the same place as for messages.  A lower height is an unwind of the node.
Finish(h) ==
    LET old == h - HeightThreshold
        flush == h > exec /\ h > HeightThreshold
    IN  /\ listening
        /\ db' = h
        /\ exec' = Max({exec, h})
        /\ resetFlag' = (resetFlag \/ h < exec \/ (flush /\ FlushFails(old)))
        /\ cache' = IF flush THEN FlushBlock(old) ELSE cache
        /\ UNCHANGED <<topics, late, trigger, listening, kafka, ready, pc, seen>>

Execute == /\ \E h \in Blocks : h > db /\ Finish(h)
           /\ UNCHANGED faults

\* The node unwinds and executes again up to a lower block.
Unwind == /\ Fault
          /\ \E h \in Blocks : h < db /\ Finish(h)

\* The consumer reports an error: the listener returns.
ConsumerFails ==
    /\ listening
    /\ Fault
    /\ listening' = FALSE
    /\ UNCHANGED <<topics, late, trigger, db, exec, kafka, resetFlag, ready, cache, pc, seen>>
-----------------------------------------------------------------------------
(* The realtime loop. *)

GetPendingHeight == IF cache.pending = 0 THEN 0 ELSE cache.confirm + 1

\* The start of a pass: what the flags and the heights call for.
CheckFlags ==
    LET pendingHeight == GetPendingHeight
        corrupted == pendingHeight # 0 /\ pendingHeight < exec
    IN  /\ pc = "top"
        /\ pc' = IF ~listening THEN "stopped"
                 ELSE IF resetFlag THEN "reset"
                 ELSE IF ~ready THEN "init"
                 ELSE IF corrupted THEN "top" ELSE "apply"
        /\ ready' = (ready /\ listening)
        /\ resetFlag' = (resetFlag \/ (listening /\ ready /\ corrupted))
        /\ seen' = CASE pc' = "init" -> exec [] pc' = "apply" -> pendingHeight [] OTHER -> 0
        /\ UNCHANGED <<topics, late, trigger, listening, db, exec, kafka, cache, faults>>

\* resetRealtimeCache: the cache is cleared, then the flag.
ClearCache ==
    /\ pc = "reset"
    /\ ready' = FALSE
    /\ cache' = EmptyCache
    /\ pc' = "resetDone"
    /\ UNCHANGED <<topics, late, trigger, listening, db, exec, kafka, resetFlag, seen, faults>>

ResetDone ==
    /\ pc = "resetDone"
    /\ resetFlag' = FALSE
    /\ pc' = "top"
    /\ UNCHANGED <<topics, late, trigger, listening, db, exec, kafka, ready, cache, seen, faults>>

\* KafkaCache.Flush: nothing of the blocks up to n is kept.
FlushKafka(n) ==
    [new |-> {m \in kafka.new : m > n},
     confirmed |-> {m \in kafka.confirmed : m > n},
     txs |-> [m \in Blocks |-> IF m > n THEN kafka.txs[m] ELSE EmptyBag]]

\* Seeded fault: a block that is both executed and announced is not enough.
TryInitLevel ==
    /\ pc = "init"
    /\ pc' = "top" /\ seen' = 0
    /\ IF seen = 0 \/ \A n \in kafka.new : n >= seen
       THEN UNCHANGED <<kafka, ready, cache>>
       ELSE /\ cache' = [EmptyCache EXCEPT !.global = seen, !.confirm = seen]
            /\ kafka' = FlushKafka(seen)
            /\ ready' = TRUE
    /\ UNCHANGED <<topics, late, trigger, listening, db, exec, resetFlag, faults>>

\* tryInitRealtimeCache, at the execution height read when it began.
TryInitRealtimeCache ==
    /\ pc = "init"
    /\ pc' = "top" /\ seen' = 0
    /\ IF seen = 0 \/ \A n \in kafka.new : n > seen
       THEN UNCHANGED <<kafka, ready, cache>>
       ELSE /\ cache' = [EmptyCache EXCEPT !.global = seen, !.confirm = seen]
            /\ kafka' = FlushKafka(seen)
            /\ ready' = TRUE
    /\ UNCHANGED <<topics, late, trigger, listening, db, exec, resetFlag, faults>>

\* The number of the block the loop opens next.
NextHeight == (IF cache.pending = 0 THEN cache.confirm ELSE cache.pending) + 1

\* tryCreateNewPendingBlockContext: the block is linked to the state of the block
\* before it, unless that one is in the database.
Opened(n) ==
    [cache EXCEPT
        !.open = Append(@, [num |-> n, next |-> 0, count |-> -1, txs |-> EmptyBag, applied |-> <<>>,
                            linked |-> n - 1 # cache.confirm \/ n - 1 \in DOMAIN cache.blocks]),
        !.pending = n]

\* The new-block message of the next height opens a block; it is used up either way.
TryApplyNewBlockMsg ==
    /\ pc = "apply"
    /\ pc' = "handle"
    /\ IF NextHeight \notin kafka.new
       THEN UNCHANGED <<kafka, cache, resetFlag>>
       ELSE /\ kafka' = [kafka EXCEPT !.new = {m \in @ : m > NextHeight}]
            /\ IF Len(cache.open) > PendingLimit
               THEN resetFlag' = TRUE /\ UNCHANGED cache
               ELSE cache' = Opened(NextHeight) /\ UNCHANGED resetFlag
    /\ UNCHANGED <<topics, late, trigger, listening, db, exec, ready, seen, faults>>

AppliedTxsBlind(ctx, txs) ==  \* seeded fault: a repeated transaction counts
    LET end == ctx.next + BagCardinality(txs)
    IN  [ctx EXCEPT !.applied = AppliedUpTo(ctx.num, end), !.next = end, !.txs = EmptyBag]

\* The transactions of the block that can be applied now: from the next index on,
\* without a gap.  Repeated ones are dropped.
AppliedTxs(ctx, txs) ==
    LET here == BagToSet(txs)
        end == Min((ctx.next .. (ctx.next + Cardinality(here))) \ here)
        start == IF ctx.applied = <<>> THEN <<Message("new", ctx.num, 0)>> ELSE <<>>
        more == [k \in 1 .. (end - ctx.next) |-> Message("tx", ctx.num, ctx.next + k - 1)]
    IN  [ctx EXCEPT !.applied = @ \o start \o more,
                    !.next = end,
                    !.txs = [i \in {j \in here : j > end} |-> txs[i]]]

\* Seeded fault: a block is closed when nothing is queued.
CanCloseEarly(ctx) == /\ ctx.count >= 0
                      /\ ctx.txs = EmptyBag
                      /\ ctx.num = cache.confirm + 1

\* tryCloseBlock's conditions.
CanClose(ctx) == /\ ctx.count >= 0
                 /\ ctx.txs = EmptyBag
                 /\ ctx.count = ctx.next
                 /\ ctx.num = cache.confirm + 1

\* tryCloseBlock: the block leaves pendingBlocks, with every one before it.  AddBlock
\* would refuse a block it has, but it has none above highestConfirmHeight.
Closed(i, ctx) ==
    LET state == [linked |-> ctx.linked,
                  applied |-> Append(ctx.applied, Message("confirmed", ctx.num, 1))]
    IN  [cache EXCEPT
            !.blocks = [m \in DOMAIN @ \union {ctx.num} |-> IF m = ctx.num THEN state ELSE @[m]],
            !.open = SubSeq(@, i + 1, Len(@)),
            !.confirm = ctx.num]

\* The context is stored again, and its block closed if it can be.
TryCloseBlock(i, ctx) ==
    IF CanClose(ctx) THEN Closed(i, ctx) ELSE [cache EXCEPT !.open[i] = ctx]

\* HandlePendingBlocks, one block at a time: only the block after the confirmed ones
\* is worked on, and the next one when it is closed.
HandlePendingBlocks ==
    /\ pc = "handle"
    /\ IF cache.open = <<>> \/ Head(cache.open).num # cache.confirm + 1
       THEN pc' = "confirm" /\ UNCHANGED <<kafka, cache>>
       ELSE LET n == Head(cache.open).num
                ctx == AppliedTxs(Head(cache.open), Head(cache.open).txs (+) kafka.txs[n])
            IN  /\ kafka' = [kafka EXCEPT !.txs[n] = EmptyBag]
                /\ cache' = TryCloseBlock(1, ctx)
                /\ pc' = IF CanClose(ctx) THEN "handle" ELSE "confirm"
    /\ UNCHANGED <<topics, late, trigger, listening, db, exec, resetFlag, ready, seen, faults>>

\* TryCloseBlockFromConfirmedBlockMsg, for the pending height read at the start of the
\* pass.  A block that is not open resets the cache.
TryCloseFromConfirmed ==
    /\ pc = "confirm"
    /\ pc' = "top" /\ seen' = 0
    /\ IF seen = 0 \/ seen \notin kafka.confirmed
       THEN UNCHANGED <<kafka, cache, resetFlag>>
       ELSE LET at == {i \in DOMAIN cache.open : cache.open[i].num = seen}
            IN  IF at = {}
                THEN resetFlag' = TRUE /\ UNCHANGED <<kafka, cache>>
                ELSE /\ cache' = LET i == Min(at)
                                 IN  TryCloseBlock(i, [cache.open[i] EXCEPT !.count = TxCount[seen]])
                     /\ kafka' = [kafka EXCEPT !.confirmed = {m \in @ : m > seen}]
                     /\ UNCHANGED resetFlag
    /\ UNCHANGED <<topics, late, trigger, listening, db, exec, ready, faults>>
-----------------------------------------------------------------------------
Listener == Receive("block") \/ Receive("tx") \/ ReceiveTrigger

Loop == CheckFlags \/ ClearCache \/ ResetDone \/ TryInitRealtimeCache
        \/ TryApplyNewBlockMsg \/ HandlePendingBlocks \/ TryCloseFromConfirmed

Faults == \/ \E t \in {"block", "tx"} : Delay(t) \/ Repeat(t) \/ ReceiveLate(t)
          \/ Unwind \/ ConsumerFails

Next == Listener \/ Loop \/ Execute \/ Faults

Spec == Init /\ [][Next]_vars

\* Go runs every goroutine that can run and its select takes every channel that has
\* something; nothing makes a delayed message arrive.
FairSpec == /\ Spec
            /\ WF_vars(Loop) /\ WF_vars(Execute)
            /\ WF_vars(Receive("block")) /\ WF_vars(Receive("tx")) /\ WF_vars(ReceiveTrigger)
-----------------------------------------------------------------------------
Live == DOMAIN cache.blocks \union {cache.open[i].num : i \in DOMAIN cache.open}
Linked(n) == IF n \in DOMAIN cache.blocks THEN cache.blocks[n].linked
             ELSE \E i \in DOMAIN cache.open : cache.open[i].num = n /\ cache.open[i].linked

\* Every variable is of its kind, and no block has more transactions applied than it
\* has.
TypeOK ==
    /\ topics.block \subseteq BlockTopic /\ topics.tx \subseteq TxTopic
    /\ late.block \subseteq BlockTopic /\ late.tx \subseteq TxTopic
    /\ {trigger, listening, resetFlag, ready} \subseteq BOOLEAN
    /\ {db, exec} \subseteq 0 .. Len(TxCount)
    /\ kafka.new \subseteq Blocks /\ kafka.confirmed \subseteq Blocks
    /\ \A n \in Blocks : \A i \in BagToSet(kafka.txs[n]) : i < TxCount[n]
    /\ {cache.confirm, cache.pending, cache.global, seen} \subseteq 0 .. (Len(TxCount) + 1)
    /\ Live \subseteq Blocks
    /\ \A i \in DOMAIN cache.open : cache.open[i].next \in 0 .. TxCount[cache.open[i].num]
    /\ pc \in {"top", "reset", "resetDone", "init", "apply", "handle", "confirm", "stopped"}
    /\ faults \in 0 .. MaxFaults

\* A closed block is the sequencer's block: its messages were each applied once and in
\* order, whatever was delayed, repeated or lost, and however often the cache was
\* reset (tryApplyBlockTxMsgs, tryCloseBlock).
ClosedBlocksExact ==
    \A n \in DOMAIN cache.blocks : cache.blocks[n].applied = Content(n)

\* A reader of any block of the cache gets the state of all blocks up to it: the
\* states are linked without a gap, and the first reads the database at a block that
\* was executed.  Not promised while the node is below a height it had before
\* (UpdateExecution, FlushBlock, tryCreateNewPendingBlockContext).
ReadsWholeChain ==
    exec <= db =>
        /\ \A n \in Live : IF Linked(n) THEN n - 1 \in Live ELSE n - 1 <= db
        /\ ready => DOMAIN cache.blocks = (cache.global + 1) .. cache.confirm

\* Once all messages and executions are in, a cache that is on is at the executed block
\* or the one before it, and one that is off has no new block to start from.  A cache
\* that opened no block since it was initialised is only found to be behind when a
\* later execution flushes a block it lacks.
Settles ==
    <>[](listening =>
            IF ready THEN cache.pending # 0 => exec <= cache.confirm + 1
                     ELSE kafka.new = {})
=============================================================================
