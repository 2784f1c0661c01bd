----------------------------- MODULE RpcNodeInv -----------------------------
(* The inductive invariant of RpcNode, for a sequencer without quirks. *)
EXTENDS RpcNode

Root == Seq(Nat)
StoredBlock == [batch : Nat, tx : Nat, root : Root]
FeedEntry ==
    [type : {"start"}, batch : Nat] \cup [type : {"end"}, batch : Nat, root : Root]
      \cup [type : {"block"}, batch : Nat, num : Nat, tx : Nat, root : Root]

Starts(f) == {i \in 1 .. Len(f) : f[i].type = "start"}
Blocks(f) == {i \in 1 .. Len(f) : f[i].type = "block"}

\* r is a prefix of s.
Prefix(r, s) == Len(r) <= Len(s) /\ \A k \in 1 .. Len(r) : r[k] = s[k]

\* A batch start of a file: the batches before it have started, its first block follows.
StartOK(f, i) ==
    /\ f[i].batch > 0
    /\ i + 1 \in Blocks(f) /\ f[i + 1].batch = f[i].batch
    /\ \A b \in 1 .. (f[i].batch - 1) : \E j \in Starts(f) : j < i /\ f[j].batch = b
    /\ \A j \in Starts(f) : j < i => f[j].batch < f[i].batch

\* What a block of a file has in common with a block before it.
Follows(f, j, i) ==
    /\ f[j].num < f[i].num
    /\ f[j].batch <= f[i].batch
    /\ f[i].num = f[j].num + 1 => f[i].batch <= f[j].batch + 1
    /\ Prefix(f[j].root, f[i].root)

\* A block of a file: it is in a batch that has started and built on the blocks before.
BlockOK(f, i) ==
    /\ f[i].num \in Numbers /\ Len(f[i].root) = f[i].num
    /\ f[i].root[f[i].num] = f[i].tx
    /\ 0 < f[i].batch /\ f[i].batch <= f[i].num
    /\ \E j \in Starts(f) : j < i /\ f[j].batch = f[i].batch
    /\ \A n \in 1 .. (f[i].num - 1) : \E j \in Blocks(f) : j < i /\ f[j].num = n
    /\ \A j \in Blocks(f) : j < i => Follows(f, j, i)

FeedOK(f) ==
    /\ f \in Seq(FeedEntry)
    /\ \A i \in Starts(f) : StartOK(f, i)
    /\ \A i \in Blocks(f) : BlockOK(f, i)

DbType(d) ==
    /\ d \in [blocks : Seq(StoredBlock), rows : [Numbers -> {0} \cup Batches],
              lists : SUBSET (Batches \X Numbers), ends : SUBSET ({0} \cup Numbers),
              progress : Nat, exec : Nat, headers : Nat, finish : {0} \cup Numbers]
    /\ d.exec <= d.progress /\ d.progress <= Len(d.blocks) /\ Len(d.blocks) <= MaxBlocks
    /\ d.headers = d.exec

\* The blocks up to h are one chain in growing batches, and the rows name the batches.
ChainOK(d, h) ==
    /\ h \in 0 .. Len(d.blocks)
    /\ \A n \in 1 .. h :
         /\ Len(d.blocks[n].root) = n /\ d.blocks[n].root[n] = d.blocks[n].tx
         /\ d.blocks[n].batch > 0 /\ d.rows[n] = d.blocks[n].batch
         /\ n = 1 => d.blocks[n].batch = 1
         /\ n > 1 => d.blocks[n].batch <= d.blocks[n - 1].batch + 1
         /\ \A m \in 1 .. n : /\ d.blocks[m].batch <= d.blocks[n].batch
                              /\ Prefix(d.blocks[m].root, d.blocks[n].root)

\* The two directions of the index say the same.
IndexOK(d) ==
    /\ \A l \in d.lists : d.rows[l[2]] = l[1]
    /\ \A n \in Numbers : d.rows[n] # 0 => <<d.rows[n], n>> \in d.lists

\* If the feed f has block h, it is the node's.
Agrees(f, d, h) == \A i \in Blocks(f) : f[i].num = h => f[i].root = d.blocks[h].root

\* An equal block is in the same batch.
BatchesAgree(f, d) ==
    \A i \in Blocks(f) : \A n \in 1 .. Len(d.blocks) :
        f[i].num = n /\ f[i].root = d.blocks[n].root => f[i].batch = d.blocks[n].batch

\* Rows above the stage progress are those of the feed or of batches not in it.
RowsAhead(f, d) ==
    \A i \in Blocks(f) : \A m \in Numbers :
        f[i].num <= m /\ m > d.progress /\ d.rows[m] # 0 =>
            d.rows[m] >= f[i].batch /\ (f[i].num = m => d.rows[m] = f[i].batch)

DbOK(f, d) ==
    /\ DbType(d) /\ ChainOK(d, d.progress) /\ IndexOK(d)
    /\ Agrees(f, d, d.progress) /\ BatchesAgree(f, d) /\ RowsAhead(f, d)

Unwinding == {"unwindExec", "unwindBatches", "unwindFinish"}

ControlOK ==
    /\ cuts \in 0 .. MaxCuts /\ faults \in 0 .. MaxFaults
    /\ conn \in {"new", "up", "error", "nil"} /\ oneTx \in BOOLEAN
    /\ reader \in [at : Nat, limit : Nat, last : Nat]
    /\ search \in [lo : Nat, hi : Nat, best : Nat \cup {Nil}, latest : Nat, cuts : Nat]
    /\ unwindTo \in {Nil, 0} \cup Numbers
    /\ pc \in Unwinding <=> unwindTo # Nil
    /\ pc \notin {"read", "save"} => reader = NoReader
    /\ pc = "read" => reader.at > 0
    /\ pc # "search" => search = NoSearch

\* A transaction of the stage's own has changed nothing up to the stage progress.
TxOK ==
    oneTx \/ /\ db.progress = disk.progress
             /\ \A n \in 1 .. db.progress : db.blocks[n] = disk.blocks[n]

ReaderOK ==
    /\ ChainOK(db, reader.last) /\ Agrees(feed, db, reader.last)
    /\ pc \in {"read", "save"} => reader.last >= db.progress

SearchOK ==
    /\ ChainOK(db, search.latest)
    /\ search.cuts <= cuts /\ search.best = search.lo - 1
    /\ search.best <= search.latest /\ search.hi <= search.latest
    /\ \A m \in 1 .. search.best : Agrees(feed, db, m)

\* Without a cut, what lies above the upper bound of the search is not common.
SearchExact ==
    pc = "search" /\ search.cuts = cuts =>
        /\ \A n \in 1 .. search.latest : \E i \in Blocks(feed) : feed[i].num = n
        /\ \A i \in Blocks(feed) : feed[i].num \in (search.hi + 1) .. search.latest =>
             feed[i].root # db.blocks[feed[i].num].root

UnwindOK ==
    /\ pc = "unwindBatches" => db.exec <= unwindTo
    /\ pc \in {"unwindExec", "unwindBatches"} /\ unwindTo < db.progress => Agrees(feed, db, unwindTo)

RpcInv ==
    /\ FeedOK(feed) /\ ControlOK /\ DbOK(feed, db) /\ DbOK(feed, disk)
    /\ TxOK /\ ReaderOK /\ SearchOK /\ SearchExact /\ UnwindOK
=============================================================================
