----------------------------- MODULE SmtCreate -----------------------------
(***************************************************************************)
(* The sparse Merkle tree with its bulk build (smt/pkg/smt/smt_create.go), *)
(* which the intermediate hashes stage uses to regenerate the tree from    *)
(* the plain state.  Three goroutines build it: the companion reads the    *)
(* values and saves results, since only it may touch the database; the     *)
(* builder puts the sorted keys into a binary tree in memory; the worker   *)
(* hashes and drops left sides that are final.  The build does not clear   *)
(* the tables, so it may follow any other operation.                       *)
(*                                                                         *)
(* The keys' source records and the progress printer are left out.         *)
(***************************************************************************)
EXTENDS Smt

CONSTANTS
    ReadAhead,    \* capacity of accountValuesReadChan
    CancelMidway  \* whether the context may end while values are still to be read

ASSUME CreateAssumption == ReadAhead \in Nat \ {0} /\ CancelMidway \in BOOLEAN

VARIABLE bulk  \* the build under way, or Idle

vars == <<content, root, nodes, hashKey, depth, others, bulk>>

Idle == [phase |-> "idle"]
Failed == [phase |-> "failed"]

-----------------------------------------------------------------------------
(* The tree in memory: a function from paths to nodes *)

SmtNode(rkey) == [rKey |-> rkey, leftHash |-> Zero]

IsLeafNode(mem, p) == Children(mem, p) = {} /\ mem[p].leftHash = Zero

Below(mem, p) == {q \in DOMAIN mem : IsPrefix(p, q)}

\* The last node on the way down to k; the empty path is the root.
FindLastNode(mem, k) ==
    Upto(k, Max({i \in 0 .. Len(k) : Upto(k, i) \in DOMAIN mem}))

\* The next key: what becomes of the tree, the node whose left side is now final (if
\* any), the level reached, and whether the sanity checks pass.
PutKey(mem, k) ==
    LET p == FindLastNode(mem, k)
        level == Len(p)
        old == p \o mem[p].rKey
        fork == Fork(k, old)
        bit == k[level + 1]
    IN  IF level > 0 /\ IsLeafNode(mem, p)
        THEN [ok |-> old[fork] = 0 /\ k[fork] = 1,
              mem |-> [q \in {Upto(k, i) : i \in level .. fork - 1} |-> SmtNode(<<>>)]
                        @@ (Upto(old, fork) :> SmtNode(RemoveKeyBits(old, fork)))
                        @@ (Upto(k, fork) :> SmtNode(RemoveKeyBits(k, fork)))
                        @@ mem,
              jobs |-> <<Upto(k, fork - 1)>>,
              level |-> fork]
        ELSE [ok |-> Append(p, bit) \notin DOMAIN mem /\ (bit = 1 \/ level = 0),
              mem |-> (Append(p, bit) :> SmtNode(RemoveKeyBits(k, level + 1))) @@ mem,
              jobs |-> IF bit = 1 /\ Append(p, 0) \in DOMAIN mem THEN <<p>> ELSE <<>>,
              level |-> level + 1]

\* deleteTreeNoSave: the hash of the subtree at p, from the values not hashed yet.
RECURSIVE DeleteTree(_, _, _)
DeleteTree(mem, vals, p) ==
    LET Half(d, gone) == IF Append(p, d) \in DOMAIN mem
                         THEN DeleteTree(mem, vals, Append(p, d)) ELSE gone
    IN  IF IsLeafNode(mem, p) THEN Leaf(mem[p].rKey, vals[p \o mem[p].rKey])
        ELSE Branch(Half(0, mem[p].leftHash), Half(1, Zero))

LeavesBelow(mem, p) == {q \in Below(mem, p) : IsLeafNode(mem, q)}

\* Every leaf has its value, and no left side was hashed before.
CanDelete(mem, vals, p) ==
    /\ p \in DOMAIN mem
    /\ \A q \in LeavesBelow(mem, p) : q \o mem[q].rKey \in DOMAIN vals
    /\ \A q \in Below(mem, p) : Append(q, 0) \in DOMAIN mem => mem[q].leftHash = Zero

\* The rows that hashing the subtree at p leaves to save.
JobResult(mem, vals, p) ==
    LET Hash(q) == DeleteTree(mem, vals, q)
        leaves == LeavesBelow(mem, p)
    IN  [nodes |-> {Hash(q) : q \in Below(mem, p)}
                    \cup {ValueNode(vals[q \o mem[q].rKey]) : q \in leaves},
         hashKey |-> [h \in {Hash(q) : q \in leaves} |->
                        LET q == CHOOSE l \in leaves : Hash(l) = h IN q \o mem[q].rKey]]

NoResult == [nodes |-> {}, hashKey |-> <<>>]

Save(r) == nodes' = nodes \cup r.nodes /\ hashKey' = r.hashKey @@ hashKey

-----------------------------------------------------------------------------
(* The goroutines *)

\* The order of SortNodeKeysBitwiseAsc.
Before(k, l) == k # l /\ k[Fork(k, l)] < l[Fork(k, l)]
Sorted(S) == SetToSortSeq(S, Before)

\* The build of the keys and values of c begins.
GenerateFromKVBulk(c) ==
    /\ bulk = Idle /\ others < MaxOthers /\ others' = others + 1
    /\ content' = c
    /\ bulk' = [phase |-> "running", keys |-> Sorted({k \in Keys : c[k] # None}),
                read |-> 0, taken |-> 0,
                mem |-> <<>> :> SmtNode(<<>>), vals |-> <<>>, level |-> 0,
                jobs |-> <<>>, results |-> <<>>,
                companion |-> "reads", worker |-> "works", cancelled |-> FALSE]
    /\ UNCHANGED <<root, nodes, hashKey, depth>>

Running == bulk.phase = "running"
Built == bulk.taken = Len(bulk.keys)

\* Seeded fault: the limit is counted from the first key, not from the next.
ReadLimitFromFirst == Min({Len(bulk.keys), ReadAhead - (bulk.read - bulk.taken)})

\* The companion fills the channel of values as far as it has room now.
ReadLimit == Min({Len(bulk.keys), bulk.read + ReadAhead - (bulk.read - bulk.taken)})

ReadValues ==
    /\ Running /\ bulk.companion = "reads"
    /\ bulk' = [bulk EXCEPT !.read = ReadLimit, !.companion = "waits"]
    /\ UNCHANGED smtVars

\* ... then waits for a result and saves it, or for the end of the results.
SaveResult ==
    /\ Running /\ bulk.companion = "waits" /\ bulk.results # <<>>
    /\ Save(Head(bulk.results))
    /\ bulk' = [bulk EXCEPT !.results = Tail(@), !.companion = "reads"]
    /\ UNCHANGED <<content, root, depth, others>>

NoMoreResults ==
    /\ Running /\ bulk.companion = "waits" /\ bulk.results = <<>> /\ bulk.worker = "ended"
    /\ bulk' = [bulk EXCEPT !.companion = "ended"]
    /\ UNCHANGED smtVars

\* One pass of runBuildSmtLoop, which waits for a value.
BuildNext ==
    /\ Running /\ bulk.taken < bulk.read
    /\ LET k == bulk.keys[bulk.taken + 1]
           new == PutKey(bulk.mem, k)
       IN  bulk' = IF ~new.ok THEN Failed
                   ELSE [bulk EXCEPT !.taken = @ + 1, !.mem = new.mem,
                                     !.vals = (k :> content[k]) @@ @,
                                     !.level = Max({@, new.level}),
                                     !.jobs = @ \o new.jobs]
    /\ UNCHANGED smtVars

\* The job the worker takes from the queue.
NextJob == Head(bulk.jobs)
OtherJobs == Tail(bulk.jobs)

\* The worker hashes the left side of a node, which then only has the hash.
DoJob ==
    /\ Running /\ bulk.worker = "works" /\ bulk.jobs # <<>>
    /\ LET left == Append(NextJob, 0)
           mem == bulk.mem
           rest == [q \in DOMAIN mem \ Below(mem, left) |-> mem[q]]
           done == {q \o mem[q].rKey : q \in LeavesBelow(mem, left)}
       IN  bulk' = IF ~CanDelete(mem, bulk.vals, left) THEN Failed
                   ELSE [bulk EXCEPT
                          !.jobs = OtherJobs,
                          !.results = Append(@, JobResult(mem, bulk.vals, left)),
                          !.mem = [rest EXCEPT ![NextJob].leftHash =
                                        DeleteTree(mem, bulk.vals, left)],
                          !.vals = [k \in DOMAIN @ \ done |-> @[k]]]
    /\ UNCHANGED smtVars

\* The worker ends when the queue is closed and empty, or when it sees the cancellation.
WorkerEnds ==
    /\ Running /\ bulk.worker = "works"
    /\ bulk.cancelled \/ (Built /\ bulk.jobs = <<>>)
    /\ bulk' = [bulk EXCEPT !.worker = "ended"]
    /\ UNCHANGED smtVars

Cancel ==
    /\ Running /\ bulk.worker = "works" /\ ~bulk.cancelled
    /\ CancelMidway \/ bulk.read = Len(bulk.keys)
    /\ bulk' = [bulk EXCEPT !.cancelled = TRUE]
    /\ UNCHANGED smtVars

\* The rest is hashed and saved.  A single leaf becomes the root, with its whole key.
Finish ==
    /\ Running /\ Built /\ bulk.worker = "ended" /\ bulk.companion = "ended"
    /\ LET mem == IF Len(bulk.keys) = 1 THEN <<>> :> SmtNode(Head(bulk.keys)) ELSE bulk.mem
           ok == CanDelete(mem, bulk.vals, <<>>)
       IN  /\ Save(IF ok THEN JobResult(mem, bulk.vals, <<>>) ELSE NoResult)
           /\ root' = IF ok THEN DeleteTree(mem, bulk.vals, <<>>) ELSE root
           /\ depth' = IF ok THEN UpdateDepth(bulk.level) ELSE depth
           /\ bulk' = IF ok THEN Idle ELSE Failed
    /\ UNCHANGED <<content, others>>

-----------------------------------------------------------------------------
InsertOne == \E k \in Keys, v \in Values \cup {None} : Insert(k, v)

\* A batch that repeats its entry is the batch of one entry.
InsertMany == \E batch \in [1 .. MaxBatch -> Entries] : InsertBatch(batch)

\* The tree of a chain is never empty.
Regenerate ==
    \E c \in [Keys -> Values \cup {None}] :
        (\E k \in Keys : c[k] # None) /\ GenerateFromKVBulk(c)

Companion == ReadValues \/ SaveResult \/ NoMoreResults \/ Finish
Worker == DoJob \/ WorkerEnds

Next ==
    \/ bulk = Idle /\ InsertOne /\ UNCHANGED bulk
    \/ bulk = Idle /\ InsertMany /\ UNCHANGED bulk
    \/ Regenerate
    \/ Companion \/ BuildNext \/ Worker \/ Cancel

InitCreate == Init /\ bulk = Idle

\* Goroutines that can go on do.
Spec == InitCreate /\ [][Next]_vars
FairSpec == Spec /\ WF_vars(Companion) /\ WF_vars(BuildNext) /\ WF_vars(Worker)

-----------------------------------------------------------------------------
(* Properties *)

\* The root is that of the tree of what was written last for each key, and of nothing
\* else, whatever single inserts, batches of inserts, updates and deletions, and bulk
\* builds led there: insert, InsertBatch and GenerateFromKVBulk agree on it.
RootIsCanonical == bulk = Idle => root = Canonical(content, <<>>)

\* Every node of the tree is in TableSmt, with the value of every leaf, and TableHashKey
\* names the key of every leaf: nothing the tree still uses is deleted by a batch that
\* deletes the nodes it has read before it saves its own.
TreeStored ==
    bulk = Idle =>
        /\ Tree(root) \subseteq nodes
        /\ \A k \in Keys : content[k] # None =>
            /\ ValueNode(content[k]) \in nodes
            /\ \E n \in Tree(root) : IsLeaf(n) /\ n \in DOMAIN hashKey /\ hashKey[n] = k

\* A tree written by InsertBatch is no deeper than the depth recorded by updateDepth,
\* which grows only.
DepthCovers == others = 0 => depth >= HeightOf(root)

\* A tree written by InsertBatch leaves no node behind that is no longer part of it.
NoOrphans == others = 0 => Orphans = {}

\* A bulk build ends, and without an error: no sanity check of the builder or the worker
\* fires, and companion, builder and worker never all wait for each other.
BulkEnds == bulk # Idle ~> bulk = Idle
=============================================================================
