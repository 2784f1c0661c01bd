-------------------------------- MODULE Smt --------------------------------
(***************************************************************************)
(* The sparse Merkle tree (smt/pkg/smt): the incremental insert with which *)
(* the genesis is written, and the batch insert of every block, over the   *)
(* tables of the SMT database: nodes by their hash, keys by the hash of    *)
(* their leaf, the last root and the depth.                                *)
(*                                                                         *)
(* A hash is the term that was hashed, so hashes do not collide and a node *)
(* is its own hash; the table of nodes is the set of those stored.  A key  *)
(* is its path: a few bits on which keys branch, and one number for the    *)
(* rest of the 256, in which keys always differ.  The tree the batch holds *)
(* in memory is a function from paths to nodes: a pointer is a path.       *)
(***************************************************************************)
EXTENDS Integers, FiniteSets, FiniteSetsExt, SequencesExt

CONSTANTS
    Keys,        \* the paths of the keys
    Values,      \* the values other than zero
    None,        \* the value zero, which deletes a key
    MaxBatch,    \* bound: entries of a batch
    MaxOthers,   \* bound: operations other than batches
    EmptyMidway  \* whether a batch may empty the tree before its last entry

\* Keys branch in their bits, and no two have the same rest.
ASSUME SmtAssumption ==
    /\ None \notin Values /\ EmptyMidway \in BOOLEAN
    /\ {MaxBatch, MaxOthers} \subseteq Nat
    /\ \A k, l \in Keys :
        /\ Len(k) = Len(l) /\ \A i \in 1 .. Len(k) - 1 : k[i] \in {0, 1}
        /\ k # l => Last(k) # Last(l) /\ Front(k) # Front(l)

VARIABLES
    content,  \* what was written: the reference
    root,     \* the last root
    nodes,    \* TableSmt
    hashKey,  \* TableHashKey: the key of a leaf
    depth,    \* the recorded depth
    others    \* operations other than batches so far

smtVars == <<content, root, nodes, hashKey, depth, others>>

-----------------------------------------------------------------------------
(* Nodes and paths *)

Zero == [zero |-> 0]
Leaf(rkey, v) == [rkey |-> rkey, value |-> v]
Branch(l, r) == [left |-> l, right |-> r]
ValueNode(v) == [stored |-> v]

IsLeaf(n) == "rkey" \in DOMAIN n
Side(n, d) == IF d = 0 THEN n.left ELSE n.right
WithSide(n, d, h) == IF d = 0 THEN Branch(h, n.right) ELSE Branch(n.left, h)

\* Whether a branch has one side only, and which.
IsUniqueSibling(n) == (n.left = Zero) # (n.right = Zero)
UniqueSibling(n) == IF n.left = Zero THEN 1 ELSE 0

\* The node of a hash; a hash that is not stored reads as an empty branch.
Get(h) == IF h \in nodes THEN h ELSE Branch(Zero, Zero)

RemoveKeyBits(k, n) == SubSeq(k, n + 1, Len(k))
Upto(k, n) == SubSeq(k, 1, n)

\* The first place where two keys differ.
Fork(k, l) == Min({i \in 1 .. Len(k) : k[i] # l[i]})

UpdateDepthLatest(n) == n  \* seeded fault: the depth of the last operation

UpdateDepth(n) == IF n > depth THEN n ELSE depth

Init ==
    /\ content = [k \in Keys |-> None]
    /\ root = Zero /\ nodes = {} /\ hashKey = <<>> /\ depth = 0 /\ others = 0

-----------------------------------------------------------------------------
(* insert: one key *)

\* The nodes from h down along k, to a leaf or to where there is nothing.
RECURSIVE Walk(_, _, _)
Walk(h, k, level) ==
    IF h = Zero THEN <<>>
    ELSE LET n == Get(h)
         IN  IF IsLeaf(n) THEN <<n>>
             ELSE <<n>> \o Walk(Side(n, k[level + 1]), k, level + 1)

\* The branches of a path rehashed from its end, where the child is now h.
RECURSIVE Rehash(_, _, _)
Rehash(branches, k, h) ==
    IF branches = <<>> THEN <<h>>
    ELSE LET n == WithSide(Last(branches), k[Len(branches)], h)
         IN  Append(Rehash(Front(branches), k, n), h)

\* The chain of branches that holds the two leaves of "insertFound", hashed from the
\* fork of the two keys up to level.
RECURSIVE Chain(_, _, _, _)
Chain(k, from, level, h) ==
    IF from = level THEN <<h>>
    ELSE Append(Chain(k, from - 1, level,
                      WithSide(Branch(Zero, Zero), k[from], h)), h)

\* What insert does for each of its modes: the branches left to rehash, the nodes put
\* below them (the topmost first), and the leaves hashed, with their keys.
InsertMode(k, v) ==
    LET walk == Walk(root, k, 0)
        found == walk # <<>> /\ IsLeaf(Last(walk))
        above == IF found THEN Front(walk) ELSE walk
        level == Len(above)
        foundKey == Upto(k, level) \o Last(walk).rkey
        deletes == v = None /\ found /\ foundKey = k
        leaf == Leaf(RemoveKeyBits(k, level), v)
        fork == Fork(k, foundKey)
        old == Leaf(RemoveKeyBits(foundKey, fork), Last(walk).value)
        new == Leaf(RemoveKeyBits(k, fork), v)
        node == WithSide(WithSide(Branch(Zero, Zero), k[fork], new), foundKey[fork], old)
        parent == WithSide(Last(above), k[level], Zero)
        u == UniqueSibling(parent)
        sibling == Get(Side(parent, u))
        insKey == Append(Upto(k, level - 1), u) \o sibling.rkey
        kept == Max({0} \cup {i \in 1 .. level - 1 : ~IsUniqueSibling(above[i])})
        lifted == Leaf(RemoveKeyBits(insKey, kept), sibling.value)
    IN  CASE v # None /\ found /\ foundKey # k ->  \* insertFound
               [above |-> above, below |-> Chain(k, fork - 1, level, node),
                leaves |-> (old :> foundKey) @@ (new :> k)]
          [] v # None /\ ~(found /\ foundKey # k) ->  \* update, insertNotFound
               [above |-> above, below |-> <<leaf>>, leaves |-> leaf :> k]
          [] deletes /\ level = 0 ->  \* deleteLast
               [above |-> <<>>, below |-> <<Zero>>, leaves |-> <<>>]
          [] deletes /\ level > 0 /\ IsLeaf(sibling) ->  \* deleteFound
               [above |-> Upto(above, kept), below |-> <<lifted>>, leaves |-> lifted :> insKey]
          [] deletes /\ level > 0 /\ ~IsLeaf(sibling) ->  \* deleteNotFound
               [above |-> above, below |-> <<Zero>>, leaves |-> <<>>]
          [] OTHER ->  \* zeroToZero
               [above |-> above, below |-> <<IF found THEN Last(walk) ELSE Zero>>,
                leaves |-> <<>>]

\* insertSingle: what was hashed is saved, nothing is deleted.
Insert(k, v) ==
    /\ others < MaxOthers /\ others' = others + 1
    /\ LET m == InsertMode(k, v)
           path == Rehash(m.above, k, Head(m.below))
       IN  /\ root' = Head(path)
           /\ nodes' = nodes \cup ((ToSet(path) \cup ToSet(m.below) \cup DOMAIN m.leaves) \ {Zero})
                        \cup (IF v = None THEN {} ELSE {ValueNode(v)})
           /\ hashKey' = m.leaves @@ hashKey
           /\ depth' = UpdateDepth(Len(m.above))
    /\ content' = [content EXCEPT ![k] = v]

-----------------------------------------------------------------------------
(* InsertBatch *)

\* The later of two entries with the same key wins.
RemoveDuplicateEntriesByKeys(entries) ==
    FoldLeft(LAMBDA kept, e : Append(SelectSeq(kept, LAMBDA f : f.key # e.key), e),
             <<>>, entries)

\* Seeded fault: what is read is not noted down for deletion.
FetchUnnoted(t, p, h) ==
    IF p \in DOMAIN t.mem \/ h = Zero THEN t
    ELSE [mem |-> (p :> Get(h)) @@ t.mem, visited |-> t.visited]

\* fetchNodeDataFromDb for the place p of the tree in memory: a node that is read has to
\* be deleted from the table.
Fetch(t, p, h) ==
    IF p \in DOMAIN t.mem \/ h = Zero THEN t
    ELSE [mem |-> (p :> Get(h)) @@ t.mem, visited |-> t.visited \cup {h}]

\* Down from the place p, whose hash in the table is h, to the leaf or the branch where
\* k belongs.  A deletion also reads the other side of every branch it passes.
RECURSIVE FindInsertingPoint(_, _, _, _, _)
FindInsertingPoint(tree, k, p, h, siblings) ==
    LET t == Fetch(tree, p, h)
        n == t.mem[p]
        next == Append(p, k[Len(p) + 1])
        both == IF ~siblings THEN t
                ELSE Fetch(Fetch(t, Append(p, 0), n.left), Append(p, 1), n.right)
        nextHash == Side(n, Last(next))
    IN  IF p \notin DOMAIN t.mem \/ IsLeaf(n)
        THEN [mem |-> t.mem, visited |-> t.visited, point |-> p]
        ELSE IF nextHash = Zero /\ next \notin DOMAIN both.mem
             THEN [mem |-> both.mem, visited |-> both.visited, point |-> p]
        ELSE FindInsertingPoint(both, k, next, nextHash, siblings)

\* A value: a new leaf in an empty place, a new value in k's leaf, or k's leaf beside
\* another one that is moved down to where the keys differ.
PutLeaf(mem, p, k, v) ==
    LET n == mem[p]
        free == Upto(k, Len(p) + 1)
        other == p \o n.rkey
        fork == Fork(k, other)
    IN  IF p \notin DOMAIN mem THEN [mem |-> p :> Leaf(k, v), level |-> -1]
        ELSE IF ~IsLeaf(n)
             THEN [mem |-> (free :> Leaf(RemoveKeyBits(k, Len(free)), v)) @@ mem,
                   level |-> Len(free)]
        ELSE IF other = k THEN [mem |-> (p :> Leaf(n.rkey, v)) @@ mem, level |-> Len(p)]
        ELSE [mem |-> [q \in {Upto(k, i) : i \in Len(p) .. fork - 1} |-> Branch(Zero, Zero)]
                        @@ (Upto(other, fork) :> Leaf(RemoveKeyBits(other, fork), n.value))
                        @@ (Upto(k, fork) :> Leaf(RemoveKeyBits(k, fork), v))
                        @@ mem,
              level |-> fork]

Children(mem, p) == {Append(p, d) : d \in {0, 1}} \cap DOMAIN mem
Without(mem, p) == [q \in DOMAIN mem \ {p} |-> mem[q]]

\* A branch with one leaf and nothing else becomes that leaf, and so on upwards.
RECURSIVE Collapse(_, _)
Collapse(mem, p) ==
    LET c == CHOOSE q \in Children(mem, p) : TRUE
        lifted == (p :> Leaf(<<Last(c)>> \o mem[c].rkey, mem[c].value)) @@ Without(mem, c)
    IN  IF IsLeaf(mem[p]) \/ Cardinality(Children(mem, p)) # 1 \/ ~IsLeaf(mem[c])
        THEN [mem |-> mem, level |-> Len(p)]
        ELSE IF p = <<>> THEN [mem |-> lifted, level |-> -1]
        ELSE Collapse(lifted, Front(p))

HashesKept(mem, p) == mem  \* seeded fault: the deleted side keeps its hash

\* updateHashesAfterDelete: a side with no node in memory is empty.
UpdateHashesAfterDelete(mem, p) ==
    LET n == mem[p]
        Kept(d) == IF Append(p, d) \in DOMAIN mem THEN Side(n, d) ELSE Zero
    IN  (p :> Branch(Kept(0), Kept(1))) @@ mem

\* A zero: k's leaf goes if it is there, and what is left of its branch collapses.
TakeLeaf(mem, p, k) ==
    IF p \notin DOMAIN mem THEN [mem |-> mem, level |-> -1]
    ELSE IF IsLeaf(mem[p]) /\ p \o mem[p].rkey = k
         THEN IF p = <<>> THEN [mem |-> <<>>, level |-> -1]
              ELSE Collapse(UpdateHashesAfterDelete(Without(mem, p), Front(p)), Front(p))
    ELSE Collapse(mem, p)

\* One entry.  The search starts at the root hash of before the batch whenever there is
\* no root in memory.
BatchEntry(t, e) ==
    LET f == FindInsertingPoint([mem |-> t.mem, visited |-> t.visited], e.key, <<>>, root,
                                e.value = None)
        new == IF e.value = None THEN TakeLeaf(f.mem, f.point, e.key)
               ELSE PutLeaf(f.mem, f.point, e.key, e.value)
    IN  [mem |-> new.mem, visited |-> f.visited,
         level |-> IF new.level > t.level THEN new.level ELSE t.level]

\* calculateAndSaveHashesDfs: a side that is not in memory keeps its hash.
RECURSIVE HashOf(_, _)
HashOf(mem, p) ==
    LET n == mem[p]
        Half(d) == IF Append(p, d) \in DOMAIN mem THEN HashOf(mem, Append(p, d)) ELSE Side(n, d)
    IN  IF IsLeaf(n) THEN n ELSE Branch(Half(0), Half(1))

\* The rows of the nodes in memory, and the keys of its leaves.
Rows(t, entries) ==
    {HashOf(t.mem, p) : p \in DOMAIN t.mem}
        \cup {ValueNode(e.value) : e \in {f \in ToSet(entries) : f.value # None}}

LeafKeys(mem) ==
    LET Leaves == {p \in DOMAIN mem : IsLeaf(mem[p])}
    IN  [h \in {mem[p] : p \in Leaves} |->
            LET p == CHOOSE q \in Leaves : mem[q] = h IN p \o h.rkey]

\* Seeded fault: what was read is deleted after the new nodes are saved.
SavedFirst(t, entries) == (nodes \cup Rows(t, entries)) \ t.visited

\* TableSmt when what was read is deleted, and then what is in memory saved.
Saved(t, entries) == (nodes \ t.visited) \cup Rows(t, entries)

\* What is written once a batch is: the last entry of a key counts.
Written(batch) ==
    [k \in Keys |->
        LET S == {i \in DOMAIN batch : batch[i].key = k}
        IN  IF S = {} THEN content[k] ELSE batch[Max(S)].value]

\* Whether the tree is emptied by the first entries of a batch and not by the last.
Empties(entries) ==
    root # Zero /\ \E i \in 1 .. Len(entries) - 1 :
        /\ \A j \in 1 .. i : entries[j].value = None
        /\ \A k \in Keys : content[k] # None => \E j \in 1 .. i : entries[j].key = k

InsertBatch(batch) ==
    LET entries == RemoveDuplicateEntriesByKeys(batch)
        t == FoldLeft(BatchEntry, [mem |-> <<>>, visited |-> {}, level |-> 0], entries)
    IN  /\ EmptyMidway \/ ~Empties(entries)
        /\ root' = IF <<>> \in DOMAIN t.mem THEN HashOf(t.mem, <<>>) ELSE Zero
        /\ nodes' = Saved(t, entries)
        /\ hashKey' = LeafKeys(t.mem) @@ [h \in DOMAIN hashKey \ t.visited |-> hashKey[h]]
        /\ depth' = UpdateDepth(t.level)
        /\ content' = Written(batch)
        /\ UNCHANGED others

Entries == [key : Keys, value : Values \cup {None}]

-----------------------------------------------------------------------------
(* Reference definitions *)

\* The tree of a set of keys and values: one leaf at the place where its key is alone.
RECURSIVE Canonical(_, _)
Canonical(c, p) ==
    LET S == {k \in Keys : c[k] # None /\ IsPrefix(p, k)}
        k == CHOOSE l \in S : TRUE
    IN  CASE S = {} -> Zero
          [] Cardinality(S) = 1 -> Leaf(RemoveKeyBits(k, Len(p)), c[k])
          [] Cardinality(S) > 1 ->
                Branch(Canonical(c, Append(p, 0)), Canonical(c, Append(p, 1)))

\* The nodes of the tree below a hash, and how deep it is.
RECURSIVE Tree(_)
Tree(h) ==
    CASE h = Zero -> {}
      [] h # Zero /\ IsLeaf(h) -> {h}
      [] h # Zero /\ ~IsLeaf(h) -> {h} \cup Tree(h.left) \cup Tree(h.right)

RECURSIVE HeightOf(_)
HeightOf(h) == IF h = Zero \/ IsLeaf(h) THEN 0 ELSE 1 + Max({HeightOf(h.left), HeightOf(h.right)})

\* Nodes and names that no longer belong to the tree.
Orphans == {n \in nodes \cup DOMAIN hashKey : n \notin Tree(root) /\ "stored" \notin DOMAIN n}
=============================================================================
