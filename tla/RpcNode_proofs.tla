--------------------------- MODULE RpcNode_proofs ---------------------------
(* A following node of a sequencer without quirks, for any number of blocks,       *)
(* resequencings and faults and crashes at any point.                              *)
EXTENDS RpcNodeInv, DataStream_proofs, WellFoundedInduction

-----------------------------------------------------------------------------
(* The feed.                                                                       *)

LEMMA PrefixTrans ==
    ASSUME NEW r \in Root, NEW s \in Root, NEW t \in Root, Prefix(r, s), Prefix(s, t)
    PROVE  Prefix(r, t)
<1>1. Len(r) \in Nat /\ Len(s) \in Nat /\ Len(t) \in Nat
  BY DEF Root
<1> QED
  BY <1>1 DEF Prefix

\* Two prefixes of one length are the same.
LEMMA PrefixEqual ==
    ASSUME NEW r \in Root, NEW s \in Root, NEW t \in Root, Prefix(r, t), Prefix(s, t),
           Len(r) = Len(s)
    PROVE  r = s
<1>1. \A i \in 1 .. Len(r) : r[i] = s[i]
  BY Zenon DEF Prefix
<1> QED
  BY Zenon, <1>1, SameEntries DEF Root

LEMMA FeedTypes ==
    ASSUME NEW f, FeedOK(f)
    PROVE  /\ Len(f) \in Nat
           /\ \A i \in 1 .. Len(f) : f[i] \in FeedEntry
           /\ \A i \in Blocks(f) : /\ i \in 1 .. Len(f) /\ i \in Nat
                                   /\ f[i].num \in Nat /\ f[i].num > 0 /\ f[i].batch \in Nat
                                   /\ f[i].tx \in Nat /\ f[i].root \in Root
                                   /\ Len(f[i].root) = f[i].num
           /\ \A i \in Starts(f) : i \in 1 .. Len(f) /\ i \in Nat /\ f[i].batch \in Nat
<1>1. f \in Seq(FeedEntry)
  BY Zenon DEF FeedOK
<1>2. Len(f) \in Nat /\ \A i \in 1 .. Len(f) : f[i] \in FeedEntry
  BY <1>1
<1>3. ASSUME NEW i \in Blocks(f)
      PROVE  /\ i \in 1 .. Len(f) /\ i \in Nat
             /\ f[i].num \in Nat /\ f[i].num > 0 /\ f[i].batch \in Nat
             /\ f[i].tx \in Nat /\ f[i].root \in Root
             /\ Len(f[i].root) = f[i].num
  <2>1. i \in 1 .. Len(f) /\ f[i].type = "block"
    BY Zenon DEF Blocks
  <2>2. f[i] \in [type : {"block"}, batch : Nat, num : Nat, tx : Nat, root : Root]
    BY <1>2, <2>1 DEF FeedEntry
  <2>3. f[i].num \in Numbers /\ Len(f[i].root) = f[i].num
    BY Zenon DEF FeedOK, BlockOK
  <2> QED
    BY <1>2, <2>1, <2>2, <2>3 DEF Numbers
<1>4. ASSUME NEW i \in Starts(f) PROVE i \in 1 .. Len(f) /\ i \in Nat /\ f[i].batch \in Nat
  BY <1>2 DEF Starts, FeedEntry
<1> QED
  BY Zenon, <1>2, <1>3, <1>4

\* The blocks of the feed lie in the order of their numbers.
LEMMA BlockOrder ==
    ASSUME NEW f, FeedOK(f), NEW i \in Blocks(f), NEW j \in Blocks(f)
    PROVE  /\ f[i].num < f[j].num <=> i < j
           /\ f[i].num = f[j].num => i = j
           /\ f[i].num <= f[j].num => /\ f[i].batch <= f[j].batch
                                      /\ Prefix(f[i].root, f[j].root)
<1>1. i \in Nat /\ j \in Nat /\ f[i].num \in Nat /\ f[j].num \in Nat
        /\ f[i].batch \in Nat /\ f[i].root \in Root
  BY Zenon, FeedTypes
<1>2. i < j => /\ f[i].num < f[j].num /\ f[i].batch <= f[j].batch
               /\ Prefix(f[i].root, f[j].root)
  BY Zenon DEF FeedOK, BlockOK, Follows
<1>3. j < i => f[j].num < f[i].num
  BY Zenon DEF FeedOK, BlockOK, Follows
<1>4. Prefix(f[i].root, f[i].root)
  BY <1>1 DEF Prefix, Root
<1> QED
  BY <1>1, <1>2, <1>3, <1>4

\* The highest block of the feed, and the blocks below it.
LEMMA HeightFacts ==
    ASSUME WellOrdered, NEW f, FeedOK(f)
    PROVE  /\ HighestBlockInFile(f) \in 0 .. MaxBlocks
           /\ \A i \in Blocks(f) : f[i].num <= HighestBlockInFile(f)
           /\ \A n \in 1 .. HighestBlockInFile(f) : \E i \in Blocks(f) : f[i].num = n
<1> DEFINE l == LastOfType(f, "block")
<1>1. f \in Seq(FeedEntry)
  BY Zenon DEF FeedOK
<1>2. l \in 0 .. Len(f) /\ (l > 0 => f[l].type = "block")
        /\ \A j \in (l + 1) .. Len(f) : f[j].type # "block"
  BY Zenon, <1>1, LastExists DEF IsLast
<1> HIDE DEF l
<1>3. CASE l = 0
  <2>1. Blocks(f) = {}
    BY <1>2, <1>3 DEF Blocks
  <2>2. HighestBlockInFile(f) = 0
    BY Zenon, <1>3 DEF HighestBlockInFile, l
  <2> QED
    BY <2>1, <2>2, RpcAssumption
<1>4. CASE l # 0
  <2>1. l \in Blocks(f) /\ HighestBlockInFile(f) = f[l].num
    <3>1. l > 0 /\ l \in 1 .. Len(f)
      BY <1>1, <1>2, <1>4
    <3> QED
      BY Zenon, <1>2, <1>4, <3>1 DEF Blocks, HighestBlockInFile, l
  <2>2. ASSUME NEW i \in Blocks(f) PROVE f[i].num <= f[l].num
    <3>1. ~ (l < i)
      BY <1>2, FeedTypes DEF Blocks
    <3>2. i \in Nat /\ l \in Nat /\ f[i].num \in Nat /\ f[l].num \in Nat
      BY Zenon, <2>1, FeedTypes
    <3>3. f[l].num < f[i].num <=> l < i
      BY Zenon, <2>1, BlockOrder
    <3> QED
      BY <3>1, <3>2, <3>3
  <2>3. f[l].num \in Numbers /\ \A n \in 1 .. (f[l].num - 1) : \E j \in Blocks(f) : f[j].num = n
    BY Zenon, <2>1 DEF FeedOK, StartOK, BlockOK
  <2>4. \A n \in 1 .. f[l].num : \E i \in Blocks(f) : f[i].num = n
    BY <2>1, <2>3, FeedTypes
  <2>5. f[l].num \in 0 .. MaxBlocks
    BY <2>3, RpcAssumption DEF Numbers
  <2> QED
    BY Zenon, <2>1, <2>2, <2>4, <2>5
<1> QED
  BY Zenon, <1>3, <1>4

\* The block that the bookmark of a number leads to.
LEMMA BlockAtFacts ==
    ASSUME NEW f, FeedOK(f), NEW i \in Blocks(f)
    PROVE  BlockAt(f, f[i].num) = f[i] /\ HasBookmark(f, "block", f[i].num)
<1> DEFINE n == f[i].num
           k == BookmarkOf(f, "block", n)
<1>1. i \in 1 .. Len(f) /\ f[i].type = "block" /\ n = f[i].num
  BY Zenon DEF Blocks
<1>2. \A j : (IF "block" = "start" THEN f[j].batch ELSE f[j].num) = f[j].num
  OBVIOUS
<1>3. k \in 1 .. Len(f) /\ f[k].type = "block" /\ f[k].num = n
  BY Zenon, <1>1, <1>2 DEF BookmarkOf
<1>4. k = i
  BY Zenon, <1>1, <1>3, BlockOrder DEF Blocks
<1> QED
  BY Zenon, <1>1, <1>2, <1>4 DEF BlockAt, HasBookmark

\* The highest batch of the feed and the batches up to it.
LEMMA BatchFacts ==
    ASSUME WellOrdered, NEW f, FeedOK(f)
    PROVE  /\ HighestBatchInFile(f) \in Nat
           /\ \A i \in Starts(f) : f[i].batch <= HighestBatchInFile(f)
           /\ \A b \in 1 .. HighestBatchInFile(f) : \E i \in Starts(f) : f[i].batch = b
           /\ \A i \in Blocks(f) : f[i].batch <= HighestBatchInFile(f)
           /\ HighestBatchInFile(f) > 0 =>
                \E i \in Blocks(f) : f[i].batch = HighestBatchInFile(f)
<1> DEFINE l == LastOfType(f, "start")
<1>1. f \in Seq(FeedEntry)
  BY Zenon DEF FeedOK
<1>2. l \in 0 .. Len(f) /\ (l > 0 => f[l].type = "start")
        /\ \A j \in (l + 1) .. Len(f) : f[j].type # "start"
  BY Zenon, <1>1, LastExists DEF IsLast
<1> HIDE DEF l
<1>3. CASE l = 0
  <2>1. Starts(f) = {}
    BY <1>2, <1>3 DEF Starts
  <2>2. HighestBatchInFile(f) = 0
    BY Zenon, <1>3 DEF HighestBatchInFile, l
  <2>3. Blocks(f) = {}
    BY Zenon, <2>1 DEF FeedOK, BlockOK
  <2> QED
    BY <2>1, <2>2, <2>3
<1>4. CASE l # 0
  <2>1. l \in Starts(f) /\ HighestBatchInFile(f) = f[l].batch
    <3>1. l > 0 /\ l \in 1 .. Len(f)
      BY <1>1, <1>2, <1>4
    <3> QED
      BY Zenon, <1>2, <1>4, <3>1 DEF Starts, HighestBatchInFile, l
  <2>0. StartOK(f, l)
    BY Zenon, <2>1 DEF FeedOK
  <2>2. f[l].batch \in Nat /\ l \in Nat
    BY Zenon, <2>1, FeedTypes
  <2>3. ASSUME NEW i \in Starts(f) PROVE f[i].batch <= f[l].batch
    <3>1. ~ (l < i)
      BY <1>2, FeedTypes DEF Starts
    <3>2. i \in Nat /\ f[i].batch \in Nat
      BY Zenon, FeedTypes
    <3>3. i < l => f[i].batch < f[l].batch
      BY Zenon, <2>0 DEF StartOK
    <3> QED
      BY <2>2, <3>1, <3>2, <3>3
  <2>4. \A b \in 1 .. (f[l].batch - 1) : \E j \in Starts(f) : f[j].batch = b
    BY Zenon, <2>0 DEF StartOK
  <2>5. \A b \in 1 .. f[l].batch : \E i \in Starts(f) : f[i].batch = b
    BY <2>1, <2>2, <2>4
  <2>6. \A i \in Blocks(f) : \E j \in Starts(f) : f[i].batch = f[j].batch
    BY Zenon DEF FeedOK, BlockOK
  <2>7. l + 1 \in Blocks(f) /\ f[l + 1].batch = f[l].batch
    BY Zenon, <2>0 DEF StartOK
  <2> QED
    BY Zenon, <2>1, <2>2, <2>3, <2>5, <2>6, <2>7
<1> QED
  BY Zenon, <1>3, <1>4

\* An entry keeps its place when nothing before it changes.
SameBefore(f, g, i) ==
    /\ g[i] = f[i]
    /\ \A j : j < i => /\ j \in Starts(f) <=> j \in Starts(g)
                       /\ j \in Blocks(f) <=> j \in Blocks(g)
                       /\ j \in Starts(f) \cup Blocks(f) => g[j] = f[j]

LEMMA SameStart ==
    ASSUME NEW f, NEW g, NEW i, StartOK(f, i), SameBefore(f, g, i),
           i + 1 \in Blocks(g), g[i + 1] = f[i + 1]
    PROVE  StartOK(g, i)
<1>1. ASSUME NEW b \in 1 .. (g[i].batch - 1)
      PROVE  \E j \in Starts(g) : j < i /\ g[j].batch = b
  <2>1. PICK j \in Starts(f) : j < i /\ f[j].batch = b
    BY Zenon DEF StartOK, SameBefore
  <2> QED
    BY Zenon, <2>1 DEF SameBefore
<1>2. ASSUME NEW j \in Starts(g), j < i PROVE g[j].batch < g[i].batch
  BY Zenon, <1>2 DEF StartOK, SameBefore
<1>3. g[i].batch > 0 /\ g[i + 1].batch = g[i].batch
  BY Zenon DEF StartOK, SameBefore
<1> QED
  BY Zenon, <1>1, <1>2, <1>3 DEF StartOK

LEMMA SameBlockEntry ==
    ASSUME NEW f, NEW g, NEW i, BlockOK(f, i), SameBefore(f, g, i)
    PROVE  BlockOK(g, i)
<1>1. ASSUME NEW n \in 1 .. (g[i].num - 1) PROVE \E j \in Blocks(g) : j < i /\ g[j].num = n
  <2>1. PICK j \in Blocks(f) : j < i /\ f[j].num = n
    BY Zenon DEF BlockOK, SameBefore
  <2> QED
    BY Zenon, <2>1 DEF SameBefore
<1>2. \E j \in Starts(g) : j < i /\ g[j].batch = g[i].batch
  <2>1. PICK j \in Starts(f) : j < i /\ f[j].batch = f[i].batch
    BY Zenon DEF BlockOK
  <2> QED
    BY Zenon, <2>1 DEF SameBefore
<1>3. ASSUME NEW j \in Blocks(g), j < i PROVE Follows(g, j, i)
  <2>1. j \in Blocks(f) /\ g[j] = f[j] /\ g[i] = f[i]
    BY Zenon, <1>3 DEF SameBefore
  <2>2. Follows(f, j, i)
    BY Zenon, <1>3, <2>1 DEF BlockOK
  <2> QED
    BY Zenon, <2>1, <2>2 DEF Follows
<1>4. /\ g[i].num \in Numbers /\ Len(g[i].root) = g[i].num
      /\ g[i].root[g[i].num] = g[i].tx
      /\ 0 < g[i].batch /\ g[i].batch <= g[i].num
  BY Zenon DEF BlockOK, SameBefore
<1> QED
  BY Zenon, <1>1, <1>2, <1>3, <1>4 DEF BlockOK

\* A cut at a batch start leaves a feed.
LEMMA FeedCut ==
    ASSUME NEW f, FeedOK(f), NEW s \in Starts(f), NEW g \in Seq(FeedEntry), Len(g) = s - 1,
           \A i \in 1 .. (s - 1) : g[i] = f[i]
    PROVE  /\ FeedOK(g) /\ Len(g) < Len(f)
           /\ \A i \in Blocks(g) : i \in Blocks(f) /\ g[i] = f[i]
<1>1. f \in Seq(FeedEntry) /\ s \in 1 .. Len(f) /\ Len(f) \in Nat /\ s \in Nat
  BY Zenon, FeedTypes DEF FeedOK
<1>2. g \in Seq(FeedEntry) /\ Len(g) = s - 1 /\ \A i \in 1 .. (s - 1) : g[i] = f[i]
  BY Zenon
<1>3. \A i : i \in Starts(g) <=> i \in Starts(f) /\ i < s
  BY <1>1, <1>2 DEF Starts
<1>4. \A i : i \in Blocks(g) <=> i \in Blocks(f) /\ i < s
  BY <1>1, <1>2 DEF Blocks
<1>5. \A i \in Starts(g) \cup Blocks(g) : g[i] = f[i]
  BY <1>1, <1>2 DEF Starts, Blocks
<1>6. ASSUME NEW i \in Starts(g) \cup Blocks(g) PROVE SameBefore(f, g, i)
  <2>1. i \in Nat /\ i < s /\ \A j \in Starts(f) \cup Blocks(f) : j \in Nat
    BY Zenon, <1>3, <1>4, FeedTypes
  <2>2. \A j \in Starts(f) \cup Blocks(f) : j < i => j < s
    BY <1>1, <2>1
  <2> QED
    BY Zenon, <1>3, <1>4, <1>5, <2>2 DEF SameBefore
<1>7. ASSUME NEW i \in Starts(g) PROVE StartOK(g, i)
  <2>1. i \in Starts(f) /\ i < s /\ StartOK(f, i) /\ i \in Nat
    BY Zenon, <1>3, FeedTypes DEF FeedOK
  <2>2. i + 1 \in Blocks(f)
    BY Zenon, <2>1 DEF StartOK
  <2>3. i + 1 # s
    BY <2>2 DEF Blocks, Starts
  <2>4. i + 1 < s
    BY <1>1, <2>1, <2>3
  <2>5. i + 1 \in Blocks(g) /\ g[i + 1] = f[i + 1]
    BY Zenon, <1>4, <1>5, <2>2, <2>4
  <2> QED
    BY Zenon, <1>6, <2>1, <2>5, SameStart
<1>8. ASSUME NEW i \in Blocks(g) PROVE BlockOK(g, i)
  BY Zenon, <1>4, <1>6, SameBlockEntry DEF FeedOK
<1>9. FeedOK(g)
  BY Zenon, <1>2, <1>7, <1>8 DEF FeedOK
<1>10. Len(g) < Len(f)
  BY <1>1, <1>2
<1> QED
  BY Zenon, <1>4, <1>5, <1>9, <1>10

\* A batch end changes neither batches nor blocks.
LEMMA FeedClose ==
    ASSUME NEW f, FeedOK(f), NEW e \in FeedEntry, e.type = "end", NEW g, g = Append(f, e)
    PROVE  /\ FeedOK(g) /\ Blocks(g) = Blocks(f) /\ Len(g) = Len(f) + 1
           /\ \A i \in Blocks(f) : g[i] = f[i]
<1>1. f \in Seq(FeedEntry) /\ Len(f) \in Nat
  BY Zenon, FeedTypes DEF FeedOK
<1>2. /\ g \in Seq(FeedEntry) /\ Len(g) = Len(f) + 1 /\ g[Len(f) + 1] = e
      /\ \A i \in 1 .. Len(f) : g[i] = f[i]
  BY <1>1, AppendFacts
<1>3. Starts(g) = Starts(f)
  BY <1>1, <1>2 DEF Starts
<1>4. Blocks(g) = Blocks(f)
  BY <1>1, <1>2 DEF Blocks
<1>5. \A i \in Starts(f) \cup Blocks(f) : g[i] = f[i]
  BY Zenon, <1>2 DEF Starts, Blocks
<1>6. ASSUME NEW i \in Starts(g) \cup Blocks(g) PROVE SameBefore(f, g, i)
  BY Zenon, <1>3, <1>4, <1>5 DEF SameBefore
<1>7. ASSUME NEW i \in Starts(g) PROVE StartOK(g, i)
  <2>1. StartOK(f, i) /\ i + 1 \in Blocks(f)
    BY Zenon, <1>3 DEF FeedOK, StartOK
  <2> QED
    BY Zenon, <1>4, <1>5, <1>6, <2>1, SameStart
<1>8. ASSUME NEW i \in Blocks(g) PROVE BlockOK(g, i)
  BY Zenon, <1>4, <1>6, SameBlockEntry DEF FeedOK
<1>9. FeedOK(g)
  BY Zenon, <1>2, <1>7, <1>8 DEF FeedOK
<1> QED
  BY Zenon, <1>2, <1>4, <1>5, <1>9

\* The next block, in the highest batch or in the one after it.
LEMMA FeedBlock ==
    ASSUME WellOrdered, NEW f, FeedOK(f), NEW e \in FeedEntry, e.type = "block",
           NEW first \in BOOLEAN, NEW g \in Seq(FeedEntry),
           Len(g) = Len(f) + (IF first THEN 2 ELSE 1), g[Len(g)] = e,
           first => g[Len(f) + 1] = BatchStart(e.batch),
           \A i \in 1 .. Len(f) : g[i] = f[i],
           e.batch > 0,
           e.batch = HighestBatchInFile(f) + (IF first THEN 1 ELSE 0),
           e.num = HighestBlockInFile(f) + 1, e.num <= MaxBlocks,
           Len(e.root) = e.num, e.root[e.num] = e.tx,
           \A i \in Blocks(f) : f[i].num = e.num - 1 => Prefix(f[i].root, e.root)
    PROVE  FeedOK(g) /\ Blocks(g) = Blocks(f) \cup {Len(g)}
<1> DEFINE h == HighestBlockInFile(f)
           top == HighestBatchInFile(f)
<1>1. f \in Seq(FeedEntry) /\ Len(f) \in Nat /\ e.root \in Root /\ e.batch \in Nat
        /\ e.num \in Nat
  BY FeedTypes DEF FeedOK, FeedEntry
<1>2. /\ h \in 0 .. MaxBlocks
      /\ \A i \in Blocks(f) : f[i].num <= h
      /\ \A n \in 1 .. h : \E i \in Blocks(f) : f[i].num = n
  BY Zenon, HeightFacts
<1>3. /\ top \in Nat
      /\ \A i \in Starts(f) : f[i].batch <= top
      /\ \A b \in 1 .. top : \E i \in Starts(f) : f[i].batch = b
      /\ \A i \in Blocks(f) : f[i].batch <= top
      /\ top > 0 => \E i \in Blocks(f) : f[i].batch = top
  BY Zenon, BatchFacts
<1> HIDE DEF h, top
<1>4. /\ e.num = h + 1 /\ e.num \in Numbers
      /\ e.batch = top + (IF first THEN 1 ELSE 0)
  BY <1>1, <1>2, RpcAssumption DEF h, top, Numbers
<1>5. Blocks(g) = Blocks(f) \cup {Len(g)}
  BY <1>1 DEF Blocks, BatchStart
<1>6. /\ \A i \in Starts(f) : g[i] = f[i] /\ i \in 1 .. Len(f) /\ i \in Nat /\ i < Len(g)
      /\ \A i \in Blocks(f) : g[i] = f[i] /\ i \in 1 .. Len(f) /\ i \in Nat /\ i < Len(g)
  <2>1. \A i \in 1 .. Len(f) : i \in Nat /\ i < Len(g)
    BY <1>1
  <2> QED
    BY Zenon, <2>1 DEF Starts, Blocks
<1>7. \A i : i \in Starts(g) <=> i \in Starts(f) \/ (first /\ i = Len(f) + 1)
  <2>1. /\ \A i \in 1 .. Len(g) : i \in 1 .. Len(f) \/ i = Len(g) \/ (first /\ i = Len(f) + 1)
        /\ \A i \in 1 .. Len(f) : i \in 1 .. Len(g)
        /\ first => Len(f) + 1 \in 1 .. Len(g)
    BY <1>1
  <2>2. first => g[Len(f) + 1].type = "start"
    BY DEF BatchStart
  <2>3. g[Len(g)].type # "start"
    OBVIOUS
  <2> QED
    BY Zenon, <2>1, <2>2, <2>3 DEF Starts
<1>8. ASSUME NEW i \in Starts(f) \cup Blocks(f) PROVE SameBefore(f, g, i)
  <2>1. i \in Nat /\ i <= Len(f)
    BY <1>1, <1>6
  <2>2. \A j : j < i => j # Len(f) + 1 /\ j # Len(g)
    BY <1>1, <2>1
  <2> QED
    BY Zenon, <1>5, <1>6, <1>7, <2>2 DEF SameBefore
<1>9. ASSUME NEW i \in Starts(g) PROVE StartOK(g, i)
  <2>1. CASE i \in Starts(f)
    <3>1. StartOK(f, i) /\ i + 1 \in Blocks(f)
      BY Zenon, <2>1 DEF FeedOK, StartOK
    <3> QED
      BY Zenon, <1>5, <1>6, <1>8, <2>1, <3>1, SameStart
  <2>2. CASE i \notin Starts(f)
    <3>1. first /\ i = Len(f) + 1 /\ g[i] = BatchStart(e.batch)
      BY Zenon, <1>7, <2>2
    <3>2. g[i].batch = e.batch /\ e.batch = top + 1 /\ i + 1 = Len(g)
      BY <1>1, <1>3, <1>4, <3>1 DEF BatchStart
    <3>3. i + 1 \in Blocks(g) /\ g[i + 1].batch = g[i].batch
      BY Zenon, <1>5, <3>2
    <3>4. \A j \in Starts(f) : j < i /\ j \in Starts(g)
      BY <1>1, <1>6, <1>7, <3>1
    <3>5. ASSUME NEW b \in 1 .. (g[i].batch - 1)
          PROVE  \E j \in Starts(g) : j < i /\ g[j].batch = b
      <4>1. b \in 1 .. top
        BY <1>3, <3>2
      <4>2. PICK j \in Starts(f) : f[j].batch = b
        BY Zenon, <1>3, <4>1
      <4> QED
        BY Zenon, <1>6, <3>4, <4>2
    <3>6. ASSUME NEW j \in Starts(g), j < i PROVE g[j].batch < g[i].batch
      <4>1. j \in Starts(f)
        BY <1>1, <1>7, <3>1, <3>6
      <4>2. g[j].batch <= top /\ g[j].batch \in Nat
        <5>1. f[j].batch \in Nat
          BY Zenon, <4>1, FeedTypes
        <5>2. f[j].batch <= top
          BY Zenon, <1>3, <4>1
        <5> QED
          BY Zenon, <1>6, <4>1, <5>1, <5>2
      <4> QED
        BY <1>3, <3>2, <4>2
    <3>7. g[i].batch > 0
      BY Zenon, <3>2
    <3> QED
      BY Zenon, <3>3, <3>5, <3>6, <3>7 DEF StartOK
  <2> QED
    BY Zenon, <2>1, <2>2
<1>10. top <= h
  <2>1. CASE top = 0
    BY <1>2, <2>1
  <2>2. CASE top > 0
    <3>1. PICK k \in Blocks(f) : f[k].batch = top
      BY Zenon, <1>3, <2>2
    <3>2. f[k].batch <= f[k].num /\ f[k].num <= h /\ f[k].num \in Nat
      BY Zenon, <1>2, <3>1, FeedTypes DEF FeedOK, BlockOK
    <3> QED
      BY <1>2, <1>3, <3>1, <3>2
  <2> QED
    BY <1>3, <2>1, <2>2
<1> DEFINE z == Len(g)
<1>11. ASSUME NEW j \in Blocks(f) PROVE Follows(g, j, z)
  <2>1. g[z] = e /\ g[j] = f[j] /\ f[j].num \in Nat /\ f[j].batch \in Nat
          /\ f[j].num > 0 /\ f[j].num <= h /\ f[j].batch <= top
    BY Zenon, <1>2, <1>3, <1>6, FeedTypes
  <2>2. f[j].num < e.num /\ f[j].batch <= e.batch
    BY <1>2, <1>3, <1>4, <2>1
  <2>3. h \in 1 .. h /\ e.num - 1 = h
    BY <1>2, <1>4, <2>1
  <2>4. PICK k \in Blocks(f) : f[k].num = h
    BY Zenon, <1>2, <2>3
  <2>5. Prefix(f[j].root, f[k].root) /\ Prefix(f[k].root, e.root)
    BY Zenon, <2>1, <2>3, <2>4, BlockOrder
  <2>6. Prefix(f[j].root, e.root)
    <3>1. f[j].root \in Root /\ f[k].root \in Root
      BY Zenon, FeedTypes
    <3> QED
      BY Zenon, <1>1, <2>5, <3>1, PrefixTrans
  <2>7. ASSUME e.num = f[j].num + 1 PROVE e.batch <= f[j].batch + 1
    <3>1. CASE top = 0
      BY <1>4, <2>1, <3>1
    <3>2. CASE top > 0
      <4>1. PICK m \in Blocks(f) : f[m].batch = top
        BY Zenon, <1>3, <3>2
      <4>2. f[m].num <= f[j].num
        BY <1>2, <1>4, <2>1, <2>7
      <4>3. f[m].batch <= f[j].batch
        BY Zenon, <4>2, BlockOrder
      <4> QED
        BY <1>3, <1>4, <2>1, <4>1, <4>3
    <3> QED
      BY <1>3, <3>1, <3>2
  <2> QED
    BY Zenon, <2>1, <2>2, <2>6, <2>7 DEF Follows
<1>12. BlockOK(g, z)
  <2>1. g[z] = e /\ z \in Nat
    BY <1>1
  <2>2. e.batch <= e.num
    BY <1>2, <1>3, <1>4, <1>10
  <2>3. \E j \in Starts(g) : j < z /\ g[j].batch = e.batch
    <3>1. CASE first
      <4>1. Len(f) + 1 \in Starts(g) /\ Len(f) + 1 < z /\ g[Len(f) + 1].batch = e.batch
        BY <1>1, <1>7, <3>1 DEF BatchStart
      <4> QED
        BY Zenon, <4>1
    <3>2. CASE ~first
      <4>1. e.batch \in 1 .. top
        BY <1>1, <1>3, <1>4, <3>2
      <4>2. PICK j \in Starts(f) : f[j].batch = e.batch
        BY Zenon, <1>3, <4>1
      <4> QED
        BY Zenon, <1>6, <1>7, <4>2
    <3> QED
      BY Zenon, <3>1, <3>2
  <2>4. ASSUME NEW n \in 1 .. (e.num - 1) PROVE \E j \in Blocks(g) : j < z /\ g[j].num = n
    <3>1. n \in 1 .. h
      BY <1>2, <1>4
    <3>2. PICK j \in Blocks(f) : f[j].num = n
      BY Zenon, <1>2, <3>1
    <3> QED
      BY Zenon, <1>5, <1>6, <3>2
  <2>5. ASSUME NEW j \in Blocks(g), j < z PROVE Follows(g, j, z)
    <3>1. j \in Blocks(f)
      BY <2>1, <2>5, <1>5
    <3> QED
      BY Zenon, <1>11, <3>1
  <2> QED
    BY Zenon, <1>4, <2>1, <2>2, <2>3, <2>4, <2>5 DEF BlockOK
<1>13. ASSUME NEW i \in Blocks(g) PROVE BlockOK(g, i)
  BY Zenon, <1>5, <1>8, <1>12, SameBlockEntry DEF FeedOK
<1>14. FeedOK(g)
  BY Zenon, <1>9, <1>13 DEF FeedOK
<1> QED
  BY Zenon, <1>5, <1>14

-----------------------------------------------------------------------------
(* The database: what each way to change it preserves.                             *)

LEMMA DbFields ==
    ASSUME NEW d, DbType(d)
    PROVE  /\ d.blocks \in Seq(StoredBlock) /\ Len(d.blocks) \in Nat /\ Len(d.blocks) <= MaxBlocks
           /\ \A n \in 1 .. Len(d.blocks) :
                /\ d.blocks[n] \in StoredBlock /\ d.blocks[n].batch \in Nat
                /\ d.blocks[n].tx \in Nat /\ d.blocks[n].root \in Root
           /\ d.rows \in [Numbers -> {0} \cup Batches] /\ d.lists \subseteq Batches \X Numbers
           /\ d.ends \subseteq {0} \cup Numbers
           /\ d.progress \in Nat /\ d.exec \in Nat /\ d.finish \in {0} \cup Numbers
           /\ d.progress <= Len(d.blocks) /\ d.exec <= d.progress /\ d.headers = d.exec
<1>1. /\ d.blocks \in Seq(StoredBlock) /\ Len(d.blocks) <= MaxBlocks
      /\ d.rows \in [Numbers -> {0} \cup Batches] /\ d.lists \subseteq Batches \X Numbers
      /\ d.ends \subseteq {0} \cup Numbers
      /\ d.progress \in Nat /\ d.exec \in Nat /\ d.finish \in {0} \cup Numbers
      /\ d.progress <= Len(d.blocks) /\ d.exec <= d.progress /\ d.headers = d.exec
  BY DEF DbType
<1>2. Len(d.blocks) \in Nat /\ \A n \in 1 .. Len(d.blocks) : d.blocks[n] \in StoredBlock
  BY <1>1
<1>3. \A b \in StoredBlock : b.batch \in Nat /\ b.tx \in Nat /\ b.root \in Root
  BY DEF StoredBlock
<1> QED
  BY Zenon, <1>1, <1>2, <1>3

LEMMA SeqOf ==
    ASSUME NEW S, NEW n \in Nat, NEW g \in [1 .. n -> S]
    PROVE  g \in Seq(S) /\ Len(g) = n
OBVIOUS

LEMMA NumberFacts ==
    /\ MaxBlocks \in Nat
    /\ \A n : n \in Numbers <=> n \in Nat /\ n > 0 /\ n <= MaxBlocks
    /\ \A b : b \in Batches <=> b \in Nat /\ b > 0 /\ b <= 2 * MaxBlocks
BY RpcAssumption DEF Numbers, Batches

LEMMA ZeroOK ==
    ASSUME NEW f, FeedOK(f), NEW d, DbType(d)
    PROVE  ChainOK(d, 0) /\ Agrees(f, d, 0)
<1>1. 0 \in 0 .. Len(d.blocks) /\ \A n \in 1 .. 0 : FALSE
  BY DbFields
<1>2. \A i \in Blocks(f) : f[i].num # 0
  BY FeedTypes
<1> QED
  BY Zenon, <1>1, <1>2 DEF ChainOK, Agrees

\* Nothing but the progresses of the other stages and the batch ends changes.
LEMMA SameDb ==
    ASSUME NEW f, NEW d, NEW e, DbOK(f, d), DbType(e),
           e.blocks = d.blocks, e.rows = d.rows, e.lists = d.lists, e.progress = d.progress
    PROVE  DbOK(f, e)
<1>1. ChainOK(e, e.progress)
  BY Zenon DEF DbOK, ChainOK
<1>2. IndexOK(e)
  BY Zenon DEF DbOK, IndexOK
<1>3. Agrees(f, e, e.progress)
  BY Zenon DEF DbOK, Agrees
<1>4. BatchesAgree(f, e)
  BY Zenon DEF DbOK, BatchesAgree
<1>5. RowsAhead(f, e)
  BY Zenon DEF DbOK, RowsAhead
<1> QED
  BY Zenon, <1>1, <1>2, <1>3, <1>4, <1>5 DEF DbOK

LEMMA SameChain ==
    ASSUME NEW f, NEW d, NEW e, NEW h, e.blocks = d.blocks, e.rows = d.rows
    PROVE  /\ ChainOK(d, h) => ChainOK(e, h)
           /\ Agrees(f, d, h) => Agrees(f, e, h)
           /\ BatchesAgree(f, d) => BatchesAgree(f, e)
BY Zenon DEF ChainOK, Agrees, BatchesAgree

LEMMA ExecTo ==
    ASSUME NEW f, NEW d, DbOK(f, d), NEW to \in 0 .. d.progress,
           NEW e, e = [d EXCEPT !.exec = to, !.headers = to]
    PROVE  /\ DbOK(f, e) /\ e.blocks = d.blocks /\ e.rows = d.rows /\ e.progress = d.progress
           /\ e.exec = to
<1>1. DbType(d)
  BY Zenon DEF DbOK
<1>2. /\ e.blocks = d.blocks /\ e.rows = d.rows /\ e.lists = d.lists
      /\ e.progress = d.progress /\ e.exec = to
  BY <1>1 DEF DbType
<1>3. DbType(e)
  <2>1. to \in Nat /\ to <= d.progress
    BY <1>1, DbFields
  <2> QED
    BY Zenon, <1>1, <2>1 DEF DbType
<1> QED
  BY Zenon, <1>2, <1>3, SameDb

LEMMA FinishTo ==
    ASSUME NEW f, NEW d, DbOK(f, d), NEW x \in {0} \cup Numbers,
           NEW e, e = [d EXCEPT !.finish = x]
    PROVE  /\ DbOK(f, e) /\ e.blocks = d.blocks /\ e.rows = d.rows /\ e.progress = d.progress
           /\ e.exec = d.exec
<1>1. DbType(d)
  BY Zenon DEF DbOK
<1>2. /\ e.blocks = d.blocks /\ e.rows = d.rows /\ e.lists = d.lists
      /\ e.progress = d.progress /\ e.exec = d.exec
  BY <1>1 DEF DbType
<1>3. DbType(e)
  BY <1>1 DEF DbType
<1> QED
  BY Zenon, <1>2, <1>3, SameDb

LEMMA EndsTo ==
    ASSUME NEW f, NEW d, DbOK(f, d), NEW x \in SUBSET ({0} \cup Numbers),
           NEW e, e = [d EXCEPT !.ends = x]
    PROVE  /\ DbOK(f, e) /\ e.blocks = d.blocks /\ e.rows = d.rows /\ e.progress = d.progress
           /\ e.exec = d.exec
<1>1. DbType(d)
  BY Zenon DEF DbOK
<1>2. /\ e.blocks = d.blocks /\ e.rows = d.rows /\ e.lists = d.lists
      /\ e.progress = d.progress /\ e.exec = d.exec
  BY <1>1 DEF DbType
<1>3. DbType(e)
  BY <1>1 DEF DbType
<1> QED
  BY Zenon, <1>2, <1>3, SameDb

\* The progress moves up to h.
LEMMA ProgressTo ==
    ASSUME NEW f, NEW d, DbOK(f, d), NEW h \in Nat, h >= d.progress, ChainOK(d, h), Agrees(f, d, h),
           NEW e, e = [d EXCEPT !.progress = h]
    PROVE  DbOK(f, e) /\ e.progress = h
<1>1. DbType(d)
  BY Zenon DEF DbOK
<1>2. e.blocks = d.blocks /\ e.rows = d.rows /\ e.lists = d.lists /\ e.progress = h
  BY <1>1 DEF DbType
<1>3. h <= Len(d.blocks)
  BY <1>1, DbFields DEF ChainOK
<1>4. DbType(e)
  BY <1>1, <1>3 DEF DbType
<1>5. ChainOK(e, e.progress) /\ Agrees(f, e, e.progress)
  BY Zenon, <1>2, SameChain
<1>6. IndexOK(e)
  BY Zenon, <1>2 DEF DbOK, IndexOK
<1>7. BatchesAgree(f, e)
  BY Zenon, <1>2, SameChain DEF DbOK
<1>8. \A m \in Numbers : m > e.progress => m > d.progress
  BY <1>1, <1>2, DbFields, NumberFacts
<1>9. RowsAhead(f, e)
  BY Zenon, <1>2, <1>8 DEF DbOK, RowsAhead
<1> QED
  BY Zenon, <1>2, <1>4, <1>5, <1>6, <1>7, <1>9 DEF DbOK

\* What writeL2Block stores.
Written(d, x, e) ==
    /\ DbType(e) /\ e.progress = d.progress /\ e.exec = d.exec
    /\ x.num \in 1 .. Len(e.blocks) /\ Len(d.blocks) <= Len(e.blocks)
    /\ e.blocks[x.num] = [batch |-> x.batch, tx |-> x.tx, root |-> x.root]
    /\ \A n \in 1 .. Len(e.blocks) : n # x.num =>
         n \in 1 .. Len(d.blocks) /\ e.blocks[n] = d.blocks[n]
    /\ e.rows[x.num] = x.batch
    /\ \A n \in Numbers : n # x.num => e.rows[n] = d.rows[n]
    /\ e.lists = d.lists \cup {<<x.batch, x.num>>}

LEMMA WriteFields ==
    ASSUME NEW d, DbType(d), NEW x, x.num \in Numbers, x.batch \in Batches, x.tx \in Nat,
           x.root \in Root, x.num <= Len(d.blocks) + 1, NEW e, e = WriteL2Block(d, x)
    PROVE  Written(d, x, e)
<1> DEFINE blk == [batch |-> x.batch, tx |-> x.tx, root |-> x.root]
           top == IF x.num > Len(d.blocks) THEN x.num ELSE Len(d.blocks)
           bs == [i \in 1 .. top |-> IF i = x.num THEN blk ELSE d.blocks[i]]
           rs == [d.rows EXCEPT ![x.num] = x.batch]
           ls == d.lists \cup {<<x.batch, x.num>>}
<1>1. /\ Len(d.blocks) \in Nat /\ x.num \in Nat /\ x.num > 0 /\ x.num <= MaxBlocks
      /\ Len(d.blocks) <= MaxBlocks /\ x.batch \in Nat
  BY DbFields, NumberFacts
<1>2. top \in Nat /\ top <= MaxBlocks /\ Len(d.blocks) <= top /\ x.num \in 1 .. top
        /\ \A n \in 1 .. top : n # x.num => n \in 1 .. Len(d.blocks)
  BY <1>1
<1>3. blk \in StoredBlock
  BY <1>1 DEF StoredBlock
<1>4. bs \in Seq(StoredBlock) /\ Len(bs) = top
  <2>1. bs \in [1 .. top -> StoredBlock]
    BY Zenon, <1>2, <1>3, DbFields
  <2>2. top \in Nat
    BY Zenon, <1>2
  <2> HIDE DEF bs, top
  <2> QED
    BY Zenon, <2>1, <2>2, SeqOf
<1>5. rs \in [Numbers -> {0} \cup Batches] /\ rs[x.num] = x.batch
        /\ \A n \in Numbers : n # x.num => rs[n] = d.rows[n]
  BY Zenon, DbFields
<1>6. ls \subseteq Batches \X Numbers
  BY DbFields
<1>7. e = [d EXCEPT !.blocks = bs, !.rows = rs, !.lists = ls]
  BY DEF WriteL2Block, DbType
<1> HIDE DEF bs, rs, ls, top
<1>8. /\ e.blocks = bs /\ e.rows = rs /\ e.lists = ls
      /\ e.progress = d.progress /\ e.exec = d.exec
  BY <1>7 DEF DbType
<1>9. DbType(e)
  <2>1. d.progress <= top
    BY <1>1, <1>2, DbFields
  <2> QED
    BY Zenon, <1>2, <1>4, <1>5, <1>6, <1>7, <2>1 DEF DbType
<1>10. /\ bs[x.num] = blk
       /\ \A n \in 1 .. top : n # x.num => n \in 1 .. Len(d.blocks) /\ bs[n] = d.blocks[n]
  BY Zenon, <1>2 DEF bs
<1> QED
  BY Zenon, <1>2, <1>4, <1>5, <1>8, <1>9, <1>10 DEF ls, Written

\* A block that follows on the one at h.
Extended(f, d, h, e) ==
    /\ DbOK(f, e) /\ ChainOK(e, h + 1) /\ Agrees(f, e, h + 1)
    /\ e.progress = d.progress /\ e.exec = d.exec
    /\ \A n \in 1 .. h : e.blocks[n] = d.blocks[n]

LEMMA WriteOK ==
    ASSUME NEW f, FeedOK(f), NEW d, DbOK(f, d), NEW h \in Nat, h >= d.progress,
           ChainOK(d, h), Agrees(f, d, h), NEW i \in Blocks(f), f[i].num = h + 1,
           NEW e, e = WriteL2Block(d, f[i])
    PROVE  Extended(f, d, h, e)
<1> PICK x : x = f[i]
  BY Zenon
<1>1. DbType(d) /\ IndexOK(d) /\ BatchesAgree(f, d) /\ RowsAhead(f, d)
        /\ ChainOK(d, d.progress) /\ Agrees(f, d, d.progress)
  BY Zenon DEF DbOK
<1>2. /\ x.num \in Nat /\ x.num > 0 /\ x.batch \in Nat /\ x.tx \in Nat /\ x.root \in Root
      /\ Len(x.root) = x.num
  BY Zenon, FeedTypes
<1>3. x.num \in Numbers /\ x.root[x.num] = x.tx /\ 0 < x.batch /\ x.batch <= x.num
  BY Zenon DEF FeedOK, BlockOK
<1>4. x.batch \in Batches
  BY <1>2, <1>3, NumberFacts
<1>5. h <= Len(d.blocks) /\ x.num <= Len(d.blocks) + 1 /\ Len(d.blocks) \in Nat
  BY <1>1, DbFields DEF ChainOK
<1>6. /\ DbType(e) /\ e.progress = d.progress /\ e.exec = d.exec
      /\ x.num \in 1 .. Len(e.blocks) /\ Len(d.blocks) <= Len(e.blocks)
      /\ e.blocks[x.num] = [batch |-> x.batch, tx |-> x.tx, root |-> x.root]
      /\ \A n \in 1 .. Len(e.blocks) : n # x.num =>
           n \in 1 .. Len(d.blocks) /\ e.blocks[n] = d.blocks[n]
      /\ e.rows[x.num] = x.batch
      /\ \A n \in Numbers : n # x.num => e.rows[n] = d.rows[n]
      /\ e.lists = d.lists \cup {<<x.batch, x.num>>}
  <2>1. e = WriteL2Block(d, x)
    BY Zenon
  <2>2. Written(d, x, e)
    BY Zenon, <1>1, <1>2, <1>3, <1>4, <1>5, <2>1, WriteFields
  <2> QED
    BY Zenon, <2>2 DEF Written
<1>7. /\ e.blocks[x.num].batch = x.batch /\ e.blocks[x.num].tx = x.tx
      /\ e.blocks[x.num].root = x.root
  BY <1>6
<1>8. \A n \in 1 .. h : n # x.num /\ n \in 1 .. Len(e.blocks) /\ n \in Numbers
                        /\ n \in 1 .. Len(d.blocks)
  <2>1. DbType(e) /\ x.num = h + 1 /\ Len(d.blocks) <= Len(e.blocks)
    BY Zenon, <1>6
  <2>2. Len(e.blocks) \in Nat /\ Len(d.blocks) <= MaxBlocks
    BY Zenon, <1>1, <2>1, DbFields
  <2> QED
    BY <1>5, <2>1, <2>2, NumberFacts
<1>9. \A n \in 1 .. h : e.blocks[n] = d.blocks[n] /\ e.rows[n] = d.rows[n]
  BY Zenon, <1>6, <1>8
<1>10. \A j \in Blocks(f) : f[j].num = x.num => j = i
  BY Zenon, BlockOrder
<1>11. h + 1 = x.num /\ h + 1 \in Nat
  BY <1>2
\* The parent in the feed is the block at h, and so in its batch.
<1>12. ASSUME h > 0
       PROVE  /\ Prefix(d.blocks[h].root, x.root)
              /\ d.blocks[h].batch <= x.batch /\ x.batch <= d.blocks[h].batch + 1
  <2>1. h \in 1 .. (x.num - 1) /\ h \in 1 .. Len(d.blocks)
    BY <1>5, <1>11, <1>12
  <2>2. PICK j \in Blocks(f) : j < i /\ f[j].num = h
    BY Zenon, <2>1 DEF FeedOK, BlockOK
  <2>3. f[j].root = d.blocks[h].root
    BY Zenon, <2>2 DEF Agrees
  <2>4. f[j].batch = d.blocks[h].batch
    BY Zenon, <1>1, <2>1, <2>2, <2>3 DEF BatchesAgree
  <2>5. Follows(f, j, i)
    BY Zenon, <2>2 DEF FeedOK, BlockOK
  <2> QED
    BY Zenon, <1>11, <2>2, <2>3, <2>4, <2>5 DEF Follows
<1>13. ASSUME NEW n \in 1 .. (h + 1)
       PROVE  /\ Len(e.blocks[n].root) = n /\ e.blocks[n].root[n] = e.blocks[n].tx
              /\ e.blocks[n].batch > 0 /\ e.rows[n] = e.blocks[n].batch
              /\ n = 1 => e.blocks[n].batch = 1
              /\ n > 1 => e.blocks[n].batch <= e.blocks[n - 1].batch + 1
              /\ \A m \in 1 .. n : /\ e.blocks[m].batch <= e.blocks[n].batch
                                   /\ Prefix(e.blocks[m].root, e.blocks[n].root)
  <2>1. CASE n \in 1 .. h
    <3>1. (\A m \in 1 .. n : m \in 1 .. h) /\ (n > 1 => n - 1 \in 1 .. h)
      BY <2>1
    <3> QED
      BY Zenon, <1>9, <2>1, <3>1 DEF ChainOK
  <2>2. CASE n = x.num
    <3>1. /\ Len(e.blocks[n].root) = n /\ e.blocks[n].root[n] = e.blocks[n].tx
          /\ e.blocks[n].batch > 0 /\ e.rows[n] = e.blocks[n].batch
      BY Zenon, <1>2, <1>3, <1>6, <1>7, <2>2
    <3>2. n = 1 => e.blocks[n].batch = 1
      BY <1>2, <1>3, <1>7, <2>2
    <3>3. n > 1 => e.blocks[n].batch <= e.blocks[n - 1].batch + 1
      <4>1. n > 1 => n - 1 = h /\ h > 0 /\ h \in 1 .. h
        BY <1>11, <2>2
      <4> QED
        BY Zenon, <1>7, <1>9, <1>12, <2>2, <4>1
    <3>4. ASSUME NEW m \in 1 .. n
          PROVE  /\ e.blocks[m].batch <= e.blocks[n].batch
                 /\ Prefix(e.blocks[m].root, e.blocks[n].root)
      <4>1. CASE m = n
        BY <1>2, <1>7, <2>2, <4>1 DEF Prefix, Root
      <4>2. CASE m # n
        <5>1. m \in 1 .. h /\ h > 0 /\ h \in 1 .. h /\ m \in 1 .. Len(d.blocks)
                /\ h \in 1 .. Len(d.blocks)
          BY <1>5, <1>11, <2>2, <4>2
        <5>2. /\ d.blocks[m].batch <= d.blocks[h].batch
              /\ Prefix(d.blocks[m].root, d.blocks[h].root)
          <6>1. m \in 1 .. h
            BY Zenon, <5>1
          <6> QED
            BY Zenon, <5>1, <6>1 DEF ChainOK
        <5>3. d.blocks[m].batch \in Nat /\ d.blocks[h].batch \in Nat
                /\ d.blocks[m].root \in Root /\ d.blocks[h].root \in Root
          BY Zenon, <1>1, <5>1, DbFields
        <5>4. Prefix(d.blocks[m].root, x.root)
          BY Zenon, <1>2, <1>12, <5>1, <5>2, <5>3, PrefixTrans
        <5>5. d.blocks[m].batch <= x.batch
          BY <1>2, <1>12, <5>1, <5>2, <5>3
        <5> QED
          BY Zenon, <1>7, <1>9, <2>2, <5>1, <5>4, <5>5
      <4> QED
        BY Zenon, <4>1, <4>2
    <3> QED
      BY Zenon, <3>1, <3>2, <3>3, <3>4
  <2> QED
    BY <1>11, <2>1, <2>2
<1>14. ChainOK(e, h + 1)
  <2>1. h + 1 \in 0 .. Len(e.blocks)
    BY <1>6, <1>11
  <2> QED
    BY Zenon, <1>13, <2>1 DEF ChainOK
<1>15. Agrees(f, e, h + 1)
  BY Zenon, <1>7, <1>10, <1>11 DEF Agrees
<1>16. ChainOK(e, e.progress) /\ Agrees(f, e, e.progress)
  <2>1. d.progress \in 0 .. Len(e.blocks) /\ d.progress \in Nat
    BY <1>1, <1>6, DbFields
  <2>2. ASSUME NEW n \in 1 .. d.progress PROVE n \in 1 .. (h + 1)
    BY <2>1
  <2>3. ChainOK(e, d.progress)
    BY Zenon, <1>13, <2>1, <2>2 DEF ChainOK
  <2>4. d.progress = 0 \/ d.progress \in 1 .. h
    BY <2>1
  <2>5. \A j \in Blocks(f) : f[j].num # 0
    BY FeedTypes
  <2>6. Agrees(f, e, d.progress)
    BY Zenon, <1>1, <1>9, <2>4, <2>5 DEF Agrees
  <2> QED
    BY Zenon, <1>6, <2>3, <2>6
<1>17. IndexOK(e)
  <2>1. d.rows[x.num] = 0 \/ d.rows[x.num] = x.batch
    <3>1. x.num <= x.num /\ x.num > d.progress
      BY <1>1, <1>2, DbFields
    <3> QED
      BY Zenon, <1>1, <1>3, <3>1 DEF RowsAhead
  <2>2. ASSUME NEW l \in e.lists PROVE e.rows[l[2]] = l[1]
    <3>1. CASE l \in d.lists
      <4>1. d.rows[l[2]] = l[1] /\ l[2] \in Numbers /\ l[1] # 0
        BY <1>1, <3>1, DbFields, NumberFacts DEF IndexOK
      <4> QED
        BY Zenon, <1>6, <2>1, <4>1
    <3>2. CASE l = <<x.batch, x.num>>
      BY <1>6, <3>2
    <3> QED
      BY Zenon, <1>6, <3>1, <3>2
  <2>3. ASSUME NEW n \in Numbers, e.rows[n] # 0 PROVE <<e.rows[n], n>> \in e.lists
    BY Zenon, <1>1, <1>6, <2>3 DEF IndexOK
  <2> QED
    BY Zenon, <2>2, <2>3 DEF IndexOK
<1>18. BatchesAgree(f, e)
  <2>1. ASSUME NEW j \in Blocks(f), NEW n \in 1 .. Len(e.blocks), f[j].num = n,
               f[j].root = e.blocks[n].root
        PROVE  f[j].batch = e.blocks[n].batch
    <3>1. CASE n = x.num
      BY Zenon, <1>7, <1>10, <2>1, <3>1
    <3>2. CASE n # x.num
      <4>1. n \in 1 .. Len(d.blocks) /\ e.blocks[n] = d.blocks[n]
        BY Zenon, <1>6, <3>2
      <4> QED
        BY Zenon, <1>1, <2>1, <4>1 DEF BatchesAgree
    <3> QED
      BY Zenon, <3>1, <3>2
  <2> QED
    BY Zenon, <2>1 DEF BatchesAgree
<1>19. RowsAhead(f, e)
  <2>1. ASSUME NEW j \in Blocks(f), NEW m \in Numbers, f[j].num <= m, m > e.progress, e.rows[m] # 0
        PROVE  e.rows[m] >= f[j].batch /\ (f[j].num = m => e.rows[m] = f[j].batch)
    <3>1. CASE m # x.num
      BY Zenon, <1>1, <1>6, <2>1, <3>1 DEF RowsAhead
    <3>2. CASE m = x.num
      <4>1. f[j].batch <= x.batch /\ f[j].batch \in Nat
        BY Zenon, <2>1, <3>2, BlockOrder, FeedTypes
      <4>2. f[j].num = m => x.batch = f[j].batch
        BY Zenon, <1>10, <3>2
      <4> QED
        BY <1>2, <1>6, <3>2, <4>1, <4>2
    <3> QED
      BY Zenon, <3>1, <3>2
  <2> QED
    BY Zenon, <2>1 DEF RowsAhead
<1>20. DbOK(f, e)
  BY Zenon, <1>6, <1>16, <1>17, <1>18, <1>19 DEF DbOK
<1> QED
  BY Zenon, <1>6, <1>9, <1>14, <1>15, <1>20 DEF Extended

\* A shorter chain is one.
LEMMA ChainBelow ==
    ASSUME NEW d, DbType(d), NEW h \in Nat, ChainOK(d, h), NEW to \in 0 .. h
    PROVE  ChainOK(d, to)
<1>1. h <= Len(d.blocks) /\ Len(d.blocks) \in Nat
  BY DbFields DEF ChainOK
<1>2. to \in 0 .. Len(d.blocks) /\ \A n \in 1 .. to : n \in 1 .. h
  BY <1>1
<1> QED
  BY Zenon, <1>2 DEF ChainOK

\* A chain of the same blocks and rows.
LEMMA ChainCopy ==
    ASSUME NEW d, NEW e, NEW h \in Nat, ChainOK(d, h), h \in 0 .. Len(e.blocks),
           \A n \in 1 .. h : e.blocks[n] = d.blocks[n] /\ e.rows[n] = d.rows[n]
    PROVE  ChainOK(e, h)
<1>1. ASSUME NEW n \in 1 .. h
      PROVE  /\ Len(e.blocks[n].root) = n /\ e.blocks[n].root[n] = e.blocks[n].tx
             /\ e.blocks[n].batch > 0 /\ e.rows[n] = e.blocks[n].batch
             /\ n = 1 => e.blocks[n].batch = 1
             /\ n > 1 => e.blocks[n].batch <= e.blocks[n - 1].batch + 1
             /\ \A m \in 1 .. n : /\ e.blocks[m].batch <= e.blocks[n].batch
                                  /\ Prefix(e.blocks[m].root, e.blocks[n].root)
  <2>1. (\A m \in 1 .. n : m \in 1 .. h) /\ (n > 1 => n - 1 \in 1 .. h)
    OBVIOUS
  <2> QED
    BY Zenon, <2>1 DEF ChainOK
<1> QED
  BY Zenon, <1>1 DEF ChainOK

\* What an unwind of the stage leaves.
Unwound(d, to, e) ==
    /\ DbType(e) /\ e.progress = to /\ e.exec = d.exec /\ Len(e.blocks) = to
    /\ \A n \in 1 .. to : e.blocks[n] = d.blocks[n]
    /\ \A n \in Numbers : e.rows[n] = IF n \in (to + 1) .. d.progress THEN 0 ELSE d.rows[n]
    /\ \A l : l \in e.lists <=> l \in d.lists /\ l[2] \notin (to + 1) .. d.progress

LEMMA UnwoundFields ==
    ASSUME NEW d, DbType(d), IndexOK(d), NEW to \in Nat, to < d.progress, d.exec <= to,
           NEW e, e = UnwoundBatches(d, to)
    PROVE  Unwound(d, to, e)
<1> DEFINE gone == (to + 1) .. d.progress
           bs == SubSeq(d.blocks, 1, to)
           rs == [n \in Numbers |-> IF n \in gone THEN 0 ELSE d.rows[n]]
           ls == {l \in d.lists : ~(l[2] \in gone /\ \E n \in gone : d.rows[n] = l[1])}
           es == d.ends \ gone
<1>1. /\ d.blocks \in Seq(StoredBlock) /\ to \in 0 .. Len(d.blocks)
      /\ to <= MaxBlocks /\ d.exec \in Nat
  <2>1. /\ d.blocks \in Seq(StoredBlock) /\ Len(d.blocks) \in Nat /\ Len(d.blocks) <= MaxBlocks
        /\ d.progress \in Nat /\ d.progress <= Len(d.blocks) /\ MaxBlocks \in Nat /\ d.exec \in Nat
    BY Zenon, DbFields, NumberFacts
  <2> QED
    BY <2>1
<1>2. bs \in Seq(StoredBlock) /\ Len(bs) = to /\ \A n \in 1 .. to : bs[n] = d.blocks[n]
  BY <1>1, PrefixFacts
<1>3. rs \in [Numbers -> {0} \cup Batches]
        /\ \A n \in Numbers : rs[n] = IF n \in gone THEN 0 ELSE d.rows[n]
  BY Zenon, DbFields
<1>4. \A l : l \in ls <=> l \in d.lists /\ l[2] \notin gone
  BY Zenon DEF IndexOK
<1>5. ls \subseteq Batches \X Numbers /\ es \subseteq {0} \cup Numbers
  BY Zenon, DbFields
<1>6. e = [d EXCEPT !.blocks = bs, !.rows = rs, !.lists = ls, !.ends = es, !.progress = to]
  BY DEF UnwoundBatches, DbType
<1> HIDE DEF bs, rs, ls, es
<1>7. /\ e.blocks = bs /\ e.rows = rs /\ e.lists = ls /\ e.progress = to /\ e.exec = d.exec
  BY <1>6 DEF DbType
<1>8. DbType(e)
  <2>1. bs \in Seq(StoredBlock) /\ Len(bs) = to /\ rs \in [Numbers -> {0} \cup Batches]
    BY Zenon, <1>2, <1>3
  <2>2. ls \in SUBSET (Batches \X Numbers) /\ es \in SUBSET ({0} \cup Numbers)
    BY Zenon, <1>5
  <2>3. e \in [blocks : Seq(StoredBlock), rows : [Numbers -> {0} \cup Batches],
               lists : SUBSET (Batches \X Numbers), ends : SUBSET ({0} \cup Numbers),
               progress : Nat, exec : Nat, headers : Nat, finish : {0} \cup Numbers]
    BY Zenon, <1>6, <2>1, <2>2 DEF DbType
  <2>4. e.headers = e.exec
    BY <1>6 DEF DbType
  <2>5. d.exec <= to /\ to <= to /\ to <= MaxBlocks
    BY <1>1
  <2> QED
    BY Zenon, <1>7, <2>1, <2>3, <2>4, <2>5 DEF DbType
<1> QED
  BY Zenon, <1>2, <1>3, <1>4, <1>7, <1>8 DEF Unwound

LEMMA UnwoundOK ==
    ASSUME NEW f, FeedOK(f), NEW d, DbOK(f, d), NEW to \in Nat, to < d.progress, d.exec <= to,
           Agrees(f, d, to), NEW e, e = UnwoundBatches(d, to)
    PROVE  DbOK(f, e) /\ e.progress = to
<1>1. DbType(d) /\ IndexOK(d) /\ BatchesAgree(f, d) /\ RowsAhead(f, d) /\ ChainOK(d, d.progress)
  BY Zenon DEF DbOK
<1>2. /\ DbType(e) /\ e.progress = to /\ Len(e.blocks) = to
      /\ \A n \in 1 .. to : e.blocks[n] = d.blocks[n]
      /\ \A n \in Numbers : e.rows[n] = IF n \in (to + 1) .. d.progress THEN 0 ELSE d.rows[n]
      /\ \A l : l \in e.lists <=> l \in d.lists /\ l[2] \notin (to + 1) .. d.progress
  <2>1. Unwound(d, to, e)
    BY Zenon, <1>1, UnwoundFields
  <2> QED
    BY Zenon, <2>1 DEF Unwound
<1>3. to \in 0 .. d.progress /\ d.progress \in Nat /\ to <= MaxBlocks
        /\ d.progress <= Len(d.blocks) /\ Len(d.blocks) \in Nat
  <2>1. /\ Len(d.blocks) \in Nat /\ Len(d.blocks) <= MaxBlocks
        /\ d.progress \in Nat /\ d.progress <= Len(d.blocks) /\ MaxBlocks \in Nat
    BY Zenon, <1>1, DbFields, NumberFacts
  <2> QED
    BY <2>1
<1>4. /\ \A n \in 1 .. to : n \in Numbers /\ n \notin (to + 1) .. d.progress
      /\ \A n \in 1 .. to : n \in 1 .. Len(d.blocks)
  BY <1>3, NumberFacts
<1>5. ChainOK(e, to)
  <2>1. ChainOK(d, to)
    BY Zenon, <1>1, <1>3, ChainBelow
  <2>2. to \in 0 .. Len(e.blocks)
    BY <1>2
  <2>3. \A n \in 1 .. to : e.blocks[n] = d.blocks[n] /\ e.rows[n] = d.rows[n]
    BY Zenon, <1>2, <1>4
  <2> QED
    BY Zenon, <2>1, <2>2, <2>3, ChainCopy
<1>6. Agrees(f, e, to)
  <2>1. to = 0 \/ to \in 1 .. to
    OBVIOUS
  <2>2. \A i \in Blocks(f) : f[i].num # 0
    BY FeedTypes
  <2> QED
    BY Zenon, <1>2, <2>1, <2>2 DEF Agrees
<1>7. IndexOK(e)
  <2>1. ASSUME NEW l \in e.lists PROVE e.rows[l[2]] = l[1]
    <3>1. l \in d.lists /\ l[2] \notin (to + 1) .. d.progress
      BY Zenon, <1>2
    <3>2. l[2] \in Numbers
      BY <1>1, <3>1, DbFields
    <3> QED
      BY Zenon, <1>1, <1>2, <3>1, <3>2 DEF IndexOK
  <2>2. ASSUME NEW n \in Numbers, e.rows[n] # 0 PROVE <<e.rows[n], n>> \in e.lists
    <3>1. n \notin (to + 1) .. d.progress /\ e.rows[n] = d.rows[n]
      BY Zenon, <1>2, <2>2
    <3>2. <<e.rows[n], n>> \in d.lists
      BY Zenon, <1>1, <2>2, <3>1 DEF IndexOK
    <3> QED
      BY <1>2, <3>1, <3>2
  <2> QED
    BY Zenon, <2>1, <2>2 DEF IndexOK
<1>8. BatchesAgree(f, e)
  <2>1. \A n \in 1 .. Len(e.blocks) : n \in 1 .. Len(d.blocks) /\ e.blocks[n] = d.blocks[n]
    BY Zenon, <1>2, <1>4
  <2>2. ASSUME NEW i \in Blocks(f), NEW n \in 1 .. Len(e.blocks), f[i].num = n,
               f[i].root = e.blocks[n].root
        PROVE  f[i].batch = e.blocks[n].batch
    <3>1. n \in 1 .. Len(d.blocks) /\ e.blocks[n] = d.blocks[n]
      BY Zenon, <2>1
    <3>2. f[i].root = d.blocks[n].root
      BY Zenon, <2>2, <3>1
    <3> QED
      BY Zenon, <1>1, <2>2, <3>1, <3>2 DEF BatchesAgree
  <2> QED
    BY Zenon, <2>2 DEF BatchesAgree
<1>9. RowsAhead(f, e)
  <2>1. ASSUME NEW m \in Numbers, m > e.progress, e.rows[m] # 0
        PROVE  m > d.progress /\ e.rows[m] = d.rows[m]
    <3>1. m \notin (to + 1) .. d.progress /\ e.rows[m] = d.rows[m]
      BY Zenon, <1>2, <2>1
    <3> QED
      BY <1>2, <1>3, <2>1, <3>1, NumberFacts
  <2> QED
    BY Zenon, <1>1, <2>1 DEF RowsAhead
<1> QED
  BY Zenon, <1>2, <1>5, <1>6, <1>7, <1>8, <1>9 DEF DbOK

-----------------------------------------------------------------------------
(* The sequencer's steps.                                                          *)

\* A block that the node's database d can be told of.
Fits(x, d) ==
    /\ x.num = d.progress => x.root = d.blocks[d.progress].root
    /\ \A n \in 1 .. Len(d.blocks) :
         x.num = n /\ x.root = d.blocks[n].root => x.batch = d.blocks[n].batch
    /\ \A m \in Numbers : x.num <= m /\ m > d.progress /\ d.rows[m] # 0 =>
         d.rows[m] >= x.batch /\ (x.num = m => d.rows[m] = x.batch)

LEMMA AgreesFeed ==
    ASSUME NEW f, NEW g, NEW d, NEW h, Agrees(f, d, h),
           \A i \in Blocks(g) : \/ g[i].num = h => g[i].root = d.blocks[h].root
                                \/ \E j \in Blocks(f) : g[i] = f[j]
    PROVE  Agrees(g, d, h)
<1>1. ASSUME NEW i \in Blocks(g), g[i].num = h PROVE g[i].root = d.blocks[h].root
  <2>1. CASE \E j \in Blocks(f) : g[i] = f[j]
    <3>1. PICK j \in Blocks(f) : g[i] = f[j]
      BY Zenon, <2>1
    <3> QED
      BY Zenon, <1>1, <3>1 DEF Agrees
  <2> QED
    BY Zenon, <1>1, <2>1
<1> QED
  BY Zenon, <1>1 DEF Agrees

LEMMA DbFeed ==
    ASSUME NEW f, NEW g, NEW d, DbOK(f, d),
           \A i \in Blocks(g) : Fits(g[i], d) \/ \E j \in Blocks(f) : g[i] = f[j]
    PROVE  DbOK(g, d)
<1>1. ASSUME NEW i \in Blocks(g) PROVE Fits(g[i], d)
  <2>1. CASE \E j \in Blocks(f) : g[i] = f[j]
    <3>1. PICK j \in Blocks(f) : g[i] = f[j]
      BY Zenon, <2>1
    <3>2. Fits(f[j], d)
      BY Zenon DEF DbOK, Agrees, BatchesAgree, RowsAhead, Fits
    <3> QED
      BY Zenon, <3>1, <3>2
  <2> QED
    BY Zenon, <2>1
<1>2. Agrees(g, d, d.progress)
  BY Zenon, <1>1 DEF Agrees, Fits
<1>3. BatchesAgree(g, d)
  BY Zenon, <1>1 DEF BatchesAgree, Fits
<1>4. RowsAhead(g, d)
  BY Zenon, <1>1 DEF RowsAhead, Fits
<1> QED
  BY Zenon, <1>2, <1>3, <1>4 DEF DbOK

\* A block that fits whatever the node is doing.
Suits(x) ==
    /\ Fits(x, db) /\ Fits(x, disk)
    /\ x.num = reader.last => x.root = db.blocks[x.num].root
    /\ x.num \in 1 .. search.best => x.root = db.blocks[x.num].root
    /\ unwindTo < db.progress /\ x.num = unwindTo => x.root = db.blocks[x.num].root

\* The blocks of the feed are old ones or suit the node.
LEMMA FeedStep ==
    ASSUME RpcInv, FeedOK(feed'), ControlOK', SearchExact', search.cuts <= cuts',
           reader'.last = reader.last, UNCHANGED <<disk, db, oneTx, pc, unwindTo, search>>,
           \A i \in Blocks(feed') : Suits(feed'[i]) \/ \E j \in Blocks(feed) : feed'[i] = feed[j]
    PROVE  RpcInv'
<1>1. /\ disk' = disk /\ db' = db /\ oneTx' = oneTx /\ pc' = pc /\ unwindTo' = unwindTo
      /\ search' = search
  BY Zenon
<1>2. DbOK(feed, db) /\ DbOK(feed, disk) /\ TxOK /\ ReaderOK /\ SearchOK /\ UnwindOK
  BY Zenon DEF RpcInv
<1>3. DbOK(feed', db) /\ DbOK(feed', disk)
  <2>1. \A i \in Blocks(feed') : Fits(feed'[i], db) \/ \E j \in Blocks(feed) : feed'[i] = feed[j]
    BY Zenon DEF Suits
  <2>2. \A i \in Blocks(feed') : Fits(feed'[i], disk) \/ \E j \in Blocks(feed) : feed'[i] = feed[j]
    BY Zenon DEF Suits
  <2> QED
    BY Zenon, <1>2, <2>1, <2>2, DbFeed
<1>4. TxOK'
  BY <1>1, <1>2 DEF TxOK
<1>5. ReaderOK'
  <2>1. Agrees(feed', db, reader.last)
    <3>1. \A i \in Blocks(feed') :
            \/ feed'[i].num = reader.last => feed'[i].root = db.blocks[reader.last].root
            \/ \E j \in Blocks(feed) : feed'[i] = feed[j]
      BY Zenon DEF Suits
    <3>2. Agrees(feed, db, reader.last)
      BY Zenon, <1>2 DEF ReaderOK
    <3> QED
      BY Zenon, <3>1, <3>2, AgreesFeed
  <2> QED
    BY Zenon, <1>1, <1>2, <2>1 DEF ReaderOK
<1>6. SearchOK'
  <2>1. ASSUME NEW m \in 1 .. search.best PROVE Agrees(feed', db, m)
    <3>1. \A i \in Blocks(feed') :
            \/ feed'[i].num = m => feed'[i].root = db.blocks[m].root
            \/ \E j \in Blocks(feed) : feed'[i] = feed[j]
      BY Zenon DEF Suits
    <3>2. Agrees(feed, db, m)
      BY Zenon, <1>2 DEF SearchOK
    <3> QED
      BY Zenon, <3>1, <3>2, AgreesFeed
  <2> QED
    BY Zenon, <1>1, <1>2, <2>1 DEF SearchOK
<1>7. UnwindOK'
  <2>1. ASSUME pc \in {"unwindExec", "unwindBatches"}, unwindTo < db.progress
        PROVE  Agrees(feed', db, unwindTo)
    <3>1. Agrees(feed, db, unwindTo)
      BY Zenon, <1>2, <2>1 DEF UnwindOK
    <3>2. \A i \in Blocks(feed') :
            \/ feed'[i].num = unwindTo => feed'[i].root = db.blocks[unwindTo].root
            \/ \E j \in Blocks(feed) : feed'[i] = feed[j]
      BY Zenon, <2>1 DEF Suits
    <3> QED
      BY Zenon, <3>1, <3>2, AgreesFeed
  <2> QED
    BY Zenon, <1>1, <1>2, <2>1 DEF UnwindOK
<1>8. DbOK(feed', db') /\ DbOK(feed', disk')
  BY Zenon, <1>1, <1>3
<1> QED
  BY Zenon, <1>4, <1>5, <1>6, <1>7, <1>8 DEF RpcInv

LEMMA ControlFacts ==
    ASSUME ControlOK
    PROVE  /\ cuts \in 0 .. MaxCuts /\ faults \in 0 .. MaxFaults /\ cuts \in Nat
           /\ reader.at \in Nat /\ reader.limit \in Nat /\ reader.last \in Nat
           /\ search.lo \in Nat /\ search.hi \in Nat /\ search.latest \in Nat /\ search.cuts \in Nat
           /\ search.best \in Nat \cup {Nil} /\ search.best \in Int
           /\ reader \in [at : Nat, limit : Nat, last : Nat]
           /\ search \in [lo : Nat, hi : Nat, best : Nat \cup {Nil}, latest : Nat, cuts : Nat]
<1>1. /\ cuts \in 0 .. MaxCuts /\ faults \in 0 .. MaxFaults
      /\ reader \in [at : Nat, limit : Nat, last : Nat]
      /\ search \in [lo : Nat, hi : Nat, best : Nat \cup {Nil}, latest : Nat, cuts : Nat]
  BY Zenon DEF ControlOK
<1>2. cuts \in Nat
  BY <1>1, RpcAssumption
<1>3. reader.at \in Nat /\ reader.limit \in Nat /\ reader.last \in Nat
  BY <1>1
<1>4. /\ search.lo \in Nat /\ search.hi \in Nat /\ search.latest \in Nat /\ search.cuts \in Nat
      /\ search.best \in Nat \cup {Nil}
  BY <1>1
<1>5. search.best \in Int
  BY <1>4 DEF Nil
<1> QED
  BY Zenon, <1>1, <1>2, <1>3, <1>4, <1>5

\* The last entry of an open batch is a block.
LEMMA OpenBatch ==
    ASSUME WellOrdered, NEW f, FeedOK(f), f # <<>>, ~IsLastEntryBatchEnd(Opened(f))
    PROVE  Len(f) \in Blocks(f) /\ HighestBatchInFile(f) > 0 /\ HighestBatchInFile(f) \in Nat
<1>1. f \in Seq(FeedEntry) /\ Len(f) \in Nat
  BY Zenon, FeedTypes DEF FeedOK
<1>2. Len(f) \in 1 .. Len(f) /\ Len(f) + 1 \notin 1 .. Len(f)
  BY <1>1
<1>3. f[Len(f)].type # "end"
  BY DEF IsLastEntryBatchEnd, Opened
<1>4. f[Len(f)].type \in {"start", "block", "end"}
  BY <1>1, <1>2 DEF FeedEntry
<1>5. Len(f) \notin Starts(f)
  BY Zenon, <1>2 DEF FeedOK, StartOK, Blocks
<1>6. Len(f) \in Blocks(f)
  BY Zenon, <1>2, <1>3, <1>4, <1>5 DEF Starts, Blocks
<1>7. f[Len(f)].batch <= HighestBatchInFile(f) /\ HighestBatchInFile(f) \in Nat
        /\ f[Len(f)].batch > 0 /\ f[Len(f)].batch \in Nat
  BY Zenon, <1>6, BatchFacts, FeedTypes DEF FeedOK, BlockOK
<1> QED
  BY <1>6, <1>7

LEMMA CloseBatchStep ==
    ASSUME WellOrdered, RpcInv, CloseBatch
    PROVE  RpcInv'
<1>1. FeedOK(feed) /\ ControlOK /\ SearchOK /\ SearchExact
  BY Zenon DEF RpcInv
<1>2. /\ UNCHANGED <<disk, db, oneTx, own, pc, unwindTo, reader, search, conn, cuts, faults>>
      /\ feed # <<>> /\ ~IsLastEntryBatchEnd(Opened(feed))
  BY Zenon DEF CloseBatch
<1>3. PICK e : e = BatchEnd(HighestBatchInFile(feed), feed[Len(feed)].root)
  BY Zenon
<1>4. e \in FeedEntry /\ e.type = "end"
  <2>1. feed[Len(feed)].root \in Root /\ HighestBatchInFile(feed) \in Nat
    BY Zenon, <1>1, <1>2, OpenBatch, FeedTypes
  <2> QED
    BY <1>3, <2>1 DEF BatchEnd, FeedEntry
<1>5. feed' = Append(feed, e)
  BY Zenon, <1>3 DEF CloseBatch
<1>6. FeedOK(feed') /\ Blocks(feed') = Blocks(feed) /\ \A i \in Blocks(feed) : feed'[i] = feed[i]
  BY Zenon, <1>1, <1>4, <1>5, FeedClose
<1>7. ControlOK'
  BY Zenon, <1>1, <1>2 DEF ControlOK
<1>8. SearchExact'
  BY Zenon, <1>1, <1>2, <1>6 DEF SearchExact
<1>9. search.cuts <= cuts'
  BY Zenon, <1>1, <1>2 DEF SearchOK
<1> QED
  BY Zenon, <1>2, <1>6, <1>7, <1>8, <1>9, FeedStep

LEMMA CutStep ==
    ASSUME WellOrdered, RpcInv, Cut
    PROVE  RpcInv'
<1>1. FeedOK(feed) /\ ControlOK /\ SearchOK /\ SearchExact
  BY Zenon DEF RpcInv
<1>2. PICK b \in 1 .. HighestBatchInFile(feed) :
        /\ cuts < MaxCuts
        /\ cuts' = cuts + 1
        /\ feed' = UnwindToBatchStart(Opened(feed), b).file
        /\ reader' = [reader EXCEPT !.at = IF @ > Len(feed') THEN Len(feed') + 1 ELSE @]
        /\ UNCHANGED <<disk, db, oneTx, own, pc, unwindTo, search, conn, faults>>
  BY Zenon DEF Cut
<1>3. PICK s : s = BookmarkOf(feed, "start", b)
  BY Zenon
<1>4. s \in Starts(feed)
  <2>1. \E i \in Starts(feed) : feed[i].batch = b
    BY Zenon, <1>1, BatchFacts
  <2> QED
    BY Zenon, <1>3, <2>1 DEF BookmarkOf, Starts
<1>5. feed' = SubSeq(feed, 1, s - 1)
  BY Zenon, <1>2, <1>3 DEF UnwindToBatchStart, TruncateFile, Opened
<1>6. FeedOK(feed') /\ \A i \in Blocks(feed') : i \in Blocks(feed) /\ feed'[i] = feed[i]
  <2>1. feed \in Seq(FeedEntry) /\ s \in 1 .. Len(feed) /\ Len(feed) \in Nat /\ s \in Nat
    BY Zenon, <1>1, <1>4, FeedTypes DEF FeedOK
  <2>2. s - 1 \in 0 .. Len(feed)
    BY <2>1
  <2>3. feed' \in Seq(FeedEntry) /\ Len(feed') = s - 1 /\ \A i \in 1 .. (s - 1) : feed'[i] = feed[i]
    BY <1>5, <2>1, <2>2, PrefixFacts
  <2> QED
    BY Zenon, <1>1, <1>4, <2>3, FeedCut
<1>7. /\ reader' \in [at : Nat, limit : Nat, last : Nat] /\ reader'.last = reader.last
      /\ pc = "read" => reader'.at > 0
      /\ pc \notin {"read", "save"} => reader' = NoReader
  <2>1. reader \in [at : Nat, limit : Nat, last : Nat] /\ Len(feed') \in Nat
    BY Zenon, <1>1, <1>6, ControlFacts, FeedTypes
  <2>2. reader' \in [at : Nat, limit : Nat, last : Nat] /\ reader'.last = reader.last
    BY <1>2, <2>1
  <2>3. (pc = "read" => reader.at > 0) /\ (pc \notin {"read", "save"} => reader = NoReader)
    BY Zenon, <1>1 DEF ControlOK
  <2>4. pc = "read" => reader'.at > 0
    BY <1>2, <2>1, <2>3
  <2>5. reader = NoReader => reader' = NoReader
    BY <1>2, <2>1 DEF NoReader
  <2> QED
    BY Zenon, <2>2, <2>3, <2>4, <2>5
<1>8. cuts' \in 0 .. MaxCuts /\ search.cuts <= cuts' /\ search.cuts # cuts'
  <2>1. cuts \in Nat /\ search.cuts \in Nat /\ search.cuts <= cuts /\ MaxCuts \in Nat
    BY <1>1, ControlFacts, RpcAssumption DEF SearchOK
  <2> QED
    BY <1>2, <2>1
<1>9. ControlOK'
  BY Zenon, <1>1, <1>2, <1>7, <1>8 DEF ControlOK
<1>10. SearchExact'
  BY Zenon, <1>2, <1>8 DEF SearchExact
<1> QED
  BY Zenon, <1>2, <1>6, <1>7, <1>8, <1>9, <1>10, FeedStep

\* The start of the next batch, with no batch skipped.
LEMMA NextStart ==
    ASSUME NEW prev \in Nat, NEW r, NEW s, s = BatchStartEntries(prev, prev + 1, r)
    PROVE  s = <<BatchStart(prev + 1)>>
<1>1. (prev + 1) - prev - 1 = 0 /\ 2 * 0 + 1 = 1 /\ 1 > 2 * 0
  OBVIOUS
<1>2. s = [i \in 1 .. 1 |-> BatchStart(prev + 1)]
  BY <1>1 DEF BatchStartEntries
<1> QED
  BY <1>2

\* What MayPublish says of the next block, for a sequencer without quirks.
LEMMA MaySuit ==
    ASSUME Quirks = {}, RpcInv, NEW x, NEW n \in Nat, NEW b, NEW p, NEW r,
           n > 0, n <= MaxBlocks, MayPublish(n, [batch |-> b, tx |-> p, root |-> r]),
           x.num = n, x.batch = b, x.root = r
    PROVE  Suits(x)
<1>1. DbType(db) /\ DbType(disk) /\ ControlOK /\ ReaderOK /\ SearchOK
  BY Zenon DEF RpcInv, DbOK
<1>2. /\ n = disk.progress => x.root = disk.blocks[n].root
      /\ n \in {db.progress, reader.last, unwindTo} \cup (1 .. search.best)
           /\ n <= Len(db.blocks) => x.root = db.blocks[n].root
      /\ \A d \in {db, disk} :
           /\ n <= Len(d.blocks) /\ d.blocks[n].root = x.root => d.blocks[n].batch = x.batch
           /\ \A m \in n .. MaxBlocks : m > d.progress /\ d.rows[m] # 0 =>
                d.rows[m] >= x.batch /\ (m = n => d.rows[m] = x.batch)
  BY DEF MayPublish
<1>3. /\ Len(db.blocks) \in Nat /\ db.progress <= Len(db.blocks) /\ db.progress \in Nat
      /\ reader.last \in Nat /\ reader.last \in 0 .. Len(db.blocks)
      /\ search.best \in Int /\ search.latest \in Nat /\ search.best <= search.latest
      /\ search.latest \in 0 .. Len(db.blocks)
  BY Zenon, <1>1, DbFields, ControlFacts DEF ReaderOK, SearchOK, ChainOK
<1>4. n = db.progress \/ n = reader.last \/ n \in 1 .. search.best => n <= Len(db.blocks)
  BY <1>3
<1>5. n = unwindTo /\ unwindTo < db.progress => n <= Len(db.blocks)
  BY <1>3
<1>6. ASSUME NEW d \in {db, disk}, n = d.progress => x.root = d.blocks[n].root
      PROVE  Fits(x, d)
  <2>1. \A k \in 1 .. Len(d.blocks) : n = k => n <= Len(d.blocks)
    BY <1>1, DbFields
  <2>2. ASSUME NEW k \in 1 .. Len(d.blocks), x.num = k, x.root = d.blocks[k].root
        PROVE  x.batch = d.blocks[k].batch
    <3>1. n = k /\ n <= Len(d.blocks) /\ d.blocks[n].root = x.root
      BY Zenon, <2>1, <2>2
    <3>2. d.blocks[n].batch = x.batch
      BY Zenon, <1>2, <3>1
    <3> QED
      BY Zenon, <3>1, <3>2
  <2>3. \A m \in Numbers : n <= m => m \in n .. MaxBlocks
    BY NumberFacts
  <2>4. \A m \in Numbers : x.num <= m /\ m > d.progress /\ d.rows[m] # 0 =>
          d.rows[m] >= x.batch /\ (x.num = m => d.rows[m] = x.batch)
    BY Zenon, <1>2, <2>3
  <2> QED
    BY Zenon, <1>6, <2>2, <2>4 DEF Fits
<1>7. Fits(x, db) /\ Fits(x, disk)
  BY Zenon, <1>2, <1>4, <1>6
<1> QED
  BY Zenon, <1>2, <1>4, <1>5, <1>7 DEF Suits

\* The next block of the feed.
LEMMA NextBlock ==
    ASSUME WellOrdered, Quirks = {}, FeedOK(feed), cuts \in Nat, Publish
    PROVE  \E x :
             /\ FeedOK(feed') /\ Blocks(feed') = Blocks(feed) \cup {Len(feed')}
             /\ feed'[Len(feed')] = x /\ x.num = FeedHeight + 1 /\ x.num <= MaxBlocks
             /\ \A i \in Blocks(feed) : feed'[i] = feed[i]
             /\ MayPublish(FeedHeight + 1, [batch |-> x.batch, tx |-> x.tx, root |-> x.root])
<1> DEFINE open == feed # <<>> /\ ~IsLastEntryBatchEnd(Opened(feed))
           prev == HighestBatchInFile(feed)
           n == FeedHeight + 1
           path == IF n = 1 THEN <<>> ELSE BlockAt(feed, n - 1).root
<1>1. feed \in Seq(FeedEntry) /\ Len(feed) \in Nat /\ prev \in Nat /\ FeedHeight \in 0 .. MaxBlocks
        /\ \A k \in 1 .. FeedHeight : \E i \in Blocks(feed) : feed[i].num = k
  <2>1. feed \in Seq(FeedEntry) /\ Len(feed) \in Nat
    BY Zenon, FeedTypes DEF FeedOK
  <2>2. prev \in Nat
    BY Zenon, BatchFacts
  <2>3. FeedHeight \in 0 .. MaxBlocks
          /\ \A k \in 1 .. FeedHeight : \E i \in Blocks(feed) : feed[i].num = k
    BY Zenon, HeightFacts DEF FeedHeight
  <2> QED
    BY Zenon, <2>1, <2>2, <2>3
<1>2. PICK p \in 0 .. (IF n = 1 THEN 0 ELSE cuts),
           b \in IF open THEN {prev}
                 ELSE (prev + 1) .. (IF "gap" \in Quirks /\ n > 1 THEN prev + 2 ELSE prev + 1) :
             /\ n <= MaxBlocks
             /\ MayPublish(n, [batch |-> b, tx |-> p, root |-> Append(path, p)])
             /\ feed' = feed \o (IF open THEN <<>> ELSE BatchStartEntries(prev, b, Append(path, p)))
                          \o <<L2Block(n, [batch |-> b, tx |-> p, root |-> Append(path, p)])>>
  BY Zenon DEF Publish
<1> HIDE DEF prev, n, path
<1>3. n = FeedHeight + 1 /\ n \in Nat /\ n > 0 /\ p \in Nat
  <2>1. n = FeedHeight + 1
    BY Zenon DEF n
  <2> QED
    BY <1>1, <1>2, <2>1
<1>4. b = prev + (IF open THEN 0 ELSE 1) /\ b \in Nat
  BY <1>1, <1>2
<1>5. path \in Root /\ Len(path) = n - 1
        /\ \A i \in Blocks(feed) : feed[i].num = n - 1 => feed[i].root = path
  <2>1. CASE n = 1
    <3>1. path = <<>>
      BY Zenon, <2>1 DEF path
    <3>2. \A i \in Blocks(feed) : feed[i].num # n - 1
      BY <2>1, FeedTypes
    <3> QED
      BY <2>1, <3>1, <3>2 DEF Root
  <2>2. CASE n # 1
    <3>1. n - 1 \in 1 .. FeedHeight
      BY <1>1, <1>3, <2>2
    <3>2. PICK i \in Blocks(feed) : feed[i].num = n - 1
      BY Zenon, <1>1, <3>1
    <3>3. path = feed[i].root
      BY Zenon, <2>2, <3>2, BlockAtFacts DEF path
    <3>4. ASSUME NEW j \in Blocks(feed), feed[j].num = n - 1 PROVE j = i
      <4>1. feed[j].num = feed[i].num
        BY Zenon, <3>2, <3>4
      <4> QED
        BY Zenon, <4>1, BlockOrder
    <3> QED
      BY Zenon, <3>2, <3>3, <3>4, FeedTypes
  <2> QED
    BY Zenon, <2>1, <2>2
<1>6. PICK r : r = Append(path, p)
  BY Zenon
<1>7. r \in Root /\ Len(r) = n /\ r[n] = p /\ Prefix(path, r)
  BY <1>3, <1>5, <1>6 DEF Root, Prefix
<1>8. PICK x : x = L2Block(n, [batch |-> b, tx |-> p, root |-> r])
  BY Zenon
<1>9. x \in FeedEntry /\ x.type = "block" /\ x.num = n /\ x.batch = b /\ x.tx = p /\ x.root = r
  BY <1>3, <1>4, <1>7, <1>8 DEF L2Block, FeedEntry
<1>10. feed' = feed \o (IF open THEN <<>> ELSE <<BatchStart(b)>>) \o <<x>>
  <2>1. ~open => BatchStartEntries(prev, b, r) = <<BatchStart(b)>>
    BY <1>1, <1>4, NextStart
  <2> QED
    BY Zenon, <1>2, <1>6, <1>8, <2>1
<1>11. BatchStart(b) \in FeedEntry
  BY <1>4 DEF BatchStart, FeedEntry
<1>12. /\ feed' \in Seq(FeedEntry) /\ Len(feed') = Len(feed) + (IF ~open THEN 2 ELSE 1)
       /\ feed'[Len(feed')] = x /\ (~open => feed'[Len(feed) + 1] = BatchStart(x.batch))
       /\ \A i \in 1 .. Len(feed) : feed'[i] = feed[i]
  <2> HIDE DEF open
  <2>1. CASE open
    BY <1>1, <1>9, <1>10, <2>1
  <2>2. CASE ~open
    BY <1>1, <1>9, <1>10, <1>11, <2>2
  <2> QED
    BY Zenon, <2>1, <2>2
<1>13. x.batch > 0 /\ x.batch = prev + (IF ~open THEN 1 ELSE 0)
  <2>1. open => prev > 0
    BY Zenon, OpenBatch DEF prev
  <2> HIDE DEF open
  <2> QED
    BY <1>1, <1>4, <1>9, <2>1
<1>14. FeedOK(feed') /\ Blocks(feed') = Blocks(feed) \cup {Len(feed')}
  <2>1. /\ x.batch = HighestBatchInFile(feed) + (IF ~open THEN 1 ELSE 0)
        /\ x.num = HighestBlockInFile(feed) + 1 /\ x.num <= MaxBlocks
    BY Zenon, <1>2, <1>3, <1>9, <1>13 DEF prev, FeedHeight
  <2>2. \A i \in Blocks(feed) : feed[i].num = x.num - 1 => Prefix(feed[i].root, x.root)
    BY Zenon, <1>5, <1>7, <1>9
  <2>3. Len(x.root) = x.num /\ x.root[x.num] = x.tx
    BY Zenon, <1>7, <1>9
  <2>4. PICK first \in BOOLEAN : first = ~open
    BY Zenon
  <2> HIDE DEF open
  <2>5. Len(feed') = Len(feed) + (IF first THEN 2 ELSE 1)
          /\ x.batch = HighestBatchInFile(feed) + (IF first THEN 1 ELSE 0)
          /\ (first => feed'[Len(feed) + 1] = BatchStart(x.batch))
    BY Zenon, <1>12, <2>1, <2>4
  <2> QED
    BY Zenon, <1>9, <1>12, <1>13, <2>1, <2>2, <2>3, <2>5, FeedBlock
<1>15. MayPublish(FeedHeight + 1, [batch |-> x.batch, tx |-> x.tx, root |-> x.root])
  BY Zenon, <1>2, <1>3, <1>6, <1>9
<1>16. \A i \in Blocks(feed) : feed'[i] = feed[i]
  BY Zenon, <1>12 DEF Blocks
<1> QED
  BY Zenon, <1>2, <1>3, <1>9, <1>12, <1>14, <1>15, <1>16

LEMMA PublishStep ==
    ASSUME WellOrdered, Quirks = {}, RpcInv, Publish
    PROVE  RpcInv'
<1>1. FeedOK(feed) /\ ControlOK /\ SearchOK /\ SearchExact /\ cuts \in Nat
  BY Zenon, ControlFacts DEF RpcInv
<1>2. UNCHANGED <<disk, db, oneTx, own, pc, unwindTo, reader, search, conn, cuts, faults>>
  BY DEF Publish
<1>3. PICK x :
        /\ FeedOK(feed') /\ Blocks(feed') = Blocks(feed) \cup {Len(feed')}
        /\ feed'[Len(feed')] = x /\ x.num = FeedHeight + 1 /\ x.num <= MaxBlocks
        /\ \A i \in Blocks(feed) : feed'[i] = feed[i]
        /\ MayPublish(FeedHeight + 1, [batch |-> x.batch, tx |-> x.tx, root |-> x.root])
  BY Zenon, <1>1, NextBlock
<1>4. /\ FeedHeight \in 0 .. MaxBlocks /\ MaxBlocks \in Nat
      /\ \A i \in Blocks(feed) : feed[i].num <= FeedHeight
  BY Zenon, <1>1, HeightFacts, NumberFacts DEF FeedHeight
<1>5. FeedHeight + 1 \in Nat /\ FeedHeight + 1 > 0
  BY <1>4
<1>6. Suits(x)
  BY Zenon, <1>3, <1>5, MaySuit
<1>7. ControlOK'
  BY Zenon, <1>1, <1>2 DEF ControlOK
<1>8. search.cuts <= cuts' /\ reader'.last = reader.last
  BY Zenon, <1>1, <1>2 DEF SearchOK
<1>9. SearchExact'
  <2>1. SUFFICES ASSUME pc = "search", search.cuts = cuts
                 PROVE  /\ \A n \in 1 .. search.latest : \E i \in Blocks(feed') : feed'[i].num = n
                        /\ \A i \in Blocks(feed') :
                             feed'[i].num \in (search.hi + 1) .. search.latest =>
                               feed'[i].root # db.blocks[feed'[i].num].root
    BY Zenon, <1>2 DEF SearchExact
  <2>2. /\ \A n \in 1 .. search.latest : \E i \in Blocks(feed) : feed[i].num = n
        /\ \A i \in Blocks(feed) : feed[i].num \in (search.hi + 1) .. search.latest =>
             feed[i].root # db.blocks[feed[i].num].root
    BY Zenon, <1>1, <2>1 DEF SearchExact
  <2>3. \A n \in 1 .. search.latest : \E i \in Blocks(feed') : feed'[i].num = n
    BY Zenon, <1>3, <2>2
  <2>4. x.num \notin (search.hi + 1) .. search.latest
    <3>1. SUFFICES ASSUME x.num \in (search.hi + 1) .. search.latest PROVE FALSE
      BY Zenon
    <3>2. x.num \in 1 .. search.latest
      BY <1>1, <1>3, <1>5, <3>1, ControlFacts
    <3>3. PICK i \in Blocks(feed) : feed[i].num = x.num
      BY Zenon, <2>2, <3>2
    <3>4. x.num <= FeedHeight
      BY Zenon, <1>4, <3>3
    <3> QED
      BY <1>3, <1>4, <3>4
  <2> QED
    BY Zenon, <1>3, <2>2, <2>3, <2>4
<1>10. \A i \in Blocks(feed') : Suits(feed'[i]) \/ \E j \in Blocks(feed) : feed'[i] = feed[j]
  BY Zenon, <1>3, <1>6
<1>11. FeedOK(feed') /\ UNCHANGED <<disk, db, oneTx, pc, unwindTo, search>>
  BY Zenon, <1>2, <1>3
<1> QED
  BY Zenon, <1>7, <1>8, <1>9, <1>10, <1>11, FeedStep

-----------------------------------------------------------------------------
(* The node's steps.                                                               *)

LEMMA Rests ==
    /\ NoReader \in [at : Nat, limit : Nat, last : Nat] /\ NoReader.last = 0
    /\ NoSearch \in [lo : Nat, hi : Nat, best : Nat \cup {Nil}, latest : Nat, cuts : Nat]
    /\ NoSearch.latest = 0 /\ NoSearch.cuts = 0 /\ NoSearch.best = NoSearch.lo - 1
    /\ NoSearch.best <= 0 /\ NoSearch.hi <= 0 /\ 1 .. NoSearch.best = {}
BY DEF NoReader, NoSearch, Nil

LEMMA SearchRests ==
    ASSUME FeedOK(feed), feed' = feed, cuts' \in Nat, DbType(db'), search' = NoSearch
    PROVE  SearchOK'
<1>1. ChainOK(db', 0)
  BY Zenon, ZeroOK
<1>2. 0 <= cuts'
  OBVIOUS
<1>3. \A m \in 1 .. NoSearch.best : FALSE
  BY Zenon, Rests
<1> QED
  BY Zenon, <1>1, <1>2, <1>3, Rests DEF SearchOK

\* The node neither reads nor searches afterwards.
LEMMA Calm ==
    ASSUME RpcInv, feed' = feed, cuts' = cuts, faults' \in 0 .. MaxFaults,
           conn' \in {"new", "up", "error", "nil"}, oneTx' \in BOOLEAN,
           reader' = NoReader, search' = NoSearch, pc' \notin {"read", "save", "search"},
           unwindTo' \in {Nil, 0} \cup Numbers, pc' \in Unwinding <=> unwindTo' # Nil,
           DbOK(feed, db'), DbOK(feed, disk'), TxOK', UnwindOK'
    PROVE  RpcInv'
<1>1. FeedOK(feed) /\ cuts \in 0 .. MaxCuts /\ cuts \in Nat
  BY Zenon, ControlFacts DEF RpcInv
<1>2. pc' # "read" /\ pc' # "save" /\ pc' # "search"
  OBVIOUS
<1>3. ControlOK'
  BY Zenon, <1>1, <1>2, Rests DEF ControlOK
<1>4. ChainOK(db', 0) /\ Agrees(feed, db', 0)
  BY Zenon, <1>1, ZeroOK DEF DbOK
<1>5. ReaderOK'
  BY Zenon, <1>4, Rests DEF ReaderOK
<1>6. SearchOK'
  BY Zenon, <1>1, SearchRests DEF DbOK
<1>7. SearchExact'
  BY Zenon, <1>2 DEF SearchExact
<1>8. FeedOK(feed') /\ DbOK(feed', db') /\ DbOK(feed', disk')
  BY Zenon, <1>1
<1> QED
  BY Zenon, <1>3, <1>5, <1>6, <1>7, <1>8 DEF RpcInv

\* The program points and what is at rest there.
LEMMA AtRest ==
    ASSUME ControlOK
    PROVE  /\ pc \notin {"read", "save"} => reader = NoReader
           /\ pc # "search" => search = NoSearch
           /\ pc \in Unwinding <=> unwindTo # Nil
           /\ unwindTo \in {Nil, 0} \cup Numbers
           /\ conn \in {"new", "up", "error", "nil"} /\ oneTx \in BOOLEAN
           /\ faults \in 0 .. MaxFaults
BY Zenon DEF ControlOK

LEMMA FaultCount ==
    ASSUME ControlOK, Fault
    PROVE  faults' \in 0 .. MaxFaults
BY RpcAssumption DEF ControlOK, Fault

LEMMA StartIterationStep ==
    ASSUME RpcInv, NEW d, DbOK(feed, d), StartIteration(d), feed' = feed, cuts' = cuts,
           faults' \in 0 .. MaxFaults, conn' \in {"new", "up", "error", "nil"},
           unwindTo' = Nil, reader' = NoReader, search' = NoSearch
    PROVE  RpcInv'
<1>1. disk' = d /\ db' = d /\ pc' = "batches" /\ oneTx' \in BOOLEAN
  BY DEF StartIteration
<1>2. pc' \notin {"read", "save", "search"} /\ pc' \notin Unwinding
  BY <1>1 DEF Unwinding
<1>3. TxOK'
  BY Zenon, <1>1 DEF TxOK
<1>4. UnwindOK'
  BY <1>1 DEF UnwindOK
<1> QED
  BY Zenon, <1>1, <1>2, <1>3, <1>4, Calm

LEMMA StageFailsStep ==
    ASSUME RpcInv, StageFails, feed' = feed, cuts' = cuts, pc \notin Unwinding,
           faults' \in 0 .. MaxFaults, conn' \in {"new", "up", "error", "nil"}
    PROVE  RpcInv'
<1>1. unwindTo = Nil /\ DbOK(feed, disk)
  BY Zenon, AtRest DEF RpcInv
<1>2. StartIteration(disk) /\ reader' = NoReader /\ search' = NoSearch /\ unwindTo' = unwindTo
  BY Zenon DEF StageFails
<1> QED
  BY Zenon, <1>1, <1>2, StartIterationStep

LEMMA StageEndsStep ==
    ASSUME RpcInv, NEW d, DbOK(feed, d), StageEnds(d), feed' = feed, cuts' = cuts,
           faults' = faults, conn' = conn, unwindTo' = unwindTo, reader' = NoReader,
           search' = NoSearch, pc' \notin {"read", "save", "search"},
           pc' \in Unwinding <=> pc \in Unwinding, UnwindOK'
    PROVE  RpcInv'
<1>1. ControlOK /\ DbOK(feed, disk)
  BY Zenon DEF RpcInv
<1>2. db' = d /\ (oneTx => disk' = disk) /\ (~oneTx => disk' = d) /\ oneTx' = oneTx
  BY Zenon DEF StageEnds
<1>3. DbOK(feed, db') /\ DbOK(feed, disk')
  BY Zenon, <1>1, <1>2
<1>4. TxOK'
  <2>1. CASE oneTx
    BY <1>2, <2>1 DEF TxOK
  <2>2. CASE ~oneTx
    BY Zenon, <1>2, <2>2 DEF TxOK
  <2> QED
    BY Zenon, <2>1, <2>2
<1>5. /\ unwindTo' \in {Nil, 0} \cup Numbers /\ (pc' \in Unwinding <=> unwindTo' # Nil)
      /\ faults' \in 0 .. MaxFaults /\ conn' \in {"new", "up", "error", "nil"} /\ oneTx' \in BOOLEAN
  BY Zenon, <1>1, <1>2, AtRest
<1> QED
  BY Zenon, <1>3, <1>4, <1>5, Calm

LEMMA HandleStartFailsStep ==
    ASSUME RpcInv, HandleStartFails
    PROVE  RpcInv'
<1>1. /\ pc = "batches" /\ StageFails /\ feed' = feed /\ cuts' = cuts
      /\ conn = "nil" \/ faults < MaxFaults
      /\ faults' = IF conn = "nil" THEN faults ELSE faults + 1
      /\ conn' = IF conn = "error" /\ UseTLS THEN "nil" ELSE conn
  BY Zenon DEF HandleStartFails, feedVars
<1>2. faults \in 0 .. MaxFaults /\ conn \in {"new", "up", "error", "nil"}
  BY Zenon, AtRest DEF RpcInv
<1>3. faults' \in 0 .. MaxFaults
  BY <1>1, <1>2, RpcAssumption
<1>4. conn' \in {"new", "up", "error", "nil"}
  BY Zenon, <1>1, <1>2
<1>5. pc \notin Unwinding
  BY <1>1 DEF Unwinding
<1> QED
  BY Zenon, <1>1, <1>3, <1>4, <1>5, StageFailsStep

LEMMA RollbackFailsStep ==
    ASSUME RpcInv, RollbackFails \/ QueryFails
    PROVE  RpcInv'
<1>1. ControlOK
  BY Zenon DEF RpcInv
<1>2. pc = "search" /\ StageFails /\ feed' = feed /\ cuts' = cuts /\ conn' = conn
        /\ (faults' = faults \/ Fault)
  BY Zenon DEF RollbackFails, QueryFails, feedVars
<1>3. pc \notin Unwinding
  BY <1>2 DEF Unwinding
<1>4. faults' \in 0 .. MaxFaults /\ conn' \in {"new", "up", "error", "nil"}
  BY Zenon, <1>1, <1>2, AtRest, FaultCount
<1> QED
  BY Zenon, <1>2, <1>3, <1>4, StageFailsStep

LEMMA FinishForwardStep ==
    ASSUME RpcInv, FinishForward
    PROVE  RpcInv'
<1>1. ControlOK /\ DbOK(feed, db)
  BY Zenon DEF RpcInv
<1>2. /\ pc = "finish" /\ StartIteration([db EXCEPT !.finish = db.exec]) /\ feed' = feed
      /\ cuts' = cuts /\ unwindTo' = unwindTo /\ reader' = reader /\ search' = search
      /\ conn' = conn /\ faults' = faults
  BY Zenon DEF FinishForward, feedVars, clientVars
<1>3. pc \notin {"read", "save"} /\ pc # "search" /\ pc \notin Unwinding
  BY <1>2 DEF Unwinding
<1>4. db.exec \in {0} \cup Numbers
  <2>1. /\ db.exec \in Nat /\ db.exec <= db.progress /\ db.progress <= Len(db.blocks)
        /\ Len(db.blocks) <= MaxBlocks /\ db.progress \in Nat /\ Len(db.blocks) \in Nat
    BY Zenon, <1>1, DbFields DEF DbOK
  <2> QED
    BY <2>1, NumberFacts
<1>5. PICK d : d = [db EXCEPT !.finish = db.exec]
  BY Zenon
<1>6. DbOK(feed, d)
  BY Zenon, <1>1, <1>4, <1>5, FinishTo
<1>7. StartIteration(d)
  BY Zenon, <1>2, <1>5
<1>8. /\ unwindTo' = Nil /\ reader' = NoReader /\ search' = NoSearch
      /\ faults' \in 0 .. MaxFaults /\ conn' \in {"new", "up", "error", "nil"}
  BY Zenon, <1>1, <1>2, <1>3, AtRest
<1> QED
  BY Zenon, <1>2, <1>6, <1>7, <1>8, StartIterationStep

LEMMA UnwindFinishStep ==
    ASSUME RpcInv, UnwindFinish
    PROVE  RpcInv'
<1>1. ControlOK /\ DbOK(feed, db)
  BY Zenon DEF RpcInv
<1>2. /\ pc = "unwindFinish" /\ feed' = feed
      /\ StartIteration(IF db.finish <= unwindTo THEN db ELSE [db EXCEPT !.finish = unwindTo])
      /\ cuts' = cuts /\ unwindTo' = Nil /\ reader' = reader /\ search' = search
      /\ conn' = conn /\ faults' = faults
  BY Zenon DEF UnwindFinish, feedVars, clientVars
<1>3. pc \notin {"read", "save"} /\ pc # "search" /\ pc \in Unwinding
  BY <1>2 DEF Unwinding
<1>4. unwindTo \in {0} \cup Numbers
  BY Zenon, <1>1, <1>3, AtRest
<1>5. PICK d : d = [db EXCEPT !.finish = unwindTo]
  BY Zenon
<1>6. DbOK(feed, d)
  BY Zenon, <1>1, <1>4, <1>5, FinishTo
<1>7. StartIteration(db) \/ StartIteration(d)
  BY Zenon, <1>2, <1>5
<1>8. /\ reader' = NoReader /\ search' = NoSearch
      /\ faults' \in 0 .. MaxFaults /\ conn' \in {"new", "up", "error", "nil"}
  BY Zenon, <1>1, <1>2, <1>3, AtRest
<1> QED
  BY Zenon, <1>1, <1>2, <1>6, <1>7, <1>8, StartIterationStep

LEMMA CrashStep ==
    ASSUME RpcInv, Crash
    PROVE  RpcInv'
<1>1. ControlOK /\ DbOK(feed, disk)
  BY Zenon DEF RpcInv
<1>2. /\ Fault /\ StartIteration(disk) /\ feed' = feed /\ cuts' = cuts /\ unwindTo' = Nil
      /\ reader' = NoReader /\ search' = NoSearch /\ conn' = "new"
  BY Zenon DEF Crash, feedVars
<1>3. faults' \in 0 .. MaxFaults /\ conn' \in {"new", "up", "error", "nil"}
  BY Zenon, <1>1, <1>2, FaultCount
<1> QED
  BY Zenon, <1>1, <1>2, <1>3, StartIterationStep

LEMMA HighestBlockFailsStep ==
    ASSUME RpcInv, HighestBlockFails \/ CatchupDatastream
    PROVE  RpcInv'
<1>1. ControlOK /\ DbOK(feed, db) /\ DbOK(feed, disk) /\ TxOK
  BY Zenon DEF RpcInv
<1>2. /\ pc \in {"batches", "stream"} /\ pc' \in {"execution", "finish"}
      /\ feed' = feed /\ cuts' = cuts /\ disk' = disk /\ db' = db /\ oneTx' = oneTx
      /\ unwindTo' = unwindTo /\ reader' = reader /\ search' = search
      /\ faults' = faults \/ Fault
      /\ conn' = "up" \/ conn' = conn
  BY Zenon DEF HighestBlockFails, CatchupDatastream, feedVars, clientVars
<1>3. /\ pc \notin {"read", "save"} /\ pc # "search" /\ pc \notin Unwinding
      /\ pc' \notin {"read", "save", "search"} /\ pc' \notin Unwinding
  BY <1>2 DEF Unwinding
<1>4. /\ unwindTo' = Nil /\ reader' = NoReader /\ search' = NoSearch /\ oneTx' \in BOOLEAN
      /\ faults' \in 0 .. MaxFaults /\ conn' \in {"new", "up", "error", "nil"}
  BY Zenon, <1>1, <1>2, <1>3, AtRest, FaultCount
<1>5. TxOK'
  BY <1>1, <1>2 DEF TxOK
<1>6. UnwindOK'
  BY <1>3 DEF UnwindOK, Unwinding
<1>7. DbOK(feed, db') /\ DbOK(feed, disk')
  BY Zenon, <1>1, <1>2
<1> QED
  BY Zenon, <1>2, <1>3, <1>4, <1>5, <1>6, <1>7, Calm

LEMMA SaveStageProgressStep ==
    ASSUME RpcInv, SaveStageProgress
    PROVE  RpcInv'
<1>1. ControlOK /\ DbOK(feed, db) /\ DbOK(feed, disk) /\ ReaderOK
  BY Zenon DEF RpcInv
<1>2. /\ pc = "save" /\ pc' = "execution" /\ feed' = feed /\ cuts' = cuts
      /\ unwindTo' = unwindTo /\ reader' = NoReader /\ search' = search
      /\ conn' = conn /\ faults' = faults
  BY Zenon DEF SaveStageProgress, feedVars
<1>3. /\ pc # "search" /\ pc \notin Unwinding
      /\ pc' \notin {"read", "save", "search"} /\ pc' \notin Unwinding
  BY <1>2 DEF Unwinding
<1>4. PICK e : e = [db EXCEPT !.progress = reader.last]
  BY Zenon
<1>5. reader.last \in Nat /\ reader.last >= db.progress
  BY <1>1, <1>2, ControlFacts DEF ReaderOK
<1>6. DbOK(feed, e)
  BY Zenon, <1>1, <1>4, <1>5, ProgressTo DEF ReaderOK
<1>7. StageEnds(db) \/ StageEnds(disk) \/ StageEnds(e)
  BY Zenon, <1>4 DEF SaveStageProgress
<1>8. UnwindOK'
  BY <1>3 DEF UnwindOK, Unwinding
<1>9. search' = NoSearch
  BY Zenon, <1>1, <1>2, <1>3, AtRest
<1> QED
  BY Zenon, <1>1, <1>2, <1>3, <1>6, <1>7, <1>8, <1>9, StageEndsStep

LEMMA SpawnExecuteBlocksStep ==
    ASSUME RpcInv, SpawnExecuteBlocks
    PROVE  RpcInv'
<1> DEFINE most == db.exec + LoopBlockLimit
           to == IF LoopBlockLimit > 0 /\ db.progress > most THEN most ELSE db.progress
<1>1. ControlOK /\ DbOK(feed, db)
  BY Zenon DEF RpcInv
<1>2. /\ pc = "execution" /\ pc' = "stream" /\ feed' = feed /\ cuts' = cuts
      /\ unwindTo' = unwindTo /\ reader' = reader /\ search' = search
      /\ conn' = conn /\ faults' = faults
      /\ StageEnds(IF to > db.exec THEN [db EXCEPT !.exec = to, !.headers = to] ELSE db)
  BY Zenon DEF SpawnExecuteBlocks, feedVars, clientVars
<1>3. to \in 0 .. db.progress
  BY <1>1, DbFields, RpcAssumption DEF DbOK
<1> HIDE DEF to
<1>4. /\ pc \notin {"read", "save"} /\ pc # "search" /\ pc \notin Unwinding
      /\ pc' \notin {"read", "save", "search"} /\ pc' \notin Unwinding
  BY <1>2 DEF Unwinding
<1>5. PICK e : e = [db EXCEPT !.exec = to, !.headers = to]
  BY Zenon
<1>6. DbOK(feed, e)
  BY Zenon, <1>1, <1>3, <1>5, ExecTo
<1>7. StageEnds(db) \/ StageEnds(e)
  BY Zenon, <1>2, <1>5
<1>8. UnwindOK'
  BY <1>4 DEF UnwindOK, Unwinding
<1>9. reader' = NoReader /\ search' = NoSearch
  BY Zenon, <1>1, <1>2, <1>4, AtRest
<1> QED
  BY Zenon, <1>1, <1>2, <1>4, <1>6, <1>7, <1>8, <1>9, StageEndsStep

LEMMA UnwindExecutionStep ==
    ASSUME RpcInv, UnwindExecutionStage
    PROVE  RpcInv'
<1>1. ControlOK /\ DbOK(feed, db) /\ UnwindOK
  BY Zenon DEF RpcInv
<1>2. /\ pc = "unwindExec" /\ pc' = "unwindBatches" /\ feed' = feed /\ cuts' = cuts
      /\ unwindTo' = unwindTo /\ reader' = reader /\ search' = search
      /\ conn' = conn /\ faults' = faults
      /\ StageEnds(IF db.exec <= unwindTo THEN db
                   ELSE [db EXCEPT !.exec = unwindTo, !.headers = unwindTo])
  BY Zenon DEF UnwindExecutionStage, feedVars, clientVars
<1>3. /\ pc \notin {"read", "save"} /\ pc # "search" /\ pc \in Unwinding
      /\ pc' \notin {"read", "save", "search"} /\ pc' \in Unwinding
  BY <1>2 DEF Unwinding
<1>4. reader' = NoReader /\ search' = NoSearch /\ unwindTo \in {0} \cup Numbers
  BY Zenon, <1>1, <1>2, <1>3, AtRest
<1>5. unwindTo \in Nat /\ db.exec \in Nat /\ db.exec <= db.progress /\ db.progress \in Nat
  BY <1>1, <1>4, NumberFacts, DbFields DEF DbOK
<1>6. unwindTo < db.progress => Agrees(feed, db, unwindTo)
  BY Zenon, <1>1, <1>2 DEF UnwindOK
<1>7. CASE db.exec <= unwindTo
  <2>1. StageEnds(db) /\ db' = db
    BY Zenon, <1>2, <1>7 DEF StageEnds
  <2>2. UnwindOK'
    BY Zenon, <1>2, <1>6, <1>7, <2>1 DEF UnwindOK
  <2> QED
    BY Zenon, <1>1, <1>2, <1>3, <1>4, <2>1, <2>2, StageEndsStep
<1>8. CASE ~ (db.exec <= unwindTo)
  <2>1. PICK e : e = [db EXCEPT !.exec = unwindTo, !.headers = unwindTo]
    BY Zenon
  <2>2. StageEnds(e) /\ db' = e
    BY Zenon, <1>2, <1>8, <2>1 DEF StageEnds
  <2>3. unwindTo \in 0 .. db.progress
    BY <1>5, <1>8
  <2>4. /\ DbOK(feed, e) /\ e.blocks = db.blocks /\ e.rows = db.rows /\ e.progress = db.progress
        /\ e.exec = unwindTo
    <3>1. PICK to \in 0 .. db.progress : to = unwindTo
      BY Zenon, <2>3
    <3>2. e = [db EXCEPT !.exec = to, !.headers = to]
      BY Zenon, <2>1, <3>1
    <3>3. DbOK(feed, e)
      BY Zenon, <1>1, <3>2, ExecTo
    <3>4. /\ e.blocks = db.blocks /\ e.rows = db.rows /\ e.progress = db.progress
          /\ e.exec = unwindTo
      BY <1>1, <2>1 DEF DbOK, DbType
    <3> QED
      BY Zenon, <3>3, <3>4
  <2>5. unwindTo < e.progress => Agrees(feed, e, unwindTo)
    BY Zenon, <1>6, <2>4, SameChain
  <2>6. e.exec <= unwindTo
    BY <1>5, <2>4
  <2>7. UnwindOK'
    BY Zenon, <1>2, <2>2, <2>5, <2>6 DEF UnwindOK
  <2> QED
    BY Zenon, <1>1, <1>2, <1>3, <1>4, <2>2, <2>4, <2>7, StageEndsStep
<1> QED
  BY Zenon, <1>7, <1>8

LEMMA UnwindBatchesStep ==
    ASSUME RpcInv, UnwindBatchesStage
    PROVE  RpcInv'
<1>1. ControlOK /\ DbOK(feed, db) /\ UnwindOK /\ FeedOK(feed)
  BY Zenon DEF RpcInv
<1>2. /\ pc = "unwindBatches" /\ pc' = "unwindFinish" /\ feed' = feed /\ cuts' = cuts
      /\ unwindTo' = unwindTo /\ reader' = reader /\ search' = search
      /\ conn' = conn /\ faults' = faults
      /\ StageEnds(IF db.progress <= unwindTo THEN db ELSE UnwoundBatches(db, unwindTo))
  BY Zenon DEF UnwindBatchesStage, feedVars, clientVars
<1>3. /\ pc \notin {"read", "save"} /\ pc # "search" /\ pc \in Unwinding
      /\ pc' \notin {"read", "save", "search"} /\ pc' \in Unwinding
  BY <1>2 DEF Unwinding
<1>4. reader' = NoReader /\ search' = NoSearch /\ unwindTo \in {0} \cup Numbers
  BY Zenon, <1>1, <1>2, <1>3, AtRest
<1>5. unwindTo \in Nat /\ db.progress \in Nat
  BY <1>1, <1>4, NumberFacts, DbFields DEF DbOK
<1>6. UnwindOK'
  BY <1>2 DEF UnwindOK
<1>7. CASE db.progress <= unwindTo
  <2>1. StageEnds(db)
    BY Zenon, <1>2, <1>7
  <2> QED
    BY Zenon, <1>1, <1>2, <1>3, <1>4, <1>6, <2>1, StageEndsStep
<1>8. CASE ~ (db.progress <= unwindTo)
  <2>1. PICK e : e = UnwoundBatches(db, unwindTo)
    BY Zenon
  <2>2. StageEnds(e)
    BY Zenon, <1>2, <1>8, <2>1
  <2>3. unwindTo < db.progress
    BY <1>5, <1>8
  <2>4. db.exec <= unwindTo /\ Agrees(feed, db, unwindTo)
    BY Zenon, <1>1, <1>2, <2>3 DEF UnwindOK
  <2>5. DbOK(feed, e)
    BY Zenon, <1>1, <1>5, <2>1, <2>3, <2>4, UnwoundOK
  <2> QED
    BY Zenon, <1>1, <1>2, <1>3, <1>4, <1>6, <2>2, <2>5, StageEndsStep
<1> QED
  BY Zenon, <1>7, <1>8

\* A search starts.
LEMMA SearchStarts ==
    ASSUME RpcInv, pc \notin Unwinding, feed' = feed, cuts' = cuts, faults' = faults, db' = db,
           disk' = disk, oneTx' = oneTx, unwindTo' = unwindTo,
           conn' \in {"new", "up", "error", "nil"}, pc' = "search", reader' = NoReader,
           NEW n \in Nat, search' = SearchFrom(n), ChainOK(db, n),
           \A k \in 1 .. n : \E i \in Blocks(feed) : feed[i].num = k
    PROVE  RpcInv'
<1>1. ControlOK /\ DbOK(feed, db) /\ DbOK(feed, disk) /\ TxOK /\ FeedOK(feed) /\ cuts \in Nat
  BY Zenon, ControlFacts DEF RpcInv
<1>2. /\ search' \in [lo : Nat, hi : Nat, best : Nat \cup {Nil}, latest : Nat, cuts : Nat]
      /\ search'.lo = 0 /\ search'.hi = n /\ search'.latest = n /\ search'.best = Nil
      /\ search'.cuts = cuts
  BY <1>1 DEF SearchFrom
<1>3. /\ pc' \notin Unwinding /\ pc' \notin {"read", "save"} /\ pc' # "read" /\ pc' # "save"
      /\ pc' # "unwindExec" /\ pc' # "unwindBatches"
  BY DEF Unwinding
<1>4. ControlOK'
  <2>1. pc' \in Unwinding <=> unwindTo' # Nil
    BY Zenon, <1>1, <1>3, AtRest
  <2> QED
    BY Zenon, <1>1, <1>2, <1>3, <2>1, Rests DEF ControlOK
<1>5. TxOK'
  BY <1>1 DEF TxOK
<1>6. ReaderOK'
  <2>1. ChainOK(db, 0) /\ Agrees(feed, db, 0)
    BY Zenon, <1>1, ZeroOK DEF DbOK
  <2> QED
    BY Zenon, <1>3, <2>1, Rests DEF ReaderOK
<1>7. SearchOK'
  <2>1. /\ cuts <= cuts /\ Nil = 0 - 1 /\ Nil <= n /\ n <= n /\ \A m \in 1 .. Nil : FALSE
    BY <1>1 DEF Nil
  <2> QED
    BY Zenon, <1>2, <2>1 DEF SearchOK
<1>8. SearchExact'
  <2>1. \A q : q \notin (n + 1) .. n
    OBVIOUS
  <2> QED
    BY Zenon, <1>2, <2>1 DEF SearchExact
<1>9. UnwindOK'
  BY Zenon, <1>3 DEF UnwindOK
<1>10. FeedOK(feed') /\ DbOK(feed', db') /\ DbOK(feed', disk')
  BY Zenon, <1>1
<1> QED
  BY Zenon, <1>4, <1>5, <1>6, <1>7, <1>8, <1>9, <1>10 DEF RpcInv

LEMMA SpawnStageBatchesStep ==
    ASSUME WellOrdered, RpcInv, SpawnStageBatches
    PROVE  RpcInv'
<1>1. ControlOK /\ DbOK(feed, db) /\ DbOK(feed, disk) /\ TxOK /\ FeedOK(feed)
  BY Zenon DEF RpcInv
<1>2. /\ pc = "batches" /\ feed' = feed /\ cuts' = cuts /\ disk' = disk /\ db' = db
      /\ oneTx' = oneTx /\ unwindTo' = unwindTo /\ reader' = reader /\ faults' = faults
      /\ conn' = "up"
      /\ search' = IF FeedHeight < db.progress THEN SearchFrom(FeedHeight) ELSE NoSearch
  BY Zenon DEF SpawnStageBatches, feedVars
<1>3. IF FeedHeight < db.progress THEN pc' = "search" ELSE pc' \in {"start", "execution"}
  <2>1. FeedHeight \in 0 .. MaxBlocks /\ db.progress \in Nat
    BY Zenon, <1>1, HeightFacts, DbFields DEF FeedHeight, DbOK
  <2> QED
    BY <2>1 DEF SpawnStageBatches
<1>4. pc \notin {"read", "save"} /\ pc # "search" /\ pc \notin Unwinding
  BY <1>2 DEF Unwinding
<1>5. /\ reader' = NoReader /\ unwindTo = Nil /\ oneTx \in BOOLEAN /\ faults \in 0 .. MaxFaults
      /\ conn' \in {"new", "up", "error", "nil"}
  BY Zenon, <1>1, <1>2, <1>4, AtRest
<1>6. CASE FeedHeight < db.progress
  <2>1. FeedHeight \in 0 .. MaxBlocks /\ db.progress \in Nat
          /\ \A k \in 1 .. FeedHeight : \E i \in Blocks(feed) : feed[i].num = k
    BY Zenon, <1>1, HeightFacts, DbFields DEF FeedHeight, DbOK
  <2>2. FeedHeight \in Nat /\ FeedHeight \in 0 .. db.progress
    BY <1>6, <2>1
  <2>3. ChainOK(db, FeedHeight)
    BY Zenon, <1>1, <2>1, <2>2, ChainBelow DEF DbOK
  <2>4. pc' = "search" /\ search' = SearchFrom(FeedHeight)
    BY Zenon, <1>2, <1>3, <1>6
  <2> QED
    BY Zenon, <1>2, <1>4, <1>5, <2>1, <2>2, <2>3, <2>4, SearchStarts
<1>7. CASE ~ (FeedHeight < db.progress)
  <2>1. pc' \in {"start", "execution"} /\ search' = NoSearch
    BY Zenon, <1>2, <1>3, <1>7
  <2>2. pc' \notin {"read", "save", "search"} /\ pc' \notin Unwinding
    BY <2>1 DEF Unwinding
  <2>3. TxOK'
    BY <1>1, <1>2 DEF TxOK
  <2>4. UnwindOK'
    BY <2>1 DEF UnwindOK
  <2>5. DbOK(feed, db') /\ DbOK(feed, disk') /\ oneTx' \in BOOLEAN /\ faults' \in 0 .. MaxFaults
          /\ unwindTo' = Nil
    BY Zenon, <1>1, <1>2, <1>5
  <2> QED
    BY Zenon, <1>2, <1>5, <2>1, <2>2, <2>3, <2>4, <2>5, Calm
<1> QED
  BY Zenon, <1>6, <1>7

\* The node reads on, or has read to the end.
LEMMA ReaderStep ==
    ASSUME RpcInv, pc \notin Unwinding, pc # "search", pc' \in {"read", "save"}, feed' = feed,
           cuts' = cuts, faults' \in 0 .. MaxFaults, conn' \in {"new", "up", "error", "nil"},
           disk' = disk, oneTx' = oneTx, unwindTo' = unwindTo, search' = search,
           reader' \in [at : Nat, limit : Nat, last : Nat], pc' = "read" => reader'.at > 0,
           DbOK(feed, db'), TxOK', ChainOK(db', reader'.last), Agrees(feed, db', reader'.last),
           reader'.last >= db'.progress
    PROVE  RpcInv'
<1>1. ControlOK /\ DbOK(feed, disk) /\ FeedOK(feed) /\ cuts \in Nat
  BY Zenon, ControlFacts DEF RpcInv
<1>2. /\ pc' \notin Unwinding /\ pc' # "search" /\ pc' # "unwindExec" /\ pc' # "unwindBatches"
  BY DEF Unwinding
<1>3. search' = NoSearch /\ unwindTo' = Nil
  BY Zenon, <1>1, AtRest
<1>4. ControlOK'
  BY Zenon, <1>1, <1>2, <1>3, Rests DEF ControlOK
<1>5. ReaderOK'
  BY Zenon DEF ReaderOK
<1>6. SearchOK'
  BY Zenon, <1>1, <1>3, SearchRests DEF DbOK
<1>7. SearchExact'
  BY Zenon, <1>2 DEF SearchExact
<1>8. UnwindOK'
  BY Zenon, <1>2 DEF UnwindOK
<1>9. FeedOK(feed') /\ DbOK(feed', db') /\ DbOK(feed', disk')
  BY Zenon, <1>1
<1> QED
  BY Zenon, <1>4, <1>5, <1>6, <1>7, <1>8, <1>9 DEF RpcInv

LEMMA StartReadStep ==
    ASSUME RpcInv, StartRead
    PROVE  RpcInv'
<1> DEFINE n == db.progress + 1
           found == db.progress = 0 \/ HasBookmark(feed, "block", n)
           at == IF db.progress = 0 THEN 1 ELSE BookmarkOf(feed, "block", n)
<1>1. ControlOK /\ DbOK(feed, db) /\ TxOK /\ FeedOK(feed)
  BY Zenon DEF RpcInv
<1>2. /\ pc = "start" /\ feed' = feed /\ cuts' = cuts /\ disk' = disk /\ db' = db
      /\ oneTx' = oneTx /\ unwindTo' = unwindTo /\ search' = search /\ faults' = faults
      /\ reader' = [at |-> IF found THEN at ELSE Len(feed) + 1, limit |-> Len(feed),
                    last |-> db.progress]
      /\ pc' = IF found /\ at <= Len(feed) THEN "read" ELSE "save"
      /\ conn' = IF found THEN conn ELSE "error"
  BY Zenon DEF StartRead, feedVars
<1>3. pc \notin Unwinding /\ pc # "search"
  BY <1>2 DEF Unwinding
<1>4. db.progress \in Nat /\ Len(feed) \in Nat
  BY Zenon, <1>1, DbFields, FeedTypes DEF DbOK
<1>5. found => at \in Nat /\ at > 0
  <2>1. HasBookmark(feed, "block", n) => BookmarkOf(feed, "block", n) \in 1 .. Len(feed)
    <3> HIDE DEF n
    <3> QED
      BY Zenon DEF HasBookmark, BookmarkOf
  <2> QED
    BY <1>4, <2>1
<1> HIDE DEF found, at
<1>6. reader' \in [at : Nat, limit : Nat, last : Nat] /\ reader'.last = db.progress
  BY <1>2, <1>4, <1>5
<1>7. pc' = "read" => reader'.at > 0
  BY <1>2, <1>5
<1>8. pc' \in {"read", "save"}
  BY Zenon, <1>2
<1>9. faults' \in 0 .. MaxFaults /\ conn' \in {"new", "up", "error", "nil"}
  BY Zenon, <1>1, <1>2, AtRest
<1>10. TxOK'
  BY <1>1, <1>2 DEF TxOK
<1>11. /\ DbOK(feed, db') /\ ChainOK(db', reader'.last) /\ Agrees(feed, db', reader'.last)
  BY Zenon, <1>1, <1>2, <1>6 DEF DbOK
<1>12. reader'.last >= db'.progress
  BY <1>2, <1>4, <1>6
<1> QED
  BY Zenon, <1>2, <1>3, <1>6, <1>7, <1>8, <1>9, <1>10, <1>11, <1>12, ReaderStep

LEMMA ProcessBatchEntryStep ==
    ASSUME RpcInv, ProcessBatchEntry
    PROVE  RpcInv'
<1>1. ControlOK /\ DbOK(feed, db) /\ TxOK /\ FeedOK(feed) /\ ReaderOK
  BY Zenon DEF RpcInv
<1>2. /\ pc = "read" /\ feed' = feed /\ cuts' = cuts /\ disk' = disk
      /\ oneTx' = oneTx /\ unwindTo' = unwindTo /\ search' = search /\ faults' = faults
      /\ conn' = conn
      /\ db' = [db EXCEPT !.ends = IF NextEntry.type = "end" THEN @ \cup {reader.last} ELSE @]
      /\ reader' = [reader EXCEPT !.at = @ + 1]
      /\ pc' = AfterEntry
  BY Zenon DEF ProcessBatchEntry, feedVars
<1>3. pc \notin Unwinding /\ pc # "search"
  BY <1>2 DEF Unwinding
<1>4. /\ reader' \in [at : Nat, limit : Nat, last : Nat] /\ reader'.last = reader.last
      /\ reader'.at > 0
  <2>1. reader \in [at : Nat, limit : Nat, last : Nat]
    BY Zenon, <1>1, ControlFacts
  <2> QED
    BY <1>2, <2>1
<1>5. reader.last \in {0} \cup Numbers
  <2>1. reader.last \in 0 .. Len(db.blocks) /\ Len(db.blocks) <= MaxBlocks /\ Len(db.blocks) \in Nat
    BY Zenon, <1>1, DbFields DEF ReaderOK, ChainOK, DbOK
  <2> QED
    BY <2>1, NumberFacts
<1>6. PICK x \in SUBSET ({0} \cup Numbers) : db' = [db EXCEPT !.ends = x]
  <2>1. db.ends \in SUBSET ({0} \cup Numbers)
    BY Zenon, <1>1, DbFields DEF DbOK
  <2>2. db.ends \cup {reader.last} \in SUBSET ({0} \cup Numbers)
    BY Zenon, <1>5, <2>1
  <2>3. \/ db' = [db EXCEPT !.ends = db.ends \cup {reader.last}]
        \/ db' = [db EXCEPT !.ends = db.ends]
    BY <1>2
  <2> QED
    BY Zenon, <2>1, <2>2, <2>3
<1>7. DbOK(feed, db')
  BY Zenon, <1>1, <1>6, EndsTo
<1>8. db'.blocks = db.blocks /\ db'.rows = db.rows /\ db'.progress = db.progress
  BY <1>1, <1>6 DEF DbOK, DbType
<1>9. TxOK'
  BY <1>1, <1>2, <1>8 DEF TxOK
<1>10. ChainOK(db', reader'.last) /\ Agrees(feed, db', reader'.last)
  BY Zenon, <1>1, <1>4, <1>8, SameChain DEF ReaderOK
<1>11. reader'.last >= db'.progress
  BY Zenon, <1>1, <1>2, <1>4, <1>8 DEF ReaderOK
<1>12. pc' \in {"read", "save"}
  BY Zenon, <1>2 DEF AfterEntry
<1>13. faults' \in 0 .. MaxFaults /\ conn' \in {"new", "up", "error", "nil"}
  BY Zenon, <1>1, <1>2, AtRest
<1> QED
  BY Zenon, <1>2, <1>3, <1>4, <1>7, <1>9, <1>10, <1>11, <1>12, <1>13, ReaderStep

LEMMA ProcessFullBlockStep ==
    ASSUME RpcInv, ProcessFullBlock
    PROVE  RpcInv'
<1>1. ControlOK /\ DbOK(feed, db) /\ TxOK /\ FeedOK(feed) /\ ReaderOK
  BY Zenon DEF RpcInv
<1>2. /\ pc = "read" /\ feed' = feed /\ cuts' = cuts /\ disk' = disk
      /\ oneTx' = oneTx /\ unwindTo' = unwindTo /\ search' = search /\ faults' = faults
      /\ conn' = conn /\ pc' = AfterEntry
      /\ reader.at <= Len(feed) /\ NextEntry.type = "block"
      /\ NextEntry.num = reader.last + 1 \/ AlreadyProcessed(NextEntry)
      /\ IF NextEntry.num <= db.progress
         THEN db' = db /\ reader' = [reader EXCEPT !.at = @ + 1]
         ELSE /\ db' = WriteL2Block(db, NextEntry)
              /\ reader' = [reader EXCEPT !.at = @ + 1, !.last = NextEntry.num]
  BY Zenon DEF ProcessFullBlock, feedVars
<1>3. pc \notin Unwinding /\ pc # "search"
  BY <1>2 DEF Unwinding
<1>4. reader \in [at : Nat, limit : Nat, last : Nat] /\ reader.last \in Nat /\ reader.at \in Nat
        /\ reader.at > 0 /\ Len(feed) \in Nat /\ db.progress \in Nat /\ reader.last >= db.progress
  BY Zenon, <1>1, <1>2, ControlFacts, FeedTypes, DbFields DEF ControlOK, DbOK, ReaderOK
<1>5. PICK i \in Blocks(feed) : i = reader.at /\ NextEntry = feed[i]
  <2>1. reader.at \in 1 .. Len(feed)
    BY <1>2, <1>4
  <2> QED
    BY Zenon, <1>2, <2>1 DEF Blocks, NextEntry
<1>6. feed[i].num \in Nat
  BY Zenon, <1>5, FeedTypes, <1>1
<1>7. pc' \in {"read", "save"}
  BY Zenon, <1>2 DEF AfterEntry
<1>8. faults' \in 0 .. MaxFaults /\ conn' \in {"new", "up", "error", "nil"}
  BY Zenon, <1>1, <1>2, AtRest
<1>9. CASE feed[i].num <= db.progress
  <2>1. db' = db /\ reader' = [reader EXCEPT !.at = @ + 1]
    BY Zenon, <1>2, <1>5, <1>9
  <2>2. /\ reader' \in [at : Nat, limit : Nat, last : Nat] /\ reader'.last = reader.last
        /\ reader'.at > 0
    BY <1>4, <2>1
  <2>3. TxOK'
    BY <1>1, <1>2, <2>1 DEF TxOK
  <2>4. /\ DbOK(feed, db') /\ ChainOK(db', reader'.last) /\ Agrees(feed, db', reader'.last)
        /\ reader'.last >= db'.progress
    BY Zenon, <1>1, <1>4, <2>1, <2>2 DEF ReaderOK
  <2> QED
    BY Zenon, <1>2, <1>3, <1>7, <1>8, <2>2, <2>3, <2>4, ReaderStep
<1>10. CASE ~ (feed[i].num <= db.progress)
  <2>1. /\ db' = WriteL2Block(db, feed[i])
        /\ reader' = [reader EXCEPT !.at = @ + 1, !.last = feed[i].num]
    BY Zenon, <1>2, <1>5, <1>10
  <2>2. feed[i].num = reader.last + 1
    <3>1. ~ AlreadyProcessed(NextEntry)
      BY <1>4, <1>5, <1>6, <1>10 DEF AlreadyProcessed
    <3> QED
      BY Zenon, <1>2, <1>5, <3>1
  <2>3. /\ reader' \in [at : Nat, limit : Nat, last : Nat] /\ reader'.last = reader.last + 1
        /\ reader'.at > 0
    <3>1. PICK q \in Nat : q = feed[i].num
      BY Zenon, <1>6
    <3>2. reader' = [reader EXCEPT !.at = @ + 1, !.last = q]
      BY Zenon, <2>1, <3>1
    <3>3. reader' \in [at : Nat, limit : Nat, last : Nat] /\ reader'.last = q
            /\ reader'.at = reader.at + 1
      <4>1. PICK t : t = [reader EXCEPT !.at = @ + 1]
        BY Zenon
      <4>2. t \in [at : Nat, limit : Nat, last : Nat] /\ t.at = reader.at + 1
        BY <1>4, <4>1
      <4>3. reader' = [t EXCEPT !.last = q]
        BY Zenon, <3>2, <4>1
      <4> QED
        BY <4>2, <4>3
    <3>4. reader.at + 1 > 0
      BY <1>4
    <3> QED
      BY Zenon, <2>2, <3>1, <3>3, <3>4
  <2>4. /\ DbOK(feed, db') /\ ChainOK(db', reader.last + 1) /\ Agrees(feed, db', reader.last + 1)
        /\ db'.progress = db.progress
        /\ \A n \in 1 .. reader.last : db'.blocks[n] = db.blocks[n]
    <3>1. PICK h \in Nat : h = reader.last
      BY Zenon, <1>4
    <3>2. ChainOK(db, h) /\ Agrees(feed, db, h) /\ h >= db.progress /\ feed[i].num = h + 1
      BY Zenon, <1>1, <1>4, <2>2, <3>1 DEF ReaderOK
    <3>3. PICK e : e = WriteL2Block(db, feed[i])
      BY Zenon
    <3>4. Extended(feed, db, h, e)
      BY Zenon, <1>1, <3>2, <3>3, WriteOK
    <3> QED
      BY Zenon, <2>1, <3>1, <3>3, <3>4 DEF Extended
  <2>5. TxOK'
    <3>1. \A n \in 1 .. db.progress : n \in 1 .. reader.last
      BY <1>4
    <3> QED
      BY <1>1, <1>2, <2>4, <3>1 DEF TxOK
  <2>6. reader'.last >= db'.progress
    BY <1>4, <2>3, <2>4
  <2>7. ChainOK(db', reader'.last) /\ Agrees(feed, db', reader'.last)
    BY Zenon, <2>3, <2>4
  <2> QED
    BY Zenon, <1>2, <1>3, <1>7, <1>8, <2>3, <2>4, <2>5, <2>6, <2>7, ReaderStep
<1> QED
  BY Zenon, <1>9, <1>10

LEMMA ProcessRepeatedBlockStep ==
    ASSUME RpcInv, ProcessRepeatedBlock
    PROVE  RpcInv'
<1>1. ControlOK /\ DbOK(feed, db) /\ FeedOK(feed) /\ ReaderOK
  BY Zenon DEF RpcInv
<1>2. /\ pc = "read" /\ pc' = "search" /\ feed' = feed /\ cuts' = cuts /\ disk' = disk /\ db' = db
      /\ oneTx' = oneTx /\ unwindTo' = unwindTo /\ faults' = faults /\ conn' = conn
      /\ reader' = NoReader /\ search' = SearchFrom(NextEntry.num)
      /\ reader.at <= Len(feed) /\ NextEntry.type = "block" /\ NextEntry.num <= reader.last
  BY Zenon DEF ProcessRepeatedBlock, feedVars
<1>3. pc \notin Unwinding
  BY <1>2 DEF Unwinding
<1>4. reader.last \in Nat /\ reader.at \in Nat /\ reader.at > 0 /\ Len(feed) \in Nat
  BY Zenon, <1>1, <1>2, ControlFacts, FeedTypes DEF ControlOK
<1>5. PICK i \in Blocks(feed) : NextEntry = feed[i]
  <2>1. reader.at \in 1 .. Len(feed)
    BY <1>2, <1>4
  <2> QED
    BY Zenon, <1>2, <2>1 DEF Blocks, NextEntry
<1>6. PICK n : n = feed[i].num
  BY Zenon
<1>7. n \in Nat /\ n \in 0 .. reader.last
  <2>1. n \in Nat /\ n <= reader.last
    BY Zenon, <1>1, <1>2, <1>5, <1>6, FeedTypes
  <2> QED
    BY <1>4, <2>1
<1>8. ChainOK(db, n)
  BY Zenon, <1>1, <1>4, <1>7, ChainBelow DEF ReaderOK, DbOK
<1>9. \A k \in 1 .. n : \E j \in Blocks(feed) : feed[j].num = k
  <2>1. \A k \in 1 .. (n - 1) : \E j \in Blocks(feed) : feed[j].num = k
    BY Zenon, <1>1, <1>6 DEF FeedOK, BlockOK
  <2>2. \A k \in 1 .. n : k = n \/ k \in 1 .. (n - 1)
    BY <1>7
  <2> QED
    BY Zenon, <1>6, <2>1, <2>2
<1>10. conn' \in {"new", "up", "error", "nil"} /\ search' = SearchFrom(n)
  BY Zenon, <1>1, <1>2, <1>5, <1>6, AtRest
<1> QED
  BY Zenon, <1>2, <1>3, <1>7, <1>8, <1>9, <1>10, SearchStarts

LEMMA ReadStopsStep ==
    ASSUME RpcInv, ReadTimesOut \/ ReadFails \/ LastEntryDropped
    PROVE  RpcInv'
<1>1. ControlOK /\ DbOK(feed, db) /\ TxOK /\ ReaderOK
  BY Zenon DEF RpcInv
<1>2. /\ pc = "read" /\ pc' = "save" /\ feed' = feed /\ cuts' = cuts /\ disk' = disk /\ db' = db
      /\ oneTx' = oneTx /\ unwindTo' = unwindTo /\ reader' = reader /\ search' = search
      /\ faults' = faults \/ Fault
      /\ conn' = conn \/ conn' = "error"
  BY Zenon DEF ReadTimesOut, ReadFails, LastEntryDropped, feedVars, clientVars
<1>3. pc \notin Unwinding /\ pc # "search" /\ pc' # "read"
  BY <1>2 DEF Unwinding
<1>4. faults' \in 0 .. MaxFaults /\ conn' \in {"new", "up", "error", "nil"}
        /\ reader' \in [at : Nat, limit : Nat, last : Nat]
  BY Zenon, <1>1, <1>2, AtRest, FaultCount, ControlFacts
<1>5. TxOK'
  BY <1>1, <1>2 DEF TxOK
<1>6. /\ DbOK(feed, db') /\ ChainOK(db', reader'.last) /\ Agrees(feed, db', reader'.last)
      /\ reader'.last >= db'.progress
  BY Zenon, <1>1, <1>2 DEF ReaderOK
<1> QED
  BY Zenon, <1>2, <1>3, <1>4, <1>5, <1>6, ReaderStep

-----------------------------------------------------------------------------
(* The search for the common ancestor.                                             *)

\* Equal blocks have equal ancestors.
LEMMA SameBelow ==
    ASSUME NEW f, FeedOK(f), NEW d, DbType(d), NEW h \in Nat, ChainOK(d, h),
           NEW k \in Blocks(f), f[k].num <= h, f[k].root = d.blocks[f[k].num].root,
           NEW i \in Blocks(f), f[i].num <= f[k].num
    PROVE  f[i].root = d.blocks[f[i].num].root
<1>1. /\ f[i].num \in Nat /\ f[i].num > 0 /\ f[k].num \in Nat /\ f[i].root \in Root
      /\ f[k].root \in Root /\ Len(f[i].root) = f[i].num
  BY Zenon, FeedTypes
<1>2. h \in 0 .. Len(d.blocks) /\ Len(d.blocks) \in Nat
  BY Zenon, DbFields DEF ChainOK
<1>3. f[i].num \in 1 .. f[k].num /\ f[k].num \in 1 .. h /\ f[i].num \in 1 .. h
        /\ f[i].num \in 1 .. Len(d.blocks)
  BY <1>1, <1>2
<1>4. Prefix(f[i].root, f[k].root)
  BY Zenon, BlockOrder
<1>5. Prefix(d.blocks[f[i].num].root, f[k].root)
  BY Zenon, <1>3 DEF ChainOK
<1>6. Len(d.blocks[f[i].num].root) = f[i].num /\ d.blocks[f[i].num].root \in Root
  BY Zenon, <1>3, DbFields DEF ChainOK
<1> QED
  BY Zenon, <1>1, <1>4, <1>5, <1>6, PrefixEqual

\* The outcome of a query for block n.
LEMMA MatchesFacts ==
    ASSUME WellOrdered, NEW n \in Nat, FeedOK(feed), DbOK(feed, db), NEW h \in Nat, ChainOK(db, h),
           n <= h, n <= FeedHeight
    PROVE  /\ Matches(n) => \A m \in 1 .. n : Agrees(feed, db, m)
           /\ ~ Matches(n) => n > 0
           /\ ~ Matches(n) => \A i \in Blocks(feed) : feed[i].num \in n .. h =>
                                feed[i].root # db.blocks[feed[i].num].root
<1>1. CASE n = 0
  <2>1. Matches(n) /\ \A m \in 1 .. n : FALSE
    BY <1>1 DEF Matches
  <2> QED
    BY Zenon, <2>1
<1>2. CASE n # 0
  <2>1. n > 0 /\ n \in 1 .. FeedHeight /\ n \in 1 .. h /\ n \in 1 .. Len(db.blocks)
    <3>1. FeedHeight \in 0 .. MaxBlocks /\ h \in 0 .. Len(db.blocks) /\ Len(db.blocks) \in Nat
      BY Zenon, HeightFacts, DbFields DEF FeedHeight, ChainOK, DbOK
    <3> QED
      BY <1>2, <3>1
  <2>2. PICK k \in Blocks(feed) : feed[k].num = n
    BY Zenon, <2>1, HeightFacts DEF FeedHeight
  <2>3. BlockAt(feed, n) = feed[k] /\ DbType(db)
    BY Zenon, <2>2, BlockAtFacts DEF DbOK
  <2>4. ASSUME feed[k].root = db.blocks[n].root PROVE Matches(n)
    <3>1. feed[k].batch = db.blocks[n].batch
      BY Zenon, <2>1, <2>2, <2>4 DEF DbOK, BatchesAgree
    <3>2. db.rows[n] = db.blocks[n].batch
      BY Zenon, <2>1 DEF ChainOK
    <3> QED
      BY Zenon, <2>3, <2>4, <3>1, <3>2 DEF Matches
  <2>5. ASSUME Matches(n), NEW m \in 1 .. n PROVE Agrees(feed, db, m)
    <3>1. feed[k].root = db.blocks[feed[k].num].root
      BY Zenon, <1>2, <2>2, <2>3, <2>5 DEF Matches
    <3>2. ASSUME NEW i \in Blocks(feed), feed[i].num = m PROVE feed[i].root = db.blocks[m].root
      <4>1. feed[i].num <= feed[k].num
        BY <2>2, <3>2
      <4> QED
        BY Zenon, <2>2, <2>3, <3>1, <3>2, <4>1, SameBelow
    <3> QED
      BY Zenon, <3>2 DEF Agrees
  <2>6. ASSUME ~ Matches(n), NEW i \in Blocks(feed), feed[i].num \in n .. h,
               feed[i].root = db.blocks[feed[i].num].root
        PROVE  FALSE
    <3>1. feed[i].num <= h /\ feed[k].num <= feed[i].num
      BY <2>2, <2>6
    <3>2. feed[k].root = db.blocks[feed[k].num].root
      BY Zenon, <2>3, <2>6, <3>1, SameBelow
    <3> QED
      BY Zenon, <2>2, <2>4, <2>6, <3>2
  <2> QED
    BY Zenon, <2>1, <2>5, <2>6
<1> QED
  BY Zenon, <1>1, <1>2

LEMMA SearchMoves ==
    ASSUME RpcInv, pc' = pc, feed' = feed, cuts' = cuts, faults' = faults, conn' = conn, db' = db,
           disk' = disk, oneTx' = oneTx, unwindTo' = unwindTo, reader' = reader, pc = "search",
           search' \in [lo : Nat, hi : Nat, best : Nat \cup {Nil}, latest : Nat, cuts : Nat],
           SearchOK', SearchExact'
    PROVE  RpcInv'
<1>1. FeedOK(feed) /\ ControlOK /\ DbOK(feed, db) /\ DbOK(feed, disk) /\ TxOK /\ ReaderOK
        /\ UnwindOK
  BY Zenon DEF RpcInv
<1>2. ControlOK'
  BY Zenon, <1>1 DEF ControlOK
<1>3. TxOK'
  BY <1>1 DEF TxOK
<1>4. ReaderOK'
  BY Zenon, <1>1 DEF ReaderOK
<1>5. UnwindOK'
  BY Zenon, <1>1 DEF UnwindOK
<1>6. FeedOK(feed') /\ DbOK(feed', db') /\ DbOK(feed', disk')
  BY Zenon, <1>1
<1> QED
  BY Zenon, <1>2, <1>3, <1>4, <1>5, <1>6 DEF RpcInv

LEMMA Middle ==
    ASSUME NEW lo \in Nat, NEW hi \in Nat, lo <= hi
    PROVE  (lo + hi) \div 2 \in Nat /\ lo <= (lo + hi) \div 2 /\ (lo + hi) \div 2 <= hi
OBVIOUS

LEMMA FindCommonAncestorStep ==
    ASSUME WellOrdered, RpcInv, FindCommonAncestor
    PROVE  RpcInv'
<1>1. FeedOK(feed) /\ ControlOK /\ DbOK(feed, db) /\ SearchOK /\ SearchExact
  BY Zenon DEF RpcInv
<1>2. /\ pc = "search" /\ pc' = pc /\ feed' = feed /\ cuts' = cuts /\ faults' = faults
      /\ conn' = conn /\ db' = db /\ disk' = disk /\ oneTx' = oneTx /\ unwindTo' = unwindTo
      /\ reader' = reader /\ search.lo <= search.hi /\ Mid <= FeedHeight
      /\ search' = IF Matches(Mid) THEN [search EXCEPT !.lo = Mid + 1, !.best = Mid]
                   ELSE [search EXCEPT !.hi = Mid - 1]
  BY Zenon DEF FindCommonAncestor, feedVars
<1>3. /\ search.lo \in Nat /\ search.hi \in Nat /\ search.latest \in Nat
      /\ search \in [lo : Nat, hi : Nat, best : Nat \cup {Nil}, latest : Nat, cuts : Nat]
      /\ search.hi <= search.latest /\ ChainOK(db, search.latest) /\ search.cuts <= cuts
      /\ search.best = search.lo - 1 /\ search.best <= search.latest
      /\ \A m \in 1 .. search.best : Agrees(feed, db, m)
  BY Zenon, <1>1, ControlFacts DEF SearchOK
<1>4. PICK mid : mid = Mid
  BY Zenon
<1>5. mid \in Nat /\ search.lo <= mid /\ mid <= search.hi
  BY Zenon, <1>2, <1>3, <1>4, Middle DEF Mid
<1>6. mid <= search.latest
  BY <1>3, <1>5
<1>7. /\ Matches(mid) => \A m \in 1 .. mid : Agrees(feed, db, m)
      /\ ~ Matches(mid) => mid > 0
      /\ ~ Matches(mid) => \A i \in Blocks(feed) : feed[i].num \in mid .. search.latest =>
                             feed[i].root # db.blocks[feed[i].num].root
  BY Zenon, <1>1, <1>2, <1>3, <1>4, <1>5, <1>6, MatchesFacts
<1>8. CASE Matches(mid)
  <2>1. search' = [search EXCEPT !.lo = mid + 1, !.best = mid]
    BY Zenon, <1>2, <1>4, <1>8
  <2>2. /\ search' \in [lo : Nat, hi : Nat, best : Nat \cup {Nil}, latest : Nat, cuts : Nat]
        /\ search'.lo = mid + 1 /\ search'.best = mid /\ search'.hi = search.hi
        /\ search'.latest = search.latest /\ search'.cuts = search.cuts
    <3>1. PICK t : t = [search EXCEPT !.lo = mid + 1]
      BY Zenon
    <3>2. /\ t \in [lo : Nat, hi : Nat, best : Nat \cup {Nil}, latest : Nat, cuts : Nat]
          /\ t.lo = mid + 1 /\ t.hi = search.hi /\ t.latest = search.latest /\ t.cuts = search.cuts
      BY <1>3, <1>5, <3>1
    <3>3. search' = [t EXCEPT !.best = mid]
      BY Zenon, <2>1, <3>1
    <3> QED
      BY <1>5, <3>2, <3>3
  <2>3. mid = (mid + 1) - 1
    BY <1>5
  <2>4. SearchOK'
    BY Zenon, <1>2, <1>3, <1>6, <1>7, <1>8, <2>2, <2>3 DEF SearchOK
  <2>5. SearchExact'
    BY Zenon, <1>1, <1>2, <2>2 DEF SearchExact
  <2> QED
    BY Zenon, <1>2, <2>2, <2>4, <2>5, SearchMoves
<1>9. CASE ~ Matches(mid)
  <2>1. search' = [search EXCEPT !.hi = mid - 1] /\ mid - 1 \in Nat
    BY <1>2, <1>4, <1>5, <1>7, <1>9
  <2>2. /\ search' \in [lo : Nat, hi : Nat, best : Nat \cup {Nil}, latest : Nat, cuts : Nat]
        /\ search'.lo = search.lo /\ search'.best = search.best /\ search'.hi = mid - 1
        /\ search'.latest = search.latest /\ search'.cuts = search.cuts
    BY <1>3, <2>1
  <2>3. mid - 1 <= search.latest /\ (mid - 1) + 1 = mid
    BY <1>3, <1>5, <1>6
  <2>4. SearchOK'
    BY Zenon, <1>2, <1>3, <2>2, <2>3 DEF SearchOK
  <2>5. SearchExact'
    <3>1. search'.cuts = cuts' =>
            \A n \in 1 .. search'.latest : \E i \in Blocks(feed') : feed'[i].num = n
      BY Zenon, <1>1, <1>2, <2>2 DEF SearchExact
    <3>2. \A i \in Blocks(feed') : feed'[i].num \in (search'.hi + 1) .. search'.latest =>
            feed'[i].root # db'.blocks[feed'[i].num].root
      BY Zenon, <1>2, <1>7, <1>9, <2>2, <2>3
    <3> QED
      BY Zenon, <3>1, <3>2 DEF SearchExact
  <2> QED
    BY Zenon, <1>2, <2>2, <2>4, <2>5, SearchMoves
<1> QED
  BY Zenon, <1>8, <1>9

-----------------------------------------------------------------------------
(* The unwind point.                                                               *)

LEMMA MaxNat ==
    ASSUME WellOrdered, NEW N \in Nat, NEW S \in SUBSET (0 .. N), 0 \in S
    PROVE  Max(S) \in S /\ Max(S) \in 0 .. N /\ \A y \in S : y <= Max(S)
<1> DEFINE T == {k \in 0 .. N : \A y \in S : y <= k}
<1>1. \A y \in S : y \in Nat /\ y <= N
  OBVIOUS
<1>2. N \in T /\ T \in SUBSET Nat
  BY <1>1
<1>3. PICK k \in T : \A j \in T : k <= j
  BY Zenon, <1>2 DEF WellOrdered
<1>4. k \in Nat /\ k \in 0 .. N /\ \A y \in S : y <= k
  BY <1>3
<1>5. k \in S
  <2>1. SUFFICES ASSUME k \notin S PROVE FALSE
    BY Zenon
  <2>2. k # 0
    BY Zenon, <2>1
  <2>3. k - 1 \in 0 .. N /\ \A y \in S : y <= k - 1
    BY <1>1, <1>4, <2>1, <2>2
  <2>4. k <= k - 1
    BY <1>3, <2>3
  <2> QED
    BY <1>4, <2>4
<1>6. \E x \in S : \A y \in S : x >= y
  BY <1>1, <1>4, <1>5
<1>7. Max(S) \in S /\ \A y \in S : Max(S) >= y
  BY Zenon, <1>6 DEF Max
<1> QED
  BY Zenon, <1>1, <1>7

\* A maximum that is known.
LEMMA MaxIs ==
    ASSUME WellOrdered, NEW N \in Nat, NEW S \in SUBSET (0 .. N), 0 \in S, NEW x \in S,
           \A y \in S : y <= x
    PROVE  Max(S) = x
<1>1. Max(S) \in S /\ Max(S) \in 0 .. N /\ \A y \in S : y <= Max(S)
  BY Zenon, MaxNat
<1>2. x \in 0 .. N /\ x <= Max(S) /\ Max(S) <= x
  BY Zenon, <1>1
<1> QED
  BY <1>1, <1>2

\* The last block of a batch by the index.
LEMMA HighestInBatch ==
    ASSUME WellOrdered, NEW d, DbType(d), IndexOK(d), NEW b
    PROVE  /\ GetHighestBlockInBatch(d, b) \in {0} \cup Numbers
           /\ GetHighestBlockInBatch(d, b) # 0 =>
                d.rows[GetHighestBlockInBatch(d, b)] = b /\ b \in Batches
           /\ \A n \in Numbers : d.rows[n] = b /\ b # 0 => n <= GetHighestBlockInBatch(d, b)
<1> DEFINE S == {0} \cup {n \in Numbers : <<b, n>> \in d.lists}
<1>1. MaxBlocks \in Nat /\ S \in SUBSET (0 .. MaxBlocks) /\ 0 \in S
  BY NumberFacts
<1>2. GetHighestBlockInBatch(d, b) = Max(S)
  BY Zenon DEF GetHighestBlockInBatch
<1>3. Max(S) \in S /\ \A y \in S : y <= Max(S)
  BY Zenon, <1>1, MaxNat
<1>4. ASSUME NEW n \in Numbers, <<b, n>> \in d.lists PROVE d.rows[n] = b /\ b \in Batches
  BY <1>4, DbFields DEF IndexOK
<1>5. ASSUME NEW n \in Numbers, d.rows[n] = b, b # 0 PROVE <<b, n>> \in d.lists
  BY Zenon, <1>5 DEF IndexOK
<1> QED
  BY Zenon, <1>2, <1>3, <1>4, <1>5

\* The end of the search: the candidate has a batch.
LEMMA BestFacts ==
    ASSUME RpcInv, search.lo > search.hi, GetBatchNoByL2Block(db, search.best) # 0
    PROVE  /\ search.latest \in Nat /\ search.best \in Nat /\ search.best > 0
           /\ search.best <= search.latest /\ search.hi \in Nat /\ search.hi <= search.best
           /\ search.latest <= Len(db.blocks) /\ Len(db.blocks) \in Nat
           /\ Len(db.blocks) <= MaxBlocks /\ MaxBlocks \in Nat
           /\ GetBatchNoByL2Block(db, search.best) = db.blocks[search.best].batch
           /\ db.blocks[search.best].batch \in Nat /\ db.blocks[search.best].batch > 0
           /\ Agrees(feed, db, search.best)
<1>1. ControlOK /\ DbOK(feed, db) /\ SearchOK /\ DbType(db)
  BY Zenon DEF RpcInv, DbOK
<1>2. /\ search.lo \in Nat /\ search.hi \in Nat /\ search.latest \in Nat
      /\ search.best = search.lo - 1 /\ search.best <= search.latest
      /\ search.latest \in 0 .. Len(db.blocks) /\ Len(db.blocks) \in Nat
      /\ Len(db.blocks) <= MaxBlocks /\ MaxBlocks \in Nat
  BY Zenon, <1>1, ControlFacts, DbFields, NumberFacts DEF SearchOK, ChainOK
<1>3. search.best # 0
  BY Zenon DEF GetBatchNoByL2Block
<1>4. /\ search.best \in Nat /\ search.best > 0 /\ search.hi <= search.best
      /\ search.latest <= Len(db.blocks) /\ search.best \in 1 .. search.latest
      /\ search.best \in 1 .. Len(db.blocks) /\ search.best \in 1 .. search.best
  BY <1>2, <1>3
<1>5. db.rows[search.best] = db.blocks[search.best].batch /\ db.blocks[search.best].batch > 0
  BY Zenon, <1>1, <1>4 DEF SearchOK, ChainOK
<1>6. db.blocks[search.best].batch \in Nat
  BY Zenon, <1>1, <1>4, DbFields
<1>7. Agrees(feed, db, search.best)
  BY Zenon, <1>1, <1>4 DEF SearchOK
<1>8. GetBatchNoByL2Block(db, search.best) = db.blocks[search.best].batch
  BY Zenon, <1>3, <1>5 DEF GetBatchNoByL2Block
<1> QED
  BY Zenon, <1>2, <1>4, <1>5, <1>6, <1>7, <1>8

\* An unwind point below the stage progress is a common block, or none.
LEMMA UnwindPoint ==
    ASSUME WellOrdered, RpcInv, search.lo > search.hi,
           GetBatchNoByL2Block(db, search.best) # 0,
           NEW to, to = GetHighestBlockInBatch(db, GetBatchNoByL2Block(db, search.best) - 1)
    PROVE  /\ to \in {0} \cup Numbers /\ to \in Nat
           /\ to < db.progress => Agrees(feed, db, to)
           /\ to # 0 => db.rows[to] = db.blocks[search.best].batch - 1 /\ db.rows[to] # 0
           /\ to # 0 /\ to <= db.progress => to < search.best
           /\ \A n \in Numbers : db.rows[n] = db.blocks[search.best].batch - 1
                                   /\ db.blocks[search.best].batch > 1 => n <= to
<1>1. DbOK(feed, db) /\ SearchOK /\ FeedOK(feed) /\ DbType(db) /\ IndexOK(db)
        /\ ChainOK(db, db.progress)
  BY Zenon DEF RpcInv, DbOK
<1> DEFINE best == search.best
<1>2. PICK b \in Nat : b = db.blocks[best].batch
  BY Zenon, BestFacts
<1>3. best \in Nat /\ best > 0 /\ b > 0 /\ db.progress \in Nat
  BY Zenon, <1>1, <1>2, BestFacts, DbFields
<1>4. to = GetHighestBlockInBatch(db, b - 1)
  BY Zenon, <1>2, BestFacts
<1>5. PICK c : c = b - 1
  BY Zenon
<1>6. /\ to \in {0} \cup Numbers
      /\ to # 0 => db.rows[to] = c /\ c \in Batches
      /\ \A n \in Numbers : db.rows[n] = c /\ c # 0 => n <= to
  BY Zenon, <1>1, <1>4, <1>5, HighestInBatch
<1>7. to \in Nat
  BY <1>6, NumberFacts
<1>8. ASSUME to # 0, to <= db.progress PROVE to < best
  <2>1. SUFFICES ASSUME best <= to PROVE FALSE
    BY <1>3, <1>7
  <2>2. to \in 1 .. db.progress /\ best \in 1 .. to
    BY <1>3, <1>7, <1>8, <2>1
  <2>3. db.rows[to] = db.blocks[to].batch /\ db.blocks[best].batch <= db.blocks[to].batch
    BY Zenon, <1>1, <2>2 DEF ChainOK
  <2>4. c = b - 1 /\ b <= c
    BY Zenon, <1>2, <1>5, <1>6, <1>8, <2>3
  <2> QED
    BY <2>4
<1>9. ASSUME to < db.progress PROVE Agrees(feed, db, to)
  <2>1. CASE to = 0
    BY Zenon, <1>1, <2>1, ZeroOK
  <2>2. CASE to # 0
    <3>1. to <= db.progress
      BY <1>3, <1>7, <1>9
    <3>2. to < best
      BY Zenon, <1>8, <2>2, <3>1
    <3>3. to \in 1 .. best
      BY <1>3, <1>7, <2>2, <3>2
    <3> QED
      BY Zenon, <1>1, <3>3 DEF SearchOK
  <2> QED
    BY Zenon, <2>1, <2>2
<1>10. ASSUME NEW n \in Numbers, db.rows[n] = db.blocks[best].batch - 1, db.blocks[best].batch > 1
       PROVE  n <= to
  <2>1. c # 0
    BY <1>2, <1>5, <1>10
  <2>2. db.rows[n] = c
    BY Zenon, <1>2, <1>5, <1>10
  <2> QED
    BY Zenon, <1>6, <2>1, <2>2
<1>11. to # 0 => db.rows[to] = db.blocks[best].batch - 1 /\ db.rows[to] # 0
  <2>1. c \in Batches => c # 0
    BY NumberFacts
  <2> QED
    BY Zenon, <1>2, <1>5, <1>6, <2>1
<1> QED
  BY Zenon, <1>6, <1>7, <1>8, <1>9, <1>10, <1>11

LEMMA RollbackStep ==
    ASSUME WellOrdered, RpcInv, Rollback
    PROVE  RpcInv'
<1>1. ControlOK /\ DbOK(feed, db) /\ DbOK(feed, disk) /\ TxOK /\ FeedOK(feed)
  BY Zenon DEF RpcInv
<1>2. /\ pc = "search" /\ search.lo > search.hi /\ GetBatchNoByL2Block(db, search.best) # 0
      /\ unwindTo' = GetHighestBlockInBatch(db, GetBatchNoByL2Block(db, search.best) - 1)
      /\ db' = (IF oneTx THEN db ELSE disk) /\ pc' = "unwindExec" /\ search' = NoSearch
      /\ feed' = feed /\ cuts' = cuts /\ disk' = disk /\ oneTx' = oneTx /\ reader' = reader
      /\ conn' = conn /\ faults' = faults
  BY Zenon DEF Rollback, feedVars
<1>3. PICK to : to = GetHighestBlockInBatch(db, GetBatchNoByL2Block(db, search.best) - 1)
  BY Zenon
<1>4. to \in {0} \cup Numbers /\ to \in Nat /\ (to < db.progress => Agrees(feed, db, to))
  BY Zenon, <1>2, <1>3, UnwindPoint
<1>5. unwindTo' = to /\ to # Nil
  <2>1. to # Nil
    BY <1>4 DEF Nil
  <2> QED
    BY Zenon, <1>2, <1>3, <2>1
<1>6. pc \notin {"read", "save"} /\ pc' \notin {"read", "save", "search"} /\ pc' \in Unwinding
        /\ pc' # "unwindBatches"
  BY <1>2 DEF Unwinding
<1>7. /\ reader' = NoReader /\ faults' \in 0 .. MaxFaults /\ oneTx' \in BOOLEAN
      /\ conn' \in {"new", "up", "error", "nil"}
  BY Zenon, <1>1, <1>2, <1>6, AtRest
<1>8. DbOK(feed, db') /\ DbOK(feed, disk')
  BY Zenon, <1>1, <1>2
<1>9. TxOK'
  <2>1. CASE oneTx
    BY <1>2, <2>1 DEF TxOK
  <2>2. CASE ~oneTx
    <3>1. db' = disk'
      BY Zenon, <1>2, <2>2
    <3> QED
      BY Zenon, <3>1 DEF TxOK
  <2> QED
    BY Zenon, <2>1, <2>2
<1>10. to < db'.progress => Agrees(feed, db', to)
  <2>1. CASE oneTx
    BY Zenon, <1>2, <1>4, <2>1
  <2>2. CASE ~oneTx
    <3>1. db' = disk /\ db.progress = disk.progress
            /\ \A n \in 1 .. db.progress : db.blocks[n] = disk.blocks[n]
      BY Zenon, <1>1, <1>2, <2>2 DEF TxOK
    <3>2. CASE to = 0
      BY Zenon, <1>1, <3>1, <3>2, ZeroOK DEF DbOK
    <3>3. CASE to # 0
      <4>1. db.progress \in Nat
        BY Zenon, <1>1, DbFields DEF DbOK
      <4>2. to < db.progress => to \in 1 .. db.progress
        BY <1>4, <3>3, <4>1
      <4> QED
        BY Zenon, <1>4, <3>1, <4>2 DEF Agrees
    <3> QED
      BY Zenon, <3>2, <3>3
  <2> QED
    BY Zenon, <2>1, <2>2
<1>11. UnwindOK'
  BY Zenon, <1>2, <1>5, <1>6, <1>10 DEF UnwindOK
<1>12. unwindTo' \in {Nil, 0} \cup Numbers /\ (pc' \in Unwinding <=> unwindTo' # Nil)
  BY Zenon, <1>4, <1>5, <1>6
<1> QED
  BY Zenon, <1>2, <1>6, <1>7, <1>8, <1>9, <1>11, <1>12, Calm

-----------------------------------------------------------------------------
(* The invariant is inductive.                                                     *)

LEMMA RpcInvInit ==
    ASSUME Init
    PROVE  RpcInv
<1>1. /\ feed = <<>> /\ disk = EmptyDb /\ db = EmptyDb /\ oneTx = FALSE /\ pc = "batches"
      /\ unwindTo = Nil /\ reader = NoReader /\ search = NoSearch /\ conn = "new"
      /\ cuts = 0 /\ faults = 0
  BY Zenon DEF Init
<1>2. Starts(feed) = {} /\ Blocks(feed) = {} /\ feed \in Seq(FeedEntry)
  BY <1>1 DEF Starts, Blocks
<1>3. FeedOK(feed)
  BY Zenon, <1>2 DEF FeedOK
<1>4. DbType(EmptyDb) /\ EmptyDb.progress = 0 /\ EmptyDb.lists = {} /\ Len(EmptyDb.blocks) = 0
        /\ EmptyDb.rows = [n \in Numbers |-> 0]
  BY RpcAssumption DEF DbType, EmptyDb
<1>5. DbOK(feed, EmptyDb)
  <2>1. ChainOK(EmptyDb, 0) /\ Agrees(feed, EmptyDb, 0)
    BY Zenon, <1>3, <1>4, ZeroOK
  <2>2. IndexOK(EmptyDb)
    BY Zenon, <1>4 DEF IndexOK
  <2>3. BatchesAgree(feed, EmptyDb) /\ RowsAhead(feed, EmptyDb)
    BY Zenon, <1>2 DEF BatchesAgree, RowsAhead
  <2> QED
    BY Zenon, <1>4, <2>1, <2>2, <2>3 DEF DbOK
<1>6. /\ cuts \in 0 .. MaxCuts /\ faults \in 0 .. MaxFaults /\ pc \notin Unwinding
      /\ pc # "read" /\ pc # "search" /\ pc # "save" /\ pc # "unwindExec" /\ pc # "unwindBatches"
  BY <1>1, RpcAssumption DEF Unwinding
<1>7. ControlOK
  BY Zenon, <1>1, <1>6, Rests DEF ControlOK
<1>8. TxOK
  BY Zenon, <1>1 DEF TxOK
<1>9. ChainOK(db, 0) /\ Agrees(feed, db, 0)
  BY Zenon, <1>1, <1>4, <1>5 DEF DbOK
<1>10. ReaderOK
  BY Zenon, <1>1, <1>6, <1>9, Rests DEF ReaderOK
<1>11. SearchOK
  <2>1. 0 <= cuts /\ \A m \in 1 .. NoSearch.best : FALSE
    BY <1>1, Rests
  <2> QED
    BY Zenon, <1>1, <1>9, <2>1, Rests DEF SearchOK
<1>12. SearchExact /\ UnwindOK
  BY Zenon, <1>6 DEF SearchExact, UnwindOK
<1> QED
  BY Zenon, <1>1, <1>3, <1>5, <1>7, <1>8, <1>10, <1>11, <1>12 DEF RpcInv

LEMMA RpcInvNext ==
    ASSUME WellOrdered, Quirks = {}, RpcInv, [Next]_vars
    PROVE  RpcInv'
<1>1. CASE Publish
  BY Zenon, <1>1, PublishStep
<1>2. CASE CloseBatch
  BY Zenon, <1>2, CloseBatchStep
<1>3. CASE Cut
  BY Zenon, <1>3, CutStep
<1>4. CASE SpawnStageBatches
  BY Zenon, <1>4, SpawnStageBatchesStep
<1>5. CASE StartRead
  BY Zenon, <1>5, StartReadStep
<1>6. CASE ProcessBatchEntry
  BY Zenon, <1>6, ProcessBatchEntryStep
<1>7. CASE ProcessFullBlock
  BY Zenon, <1>7, ProcessFullBlockStep
<1>8. CASE ProcessRepeatedBlock
  BY Zenon, <1>8, ProcessRepeatedBlockStep
<1>9. CASE ReadTimesOut \/ ReadFails \/ LastEntryDropped
  BY Zenon, <1>9, ReadStopsStep
<1>10. CASE SaveStageProgress
  BY Zenon, <1>10, SaveStageProgressStep
<1>11. CASE FindCommonAncestor
  BY Zenon, <1>11, FindCommonAncestorStep
<1>12. CASE Rollback
  BY Zenon, <1>12, RollbackStep
<1>13. CASE RollbackFails \/ QueryFails
  BY Zenon, <1>13, RollbackFailsStep
<1>14. CASE SpawnExecuteBlocks
  BY Zenon, <1>14, SpawnExecuteBlocksStep
<1>15. CASE HighestBlockFails \/ CatchupDatastream
  BY Zenon, <1>15, HighestBlockFailsStep
<1>16. CASE FinishForward
  BY Zenon, <1>16, FinishForwardStep
<1>17. CASE UnwindExecutionStage
  BY Zenon, <1>17, UnwindExecutionStep
<1>18. CASE UnwindBatchesStage
  BY Zenon, <1>18, UnwindBatchesStep
<1>19. CASE UnwindFinish
  BY Zenon, <1>19, UnwindFinishStep
<1>20. CASE HandleStartFails
  BY Zenon, <1>20, HandleStartFailsStep
<1>21. CASE Crash
  BY Zenon, <1>21, CrashStep
<1>22. CASE UNCHANGED vars
  <2>1. /\ feed' = feed /\ disk' = disk /\ db' = db /\ oneTx' = oneTx /\ pc' = pc
        /\ unwindTo' = unwindTo /\ reader' = reader /\ search' = search /\ conn' = conn
        /\ cuts' = cuts /\ faults' = faults
    BY Zenon, <1>22 DEF vars
  <2>2. TxOK'
    BY <2>1 DEF RpcInv, TxOK
  <2>3. ControlOK' /\ ReaderOK'
    BY Zenon, <2>1 DEF RpcInv, ControlOK, ReaderOK
  <2>4. SearchOK' /\ SearchExact' /\ UnwindOK'
    BY Zenon, <2>1 DEF RpcInv, SearchOK, SearchExact, UnwindOK
  <2> QED
    BY Zenon, <2>1, <2>2, <2>3, <2>4 DEF RpcInv
<1> QED
  BY Zenon, <1>1, <1>2, <1>3, <1>4, <1>5, <1>6, <1>7, <1>8, <1>9, <1>10, <1>11, <1>12, <1>13,
     <1>14, <1>15, <1>16, <1>17, <1>18, <1>19, <1>20, <1>21, <1>22
     DEF Next, Sequencer, Node, Faults

-----------------------------------------------------------------------------
(* What the invariant implies.                                                     *)

LEMMA TypeFromInv ==
    ASSUME RpcInv
    PROVE  TypeOK
<1>1. ControlOK /\ \A d \in {db, disk} : DbType(d)
  BY Zenon DEF RpcInv, DbOK
<1>2. ASSUME NEW d \in {db, disk}
      PROVE  /\ d.finish \in {0} \cup Numbers
             /\ 0 <= d.exec /\ d.exec <= d.progress /\ d.progress <= Len(d.blocks)
             /\ Len(d.blocks) <= MaxBlocks
             /\ d.headers = d.exec
             /\ d.rows \in [Numbers -> {0} \cup Batches]
             /\ d.lists \subseteq Batches \X Numbers
             /\ d.ends \subseteq {0} \cup Numbers
  <2>1. d.exec \in Nat
    BY Zenon, <1>1, DbFields
  <2>2. 0 <= d.exec
    BY <2>1
  <2> QED
    BY Zenon, <1>1, <2>2, DbFields
<1>3. cuts \in 0 .. MaxCuts /\ unwindTo \in {Nil, 0} \cup Numbers
  BY Zenon, <1>1, AtRest, ControlFacts
<1>4. faults \in 0 .. MaxFaults /\ conn \in {"new", "up", "error", "nil"}
  BY Zenon, <1>1, AtRest
<1> QED
  BY Zenon, <1>2, <1>3, <1>4 DEF TypeOK

LEMMA OneForkFromInv ==
    ASSUME RpcInv
    PROVE  OneFork
<1>1. SUFFICES ASSUME NEW d \in {db, disk}, NEW n \in 2 .. d.progress
               PROVE  d.blocks[n].root = Append(d.blocks[n - 1].root, d.blocks[n].tx)
  BY Zenon DEF OneFork
<1>2. DbType(d) /\ ChainOK(d, d.progress)
  BY Zenon DEF RpcInv, DbOK
<1>3. d.progress \in Nat /\ d.progress <= Len(d.blocks) /\ Len(d.blocks) \in Nat
  BY Zenon, <1>2, DbFields
<1>4. /\ n \in Nat /\ n > 1 /\ n \in 1 .. d.progress /\ n - 1 \in 1 .. n /\ n - 1 \in 1 .. d.progress
      /\ n \in 1 .. Len(d.blocks) /\ n - 1 \in 1 .. Len(d.blocks)
  BY <1>3
<1>5. PICK r \in Root : r = d.blocks[n - 1].root
  BY Zenon, <1>2, <1>4, DbFields
<1>6. PICK s \in Root : s = d.blocks[n].root
  BY Zenon, <1>2, <1>4, DbFields
<1>7. PICK x \in Nat : x = d.blocks[n].tx
  BY Zenon, <1>2, <1>4, DbFields
<1>8. Len(r) = n - 1 /\ Len(s) = n /\ s[n] = x /\ Prefix(r, s)
  BY Zenon, <1>2, <1>4, <1>5, <1>6, <1>7 DEF ChainOK
<1>9. \A k \in 1 .. (n - 1) : r[k] = s[k]
  BY Zenon, <1>8 DEF Prefix
<1>10. s = Append(r, x)
  <2>1. r \in Seq(Nat) /\ s \in Seq(Nat)
    BY Zenon DEF Root
  <2>2. /\ Append(r, x) \in Seq(Nat) /\ Len(Append(r, x)) = Len(r) + 1
        /\ \A i \in 1 .. Len(r) : Append(r, x)[i] = r[i]
        /\ Append(r, x)[Len(r) + 1] = x
    BY <2>1
  <2>3. Len(r) + 1 = n /\ Len(s) = Len(Append(r, x))
    BY <1>4, <1>8, <2>2
  <2>4. \A i \in 1 .. n : i = n \/ i \in 1 .. (n - 1)
    BY <1>4
  <2>5. \A i \in 1 .. Len(s) : s[i] = Append(r, x)[i]
    BY Zenon, <1>8, <1>9, <2>2, <2>3, <2>4
  <2> QED
    BY Zenon, <2>1, <2>2, <2>3, <2>5, SameEntries
<1> QED
  BY Zenon, <1>5, <1>6, <1>7, <1>10

LEMMA IndexFromInv ==
    ASSUME RpcInv
    PROVE  IndexCoherent
<1>1. SUFFICES ASSUME NEW d \in {db, disk}, NEW n \in 1 .. d.progress, NEW b \in Batches
               PROVE  /\ d.rows[n] = d.blocks[n].batch
                      /\ <<b, n>> \in d.lists <=> b = d.blocks[n].batch
  BY Zenon DEF IndexCoherent
<1>2. DbType(d) /\ ChainOK(d, d.progress) /\ IndexOK(d)
  BY Zenon DEF RpcInv, DbOK
<1>3. d.rows[n] = d.blocks[n].batch /\ d.blocks[n].batch > 0
  BY Zenon, <1>2 DEF ChainOK
<1>4. n \in Numbers
  <2>1. /\ d.progress \in Nat /\ d.progress <= Len(d.blocks) /\ Len(d.blocks) \in Nat
        /\ Len(d.blocks) <= MaxBlocks
    BY Zenon, <1>2, DbFields
  <2> QED
    BY <2>1, NumberFacts
<1>5. <<b, n>> \in d.lists => d.rows[n] = b
  BY <1>2 DEF IndexOK
<1>6. d.rows[n] # 0 => <<d.rows[n], n>> \in d.lists
  BY Zenon, <1>2, <1>4 DEF IndexOK
<1>7. d.rows[n] # 0
  BY <1>3
<1> QED
  BY Zenon, <1>3, <1>5, <1>6, <1>7

\* Without a cut the candidate of the search is the latest common block.
LEMMA BestIsCommon ==
    ASSUME WellOrdered, RpcInv, pc = "search", search.cuts = cuts, search.lo > search.hi,
           GetBatchNoByL2Block(db, search.best) # 0
    PROVE  CommonAncestor(search.latest) = search.best
<1>1. FeedOK(feed) /\ DbOK(feed, db) /\ SearchOK /\ SearchExact
  BY Zenon DEF RpcInv
<1>2. PICK l \in Nat : l = search.latest
  BY Zenon, BestFacts
<1>3. PICK best \in Nat : best = search.best
  BY Zenon, BestFacts
<1> DEFINE C == {n \in 0 .. l : \A m \in 1 .. n : SameBlock(BlockAt(feed, m), db.blocks[m])}
<1>4. best <= l /\ l <= Len(db.blocks) /\ Len(db.blocks) \in Nat /\ search.hi \in Nat
        /\ search.hi <= best
  BY Zenon, <1>2, <1>3, BestFacts
<1>5. ASSUME NEW m \in 1 .. l
      PROVE  \E i \in Blocks(feed) : feed[i].num = m /\ BlockAt(feed, m) = feed[i]
  <2>1. PICK i \in Blocks(feed) : feed[i].num = m
    BY Zenon, <1>1, <1>2 DEF SearchExact
  <2> QED
    BY Zenon, <1>1, <2>1, BlockAtFacts
<1>6. ASSUME NEW m \in 1 .. best PROVE SameBlock(BlockAt(feed, m), db.blocks[m])
  <2>1. m \in 1 .. l /\ m \in 1 .. Len(db.blocks)
    BY <1>4
  <2>2. PICK i \in Blocks(feed) : feed[i].num = m /\ BlockAt(feed, m) = feed[i]
    BY Zenon, <1>5, <2>1
  <2>3. feed[i].root = db.blocks[m].root
    BY Zenon, <1>1, <1>3, <2>2 DEF SearchOK, Agrees
  <2>4. feed[i].batch = db.blocks[m].batch
    BY Zenon, <1>1, <2>1, <2>2, <2>3 DEF DbOK, BatchesAgree
  <2> QED
    BY Zenon, <2>2, <2>3, <2>4 DEF SameBlock
<1>7. ASSUME NEW n \in C PROVE n <= best
  <2>1. SUFFICES ASSUME ~ (n <= best) PROVE FALSE
    BY Zenon
  <2>2. n \in 0 .. l /\ \A m \in 1 .. n : SameBlock(BlockAt(feed, m), db.blocks[m])
    BY Zenon
  <2>3. best + 1 \in 1 .. n /\ best + 1 \in 1 .. l /\ best + 1 \in (search.hi + 1) .. l
    BY <1>4, <2>1, <2>2
  <2>4. PICK i \in Blocks(feed) : feed[i].num = best + 1 /\ BlockAt(feed, best + 1) = feed[i]
    BY Zenon, <1>5, <2>3
  <2>5. feed[i].root = db.blocks[feed[i].num].root
    BY Zenon, <2>2, <2>3, <2>4 DEF SameBlock
  <2>6. feed[i].num \in (search.hi + 1) .. search.latest
    BY Zenon, <1>2, <2>3, <2>4
  <2> QED
    BY Zenon, <1>1, <2>5, <2>6 DEF SearchExact
<1>8. best \in C /\ 0 \in C /\ C \in SUBSET (0 .. l)
  <2>1. best \in 0 .. l /\ 0 \in 0 .. l /\ \A m \in 1 .. 0 : FALSE
    BY <1>4
  <2> QED
    BY Zenon, <1>6, <2>1
<1>9. CommonAncestor(l) = Max(C)
  BY Zenon DEF CommonAncestor
<1> HIDE DEF C
<1>10. Max(C) = best
  BY Zenon, <1>7, <1>8, MaxIs
<1> QED
  BY Zenon, <1>2, <1>3, <1>9, <1>10

\* ... and the unwind point is the last block of the batches before its batch.
LEMMA UnwindPointExact ==
    ASSUME WellOrdered, RpcInv, pc = "search", search.cuts = cuts, search.lo > search.hi,
           GetBatchNoByL2Block(db, search.best) # 0,
           NEW to, to = GetHighestBlockInBatch(db, GetBatchNoByL2Block(db, search.best) - 1)
    PROVE  to = Max({0} \cup {n \in 1 .. search.latest :
                       db.blocks[n].batch < db.blocks[search.best].batch})
<1>1. FeedOK(feed) /\ DbOK(feed, db) /\ SearchOK /\ SearchExact /\ DbType(db)
  BY Zenon DEF RpcInv, DbOK
<1>2. PICK l \in Nat : l = search.latest
  BY Zenon, BestFacts
<1>3. PICK best \in Nat : best = search.best
  BY Zenon, BestFacts
<1>4. PICK b \in Nat : b = db.blocks[best].batch
  BY Zenon, <1>3, BestFacts
<1>5. /\ best > 0 /\ best <= l /\ l <= Len(db.blocks) /\ Len(db.blocks) \in Nat
      /\ Len(db.blocks) <= MaxBlocks /\ MaxBlocks \in Nat /\ b > 0 /\ ChainOK(db, l)
      /\ Agrees(feed, db, best)
  BY Zenon, <1>1, <1>2, <1>3, <1>4, BestFacts DEF SearchOK
<1>6. /\ to \in {0} \cup Numbers /\ to \in Nat
      /\ to # 0 => db.rows[to] = b - 1
      /\ to # 0 /\ to <= db.progress => to < best
      /\ \A n \in Numbers : db.rows[n] = b - 1 /\ b > 1 => n <= to
  BY Zenon, <1>3, <1>4, UnwindPoint
<1> DEFINE S == {0} \cup {n \in 1 .. l : db.blocks[n].batch < b}
<1>7. \A n \in 1 .. l : /\ n \in Numbers /\ n \in Nat /\ n \in 1 .. Len(db.blocks)
                        /\ db.rows[n] = db.blocks[n].batch /\ db.blocks[n].batch \in Nat
                        /\ db.blocks[n].batch > 0
  <2>1. \A n \in 1 .. l : n \in Numbers /\ n \in Nat /\ n \in 1 .. Len(db.blocks)
    BY <1>5, NumberFacts
  <2> QED
    BY Zenon, <1>1, <1>5, <2>1, DbFields DEF ChainOK
<1>8. best \in 1 .. l
  BY <1>5
<1>9. ASSUME to # 0 PROVE to < best
  <2>1. SUFFICES ASSUME to > db.progress, best <= to PROVE FALSE
    <3>1. db.progress \in Nat
      BY Zenon, <1>1, DbFields
    <3> QED
      BY <1>6, <1>9, <3>1
  <2>2. PICK i \in Blocks(feed) : feed[i].num = best
    BY Zenon, <1>1, <1>2, <1>8 DEF SearchExact
  <2>3. feed[i].root = db.blocks[best].root
    BY Zenon, <1>5, <2>2 DEF Agrees
  <2>4. feed[i].batch = b
    BY Zenon, <1>1, <1>4, <1>7, <1>8, <2>2, <2>3 DEF DbOK, BatchesAgree
  <2>5. db.rows[to] # 0 /\ to \in Numbers /\ db.rows[to] = b - 1
    BY Zenon, <1>3, <1>4, <1>6, <1>9, UnwindPoint
  <2>6. b - 1 >= b
    BY Zenon, <1>1, <2>1, <2>2, <2>4, <2>5 DEF DbOK, RowsAhead
  <2> QED
    BY <2>6
<1>10. to \in S
  <2>1. CASE to = 0
    BY Zenon, <2>1
  <2>2. CASE to # 0
    <3>1. to < best
      BY Zenon, <1>9, <2>2
    <3>2. to \in 1 .. l
      BY <1>5, <1>6, <2>2, <3>1
    <3>3. db.blocks[to].batch = b - 1
      BY Zenon, <1>6, <1>7, <2>2, <3>2
    <3>4. db.blocks[to].batch < b
      BY <3>3
    <3> QED
      BY Zenon, <3>2, <3>4
  <2> QED
    BY Zenon, <2>1, <2>2
<1>11. S \in SUBSET (0 .. l) /\ 0 \in S
  OBVIOUS
<1>12. ASSUME NEW y \in S PROVE y <= to
  <2>1. PICK n : n = Max(S)
    BY Zenon
  <2>2. n \in S /\ n \in 0 .. l /\ \A z \in S : z <= n
    BY Zenon, <1>11, <2>1, MaxNat
  <2>3. CASE n = 0
    BY <1>6, <1>11, <2>2, <2>3
  <2>4. CASE n # 0
    <3>1. n \in 1 .. l /\ db.blocks[n].batch < b /\ n \in Nat
      BY <2>2, <2>4
    <3>2. n < best
      <4>1. SUFFICES ASSUME best \in 1 .. n PROVE FALSE
        BY <1>5, <3>1
      <4>2. db.blocks[best].batch <= db.blocks[n].batch
        BY Zenon, <1>5, <3>1, <4>1 DEF ChainOK
      <4>3. db.blocks[n].batch \in Nat
        BY Zenon, <1>7, <3>1
      <4> QED
        BY <1>4, <3>1, <4>2, <4>3
    <3>3. n + 1 \in 1 .. l /\ n + 1 > 1 /\ (n + 1) - 1 = n /\ ~ (n + 1 <= n)
      BY <1>5, <3>1, <3>2
    <3>4. ~ (db.blocks[n + 1].batch < b)
      BY Zenon, <2>2, <3>3
    <3>5. db.blocks[n + 1].batch <= db.blocks[n].batch + 1
      BY Zenon, <1>5, <3>3 DEF ChainOK
    <3>6. /\ db.blocks[n].batch \in Nat /\ db.blocks[n + 1].batch \in Nat /\ db.blocks[n].batch > 0
          /\ db.rows[n] = db.blocks[n].batch /\ n \in Numbers
      BY Zenon, <1>7, <3>1, <3>3
    <3>7. db.rows[n] = b - 1 /\ b > 1
      BY <3>1, <3>4, <3>5, <3>6
    <3>8. n <= to
      BY Zenon, <1>6, <3>6, <3>7
    <3>9. y <= n /\ y \in 0 .. l
      BY Zenon, <1>11, <2>2
    <3> QED
      BY <1>6, <3>1, <3>8, <3>9
  <2> QED
    BY Zenon, <2>3, <2>4
<1> HIDE DEF S
<1>13. Max(S) = to
  BY Zenon, <1>10, <1>11, <1>12, MaxIs
<1> QED
  BY Zenon, <1>2, <1>3, <1>4, <1>13 DEF S

LEMMA UnwindsExactly ==
    ASSUME WellOrdered, RpcInv, Next, pc = "search", unwindTo' # unwindTo, search.cuts = cuts
    PROVE  unwindTo' = Max({0} \cup {n \in 1 .. search.latest :
                         db.blocks[n].batch < db.blocks[CommonAncestor(search.latest)].batch})
<1>1. ControlOK /\ pc \notin Unwinding
  BY DEF RpcInv, Unwinding
<1>2. unwindTo = Nil
  BY Zenon, <1>1, AtRest
<1>3. Rollback
  <2>1. ~ Crash
    BY Zenon, <1>2 DEF Crash
  <2>2. ~ UnwindFinish
    BY DEF UnwindFinish
  <2>3. ~ Sequencer
    BY Zenon DEF Sequencer, Publish, CloseBatch, Cut
  <2>4. Node => Rollback \/ UnwindFinish
    BY Zenon DEF Node, SpawnStageBatches, StartRead, ProcessBatchEntry, ProcessFullBlock,
       ProcessRepeatedBlock, ReadTimesOut, SaveStageProgress, FindCommonAncestor, RollbackFails,
       SpawnExecuteBlocks, CatchupDatastream, FinishForward, UnwindExecutionStage,
       UnwindBatchesStage, StageFails
  <2>5. ~ (HandleStartFails \/ HighestBlockFails \/ ReadFails \/ LastEntryDropped \/ QueryFails)
    BY Zenon DEF HandleStartFails, HighestBlockFails, ReadFails, LastEntryDropped, QueryFails,
       StageFails
  <2> QED
    BY Zenon, <2>1, <2>2, <2>3, <2>4, <2>5 DEF Next, Faults
<1>4. /\ search.lo > search.hi /\ GetBatchNoByL2Block(db, search.best) # 0
      /\ unwindTo' = GetHighestBlockInBatch(db, GetBatchNoByL2Block(db, search.best) - 1)
  BY Zenon, <1>3 DEF Rollback
<1>5. CommonAncestor(search.latest) = search.best
  BY Zenon, <1>4, BestIsCommon
<1> QED
  BY Zenon, <1>4, <1>5, UnwindPointExact

-----------------------------------------------------------------------------
(* The theorems.                                                                   *)

LEMMA LeastNat == WellOrdered
<1> SUFFICES ASSUME NEW T \in SUBSET Nat, T # {}
             PROVE  \E x \in T : \A y \in T : x <= y
  BY Zenon DEF WellOrdered
<1> DEFINE R == OpToRel(<, Nat)
<1>1. PICK x \in T : \A y \in T : ~ (<<y, x>> \in R)
  BY Zenon, NatLessThanWellFounded, WFMin
<1>2. ASSUME NEW y \in T PROVE x <= y
  <2>1. ~ (y < x)
    BY Zenon, <1>1 DEF OpToRel
  <2> QED
    BY <2>1
<1> QED
  BY Zenon, <1>2

\* The invariant of a following node holds in every state, for any number of blocks,
\* resequencings and faults and a crash at any point.  Quirks = {} excludes what the node
\* does not notice (MayPublish) and empty batches, nothing else the sequencer does.
THEOREM RpcInvariant ==
    ASSUME Quirks = {}
    PROVE  Spec => []RpcInv
<1>1. Init => RpcInv
  BY Zenon, RpcInvInit
<1>2. RpcInv /\ [Next]_vars => RpcInv'
  BY Zenon, LeastNat, RpcInvNext
<1> QED
  BY <1>1, <1>2, PTL DEF Spec

\* No stage of the node is ever ahead of the one before it, the Headers progress is that
\* of Execution, and the stored blocks reach the progress of Batches, in the transaction
\* and on disk.
THEOREM RpcTypes ==
    ASSUME Quirks = {}
    PROVE  Spec => []TypeOK
<1>1. RpcInv => TypeOK
  BY Zenon, TypeFromInv
<1> QED
  BY <1>1, RpcInvariant, PTL

\* The blocks up to the stage progress are one chain, each built on the one before,
\* although the comparison of the parents' hashes in processFullBlock never fails.
THEOREM RpcOneFork ==
    ASSUME Quirks = {}
    PROVE  Spec => []OneFork
<1>1. RpcInv => OneFork
  BY Zenon, OneForkFromInv
<1> QED
  BY <1>1, RpcInvariant, PTL

\* BLOCKBATCHES and BATCH_BLOCKS both say of a block up to the stage progress what the
\* block says, and no other batch claims it, although WriteBlockBatch removes no old
\* entry and an unwind leaves the rows above the stage progress.
THEOREM RpcIndexCoherent ==
    ASSUME Quirks = {}
    PROVE  Spec => []IndexCoherent
<1>1. RpcInv => IndexCoherent
  BY Zenon, IndexFromInv
<1> QED
  BY <1>1, RpcInvariant, PTL

\* rollback goes back to the last block of the batch before the one of the latest common
\* ancestor, whatever the two chains are, if the stream is not cut during the search.
THEOREM RpcUnwindsToBatchBefore ==
    ASSUME Quirks = {}
    PROVE  Spec => UnwindsToBatchBefore
<1> DEFINE Exact ==
      pc = "search" /\ unwindTo' # unwindTo /\ search.cuts = cuts =>
        unwindTo' = Max({0} \cup {n \in 1 .. search.latest :
                      db.blocks[n].batch < db.blocks[CommonAncestor(search.latest)].batch})
<1>1. RpcInv /\ [Next]_vars => [Exact]_vars
  <2>1. RpcInv /\ Next => Exact
    BY Zenon, LeastNat, UnwindsExactly
  <2> QED
    BY Zenon, <2>1
<1> QED
  BY <1>1, RpcInvariant, PTL DEF Spec, UnwindsToBatchBefore
=============================================================================
