--------------------------- MODULE Realtime_proofs ---------------------------
(* The realtime cache, for any number of blocks of any size, any thresholds and any *)
(* number of faults.                                                               *)
EXTENDS Realtime, TLAPS, FiniteSetTheorems, SequenceTheorems, WellFoundedInduction

-----------------------------------------------------------------------------
(* The inductive invariant of the closed blocks, and what the operators that work on *)
(* the cache make of it.                                                           *)

TxBags == UNION {[D -> Nat \ {0}] : D \in SUBSET Nat}

\* The indices of the transactions of block n.
Indices(n) == 0 .. (TxCount[n] - 1)

Messages == [kind : {"new", "tx", "confirmed"}, block : Blocks, index : Int]

Contexts == [num : Blocks, next : Nat, count : Int, txs : TxBags,
             applied : Seq(Messages), linked : BOOLEAN]

\* A block that was worked on has its first changeset and its first transactions.
Partial(c) == c.applied = AppliedUpTo(c.num, c.next)

\* What holds of a block that is open.
ContextOK(c) ==
    /\ IsFiniteSet(DOMAIN c.txs) /\ DOMAIN c.txs \subseteq Indices(c.num)
    /\ c.next <= TxCount[c.num]
    /\ c.count \in {-1, TxCount[c.num]}
    /\ Partial(c) \/ (c.applied = <<>> /\ c.next = 0)

\* The open blocks are in order and come after the closed ones.
Ordered(c) ==
    /\ \A i, j \in DOMAIN c.open : i < j => c.open[i].num < c.open[j].num
    /\ \A i \in DOMAIN c.open : c.confirm < c.open[i].num /\ c.open[i].num <= c.pending
    /\ c.pending # 0 => c.confirm <= c.pending

CacheOK(c) ==
    /\ DOMAIN c = {"confirm", "pending", "global", "blocks", "open"}
    /\ c.confirm \in Nat
    /\ c.pending \in Nat
    /\ c.open \in Seq(Contexts)
    /\ \A i \in DOMAIN c.open : ContextOK(c.open[i])
    /\ Ordered(c)
    /\ \A n \in DOMAIN c.blocks : c.blocks[n] \in [linked : BOOLEAN, applied : {Content(n)}]

\* The block after the closed ones was worked on in this pass.
Handled(c) ==
    \A i \in DOMAIN c.open : c.open[i].num = c.confirm + 1 => Partial(c.open[i])

KafkaOK ==
    /\ DOMAIN kafka = {"new", "confirmed", "txs"}
    /\ kafka.new \subseteq Blocks /\ kafka.confirmed \subseteq Blocks
    /\ kafka.txs \in [Blocks -> TxBags]
    /\ \A n \in Blocks :
         IsFiniteSet(DOMAIN kafka.txs[n]) /\ DOMAIN kafka.txs[n] \subseteq Indices(n)

TopicsOK ==
    /\ topics \in [block : SUBSET BlockTopic, tx : SUBSET TxTopic]
    /\ late \in [block : SUBSET BlockTopic, tx : SUBSET TxTopic]

\* The inductive invariant.
ExactInv ==
    /\ seen \in Nat
    /\ exec \in Nat
    /\ TopicsOK
    /\ KafkaOK
    /\ CacheOK(cache)
    /\ pc = "confirm" => Handled(cache)
-----------------------------------------------------------------------------
(* The operators. *)

\* A non-empty set of naturals has a least element, and Min finds it.
LEMMA MinNat ==
    ASSUME NEW T \in SUBSET Nat, T # {}
    PROVE  Min(T) \in T /\ \A y \in T : Min(T) <= y
<1> DEFINE R == OpToRel(<, Nat)
<1>1. PICK x \in T : \A y \in T : ~ (<<y, x>> \in R)
  BY Zenon, NatLessThanWellFounded, WFMin
<1>2. ASSUME NEW y \in T PROVE x <= y
  <2>1. ~ (y < x)
    BY Zenon, <1>1 DEF OpToRel
  <2> QED
    BY <2>1
<1> QED
  BY Zenon, <1>2 DEF Min

\* A finite set does not hold every number of an interval with more members.
LEMMA Gap ==
    ASSUME NEW H, IsFiniteSet(H), NEW k \in Nat
    PROVE  (k .. (k + Cardinality(H))) \ H # {}
<1> DEFINE top == k + Cardinality(H)
           I == k .. top
<1>1. Cardinality(H) \in Nat
  BY Zenon, FS_CardinalityType
<1>2. top \in Int /\ k \in Int /\ ~ (k > top) /\ top - k + 1 > Cardinality(H)
  BY <1>1
<1> HIDE DEF top
<1>3. Cardinality(I) = top - k + 1
  BY Zenon, <1>2, FS_Interval
<1>4. SUFFICES ASSUME I \subseteq H PROVE FALSE
  BY Zenon DEF top
<1>5. Cardinality(I) <= Cardinality(H)
  BY Zenon, <1>4, FS_Subset
<1> HIDE DEF I
<1> QED
  BY <1>1, <1>2, <1>3, <1>5

\* What is left of a sequence after its first i members.
After(s, i) == SubSeq(s, i + 1, Len(s))

\* Its members are those after i.
LEMMA Suffix ==
    ASSUME NEW S, NEW s \in Seq(S), NEW i \in 1 .. Len(s)
    PROVE  /\ After(s, i) \in Seq(S) /\ Len(After(s, i)) = Len(s) - i
           /\ \A j \in DOMAIN After(s, i) :
                /\ After(s, i)[j] = s[i + j]
                /\ i + j \in DOMAIN s /\ i < i + j /\ j \in Nat
<1> DEFINE t == SubSeq(s, i + 1, Len(s))
           n == Len(s)
<1>1. n \in Nat /\ i \in Nat /\ i <= n /\ \A j \in (i + 1) .. n : s[j] \in S
  OBVIOUS
<1>2. /\ t \in Seq(S)
      /\ Len(t) = IF i + 1 <= n THEN n - (i + 1) + 1 ELSE 0
      /\ \A j \in 1 .. (n - (i + 1) + 1) : t[j] = s[(i + 1) + j - 1]
  BY <1>1, SubSeqProperties
<1> HIDE DEF t, n
<1>3. Len(t) = n - i /\ n - (i + 1) + 1 = n - i
  BY <1>1, <1>2
<1>4. DOMAIN t = 1 .. (n - i)
  BY <1>2, <1>3
<1>5. \A j \in 1 .. (n - i) :
        (i + 1) + j - 1 = i + j /\ i + j \in 1 .. n /\ i < i + j /\ j \in Nat
  BY <1>1
<1>6. DOMAIN s = 1 .. n
  BY DEF n
<1>7. t = After(s, i)
  BY Zenon DEF t, n, After
<1> QED
  BY <1>2, <1>3, <1>4, <1>5, <1>6, <1>7 DEF n

\* No transactions are a finite bag of indices.
LEMMA EmptyBagFacts ==
    EmptyBag \in TxBags /\ IsFiniteSet(DOMAIN EmptyBag) /\ DOMAIN EmptyBag = {}
<1>1. DOMAIN EmptyBag = {} /\ EmptyBag \in [{} -> Nat \ {0}]
  BY Zenon DEF EmptyBag, SetToBag
<1>2. IsFiniteSet({})
  BY Zenon, FS_EmptySet
<1> QED
  BY Zenon, <1>1, <1>2 DEF TxBags

\* Two finite bags of indices make one.
LEMMA JoinedBags ==
    ASSUME NEW a \in TxBags, NEW b \in TxBags, IsFiniteSet(DOMAIN a), IsFiniteSet(DOMAIN b)
    PROVE  /\ a (+) b \in TxBags /\ IsFiniteSet(DOMAIN (a (+) b))
           /\ DOMAIN (a (+) b) = DOMAIN a \union DOMAIN b
<1> DEFINE D == DOMAIN a \union DOMAIN b
<1>1. PICK A \in SUBSET Nat : a \in [A -> Nat \ {0}]
  BY Zenon DEF TxBags
<1>2. PICK B \in SUBSET Nat : b \in [B -> Nat \ {0}]
  BY Zenon DEF TxBags
<1> DEFINE c == a (+) b
<1>3. DOMAIN c = D /\ c = [e \in D |-> c[e]]
  BY Zenon DEF (+)
<1>4. ASSUME NEW e \in D PROVE c[e] \in Nat \ {0}
  BY <1>1, <1>2 DEF (+)
<1>5. IsFiniteSet(D)
  BY Zenon, FS_Union
<1> HIDE DEF c
<1>6. D \in SUBSET Nat /\ c \in [D -> Nat \ {0}]
  BY Zenon, <1>1, <1>2, <1>3, <1>4
<1>7. c \in TxBags /\ IsFiniteSet(DOMAIN c) /\ DOMAIN c = D
  BY Zenon, <1>3, <1>5, <1>6 DEF TxBags
<1> QED
  BY Zenon, <1>7 DEF c

\* One transaction is a finite bag of indices.
LEMMA OneTx ==
    ASSUME NEW x \in Nat
    PROVE  SetToBag({x}) \in TxBags /\ IsFiniteSet(DOMAIN SetToBag({x})) /\ DOMAIN SetToBag({x}) = {x}
<1>1. DOMAIN SetToBag({x}) = {x} /\ SetToBag({x}) \in [{x} -> Nat \ {0}]
  BY DEF SetToBag
<1>2. IsFiniteSet({x})
  BY Zenon, FS_Singleton
<1> QED
  BY Zenon, <1>1, <1>2 DEF TxBags

\* What is applied for a block is a sequence of messages with at least the first one.
LEMMA AppliedType ==
    ASSUME NEW n \in Blocks, NEW k \in Nat
    PROVE  AppliedUpTo(n, k) \in Seq(Messages) /\ AppliedUpTo(n, k) # <<>>
<1> DEFINE a == <<Message("new", n, 0)>>
           b == [i \in 1 .. k |-> Message("tx", n, i - 1)]
<1>1. a \in Seq(Messages) /\ Len(a) = 1
  BY DEF Message, Messages
<1>2. b \in Seq(Messages) /\ Len(b) = k
  BY DEF Message, Messages
<1> HIDE DEF a, b
<1>3. a \o b \in Seq(Messages) /\ Len(a \o b) = Len(a) + Len(b)
  BY Zenon, <1>1, <1>2, ConcatProperties
<1>4. a \o b # <<>>
  BY <1>1, <1>2, <1>3
<1> QED
  BY Zenon, <1>3, <1>4 DEF AppliedUpTo, a, b

\* The next transactions, without a gap, continue what was applied.
LEMMA AppliedContinues ==
    ASSUME NEW n \in Blocks, NEW k \in Nat, NEW e \in Nat, k <= e
    PROVE  AppliedUpTo(n, k) \o [i \in 1 .. (e - k) |-> Message("tx", n, k + i - 1)]
              = AppliedUpTo(n, e)
<1> DEFINE s == <<Message("new", n, 0)>>
           a == [i \in 1 .. k |-> Message("tx", n, i - 1)]
           b == [i \in 1 .. (e - k) |-> Message("tx", n, k + i - 1)]
           c == [i \in 1 .. e |-> Message("tx", n, i - 1)]
<1>1. s \in Seq(Messages) /\ a \in Seq(Messages) /\ b \in Seq(Messages) /\ c \in Seq(Messages)
  BY DEF Message, Messages
<1>2. Len(a) = k /\ Len(b) = e - k /\ Len(c) = e
  OBVIOUS
<1>3. a \o b \in Seq(Messages) /\ Len(a \o b) = e
  BY <1>1, <1>2, ConcatProperties
<1>4. ASSUME NEW i \in 1 .. e PROVE (a \o b)[i] = c[i]
  <2>1. CASE i <= k
    BY <2>1, <1>1, <1>2, ConcatProperties
  <2>2. CASE i > k
    <3>1. (a \o b)[i] = b[i - k] /\ i - k \in 1 .. (e - k)
      BY <2>2, <1>1, <1>2, ConcatProperties
    <3>2. b[i - k] = Message("tx", n, k + (i - k) - 1) /\ k + (i - k) - 1 = i - 1
      BY <3>1
    <3> QED
      BY Zenon, <3>1, <3>2
  <2> QED
    BY <2>1, <2>2
<1>5. a \o b = c
  BY <1>1, <1>2, <1>3, <1>4, SeqEqual
<1>6. (s \o a) \o b = s \o (a \o b)
  BY <1>1, ConcatAssociative
<1> QED
  BY Zenon, <1>5, <1>6 DEF AppliedUpTo

\* The search for the end of the applicable transactions has an answer.
LEMMA EndOfRun ==
    ASSUME NEW H, IsFiniteSet(H), NEW k \in Nat
    PROVE  LET e == Min((k .. (k + Cardinality(H))) \ H)
           IN  e \in Nat /\ k <= e /\ \A x \in Nat \ H : k <= x => e <= x
<1> DEFINE T == (k .. (k + Cardinality(H))) \ H
<1>1. Cardinality(H) \in Nat
  BY Zenon, FS_CardinalityType
<1>2. T \in SUBSET Nat /\ T # {}
  BY <1>1, Gap
<1>3. Min(T) \in T /\ \A y \in T : Min(T) <= y
  BY Zenon, <1>2, MinNat
<1>4. PICK e \in Nat : e = Min(T) /\ k <= e /\ e <= k + Cardinality(H)
  BY <1>1, <1>3
<1>5. ASSUME NEW x \in Nat \ H, k <= x PROVE e <= x
  <2>1. x <= k + Cardinality(H) => x \in T
    BY <1>1, <1>5
  <2>2. x <= k + Cardinality(H) => e <= x
    BY Zenon, <1>3, <1>4, <2>1
  <2> QED
    BY <1>1, <1>4, <2>2
<1> QED
  BY Zenon, <1>4, <1>5

\* A block that was worked on has its transactions up to the next index, in order.
LEMMA AppliedTxsOK ==
    ASSUME NEW ctx \in Contexts, ContextOK(ctx), NEW txs \in TxBags, IsFiniteSet(DOMAIN txs),
           DOMAIN txs \subseteq Indices(ctx.num)
    PROVE  LET c == AppliedTxs(ctx, txs)
           IN  c \in Contexts /\ ContextOK(c) /\ Partial(c) /\ c.num = ctx.num
<1> DEFINE here == BagToSet(txs)
           end == Min((ctx.next .. (ctx.next + Cardinality(here))) \ here)
           start == IF ctx.applied = <<>> THEN <<Message("new", ctx.num, 0)>> ELSE <<>>
           more == [k \in 1 .. (end - ctx.next) |-> Message("tx", ctx.num, ctx.next + k - 1)]
           applied == ctx.applied \o start \o more
           rest == [i \in {j \in here : j > end} |-> txs[i]]
           c == AppliedTxs(ctx, txs)
<1>1. ctx.num \in Blocks /\ ctx.next \in Nat /\ ctx.count \in Int /\ ctx.linked \in BOOLEAN
      /\ ctx.applied \in Seq(Messages)
  BY Zenon DEF Contexts
<1>2. here = DOMAIN txs
  BY Zenon DEF BagToSet
<1>3. end \in Nat /\ ctx.next <= end /\ \A x \in Nat \ here : ctx.next <= x => end <= x
  BY Zenon, <1>1, <1>2, EndOfRun
<1>0. end <= TxCount[ctx.num]
  <2>1. TxCount[ctx.num] \in Nat
    BY <1>1, RealtimeAssumption DEF Blocks
  <2>2. TxCount[ctx.num] \notin Indices(ctx.num)
    BY <2>1 DEF Indices
  <2> QED
    BY Zenon, <1>2, <1>3, <2>1, <2>2 DEF ContextOK
<1>4. rest \in TxBags /\ IsFiniteSet(DOMAIN rest) /\ DOMAIN rest \subseteq Indices(ctx.num)
  <2>1. PICK D \in SUBSET Nat : txs \in [D -> Nat \ {0}]
    BY Zenon DEF TxBags
  <2> DEFINE R == {j \in here : j > end}
  <2>2. R \subseteq here /\ R \in SUBSET Nat /\ IsFiniteSet(R)
    BY Zenon, <1>2, <2>1, FS_Subset
  <2> HIDE DEF R
  <2>3. [i \in R |-> txs[i]] \in [R -> Nat \ {0}] /\ R \subseteq Indices(ctx.num)
    BY Zenon, <1>2, <2>1, <2>2
  <2> HIDE DEF end
  <2> QED
    BY Zenon, <2>2, <2>3 DEF TxBags, R
<1>5. ctx.applied \o start = AppliedUpTo(ctx.num, ctx.next)
  <2>1. CASE ctx.applied = <<>>
    <3>1. ctx.next = 0
      <4>1. AppliedUpTo(ctx.num, ctx.next) # <<>>
        BY Zenon, <1>1, AppliedType
      <4> QED
        BY Zenon, <2>1, <4>1 DEF ContextOK, Partial
    <3> DEFINE a == <<Message("new", ctx.num, 0)>>
               b == [i \in 1 .. 0 |-> Message("tx", ctx.num, i - 1)]
    <3>2. a \in Seq(Messages) /\ b = <<>>
      BY <1>1 DEF Message, Messages
    <3>3. <<>> \o a = a /\ a \o <<>> = a
      BY Zenon, <3>2, ConcatEmptySeq
    <3>4. AppliedUpTo(ctx.num, 0) = a
      BY Zenon, <3>2, <3>3 DEF AppliedUpTo
    <3> QED
      BY Zenon, <2>1, <3>1, <3>3, <3>4
  <2>2. CASE ctx.applied # <<>>
    <3>1. ctx.applied = AppliedUpTo(ctx.num, ctx.next)
      BY Zenon, <2>2 DEF ContextOK, Partial
    <3>2. ctx.applied \o <<>> = ctx.applied
      BY Zenon, <1>1, ConcatEmptySeq
    <3> QED
      BY Zenon, <2>2, <3>1, <3>2
  <2> QED
    BY Zenon, <2>1, <2>2
<1> HIDE DEF end, start, rest
<1>6. applied = AppliedUpTo(ctx.num, end)
  BY Zenon, <1>1, <1>3, <1>5, AppliedContinues
<1>7. c = [ctx EXCEPT !.applied = applied, !.next = end, !.txs = rest]
  BY Zenon DEF AppliedTxs, end, start, rest
<1>8. applied \in Seq(Messages)
  BY Zenon, <1>1, <1>3, <1>6, AppliedType
<1> HIDE DEF applied, c
<1>9. /\ c \in Contexts
      /\ c.num = ctx.num /\ c.next = end /\ c.count = ctx.count
      /\ c.applied = applied /\ c.txs = rest
  BY Zenon, <1>1, <1>3, <1>4, <1>7, <1>8 DEF Contexts
<1>10. ContextOK(c) /\ Partial(c)
  BY Zenon, <1>0, <1>4, <1>6, <1>9 DEF ContextOK, Partial
<1> QED
  BY Zenon, <1>9, <1>10 DEF c
-----------------------------------------------------------------------------
(* What the steps make of the cache. *)

\* A cleared or newly initialised cache satisfies its part of the invariant.
LEMMA EmptyCacheOK ==
    ASSUME NEW h \in Nat
    PROVE  CacheOK(EmptyCache) /\ CacheOK([EmptyCache EXCEPT !.global = h, !.confirm = h])
<1>1. EmptyCache.open = <<>> /\ <<>> \in Seq(Contexts) /\ DOMAIN <<>> = {}
  BY DEF EmptyCache
<1> QED
  BY Zenon, <1>1 DEF CacheOK, Ordered, EmptyCache

\* An open block is a context, numbered above the closed ones.
LEMMA OpenBlock ==
    ASSUME CacheOK(cache), NEW i \in DOMAIN cache.open
    PROVE  /\ cache.open[i] \in Contexts
           /\ cache.open[i].num \in Nat
           /\ cache.confirm < cache.open[i].num
           /\ cache.open[i].num <= cache.pending
<1>1. cache.open \in Seq(Contexts)
  BY Zenon DEF CacheOK
<1>2. cache.open[i] \in Contexts
  BY <1>1
<1>3. cache.open[i].num \in Nat
  BY <1>2 DEF Contexts, Blocks
<1> QED
  BY Zenon, <1>2, <1>3 DEF CacheOK, Ordered

\* Closing a block: all its transactions are applied.
LEMMA ClosedOK ==
    ASSUME CacheOK(cache), NEW i \in DOMAIN cache.open,
           NEW ctx \in Contexts, ContextOK(ctx), Partial(ctx),
           ctx.num = cache.open[i].num, CanClose(ctx)
    PROVE  CacheOK(Closed(i, ctx))
<1> DEFINE n == ctx.num
           state == [linked |-> ctx.linked, applied |-> Append(ctx.applied, Message("confirmed", n, 1))]
           blocks == [m \in DOMAIN cache.blocks \union {n} |-> IF m = n THEN state ELSE cache.blocks[m]]
           open == After(cache.open, i)
           c == Closed(i, ctx)
<1>1. n \in Blocks /\ ctx.linked \in BOOLEAN /\ ctx.applied \in Seq(Messages)
      /\ ctx.next \in Nat /\ ctx.count \in Int
  BY Zenon DEF Contexts
<1>2. ctx.next = TxCount[n]
  BY <1>1 DEF CanClose, ContextOK
<1>3. Append(ctx.applied, Message("confirmed", n, 1)) = Content(n)
  <2>1. ctx.applied = AppliedUpTo(n, TxCount[n])
    BY Zenon, <1>2 DEF Partial
  <2>2. Message("confirmed", n, 1) \in Messages
    BY <1>1 DEF Message, Messages
  <2>3. Append(ctx.applied, Message("confirmed", n, 1)) = ctx.applied \o <<Message("confirmed", n, 1)>>
    BY Zenon, <1>1, <2>2, AppendIsConcat
  <2> QED
    BY Zenon, <2>1, <2>3 DEF Content
<1>4. state \in [linked : BOOLEAN, applied : {Content(n)}]
  BY Zenon, <1>1, <1>3
<1> HIDE DEF state
<1>5. ASSUME NEW m \in DOMAIN blocks
      PROVE  blocks[m] \in [linked : BOOLEAN, applied : {Content(m)}]
  <2>1. CASE m = n
    BY Zenon, <1>4, <2>1
  <2>2. CASE m # n
    <3>1. m \in DOMAIN cache.blocks /\ blocks[m] = cache.blocks[m]
      BY Zenon, <2>2
    <3> QED
      BY Zenon, <3>1 DEF CacheOK
  <2> QED
    BY Zenon, <2>1, <2>2
<1>6. cache.open \in Seq(Contexts) /\ DOMAIN cache.open = 1 .. Len(cache.open) /\ Len(cache.open) \in Nat
  BY DEF CacheOK
<1>7. i \in 1 .. Len(cache.open)
  BY Zenon, <1>6
<1> HIDE DEF blocks
<1>8. /\ open \in Seq(Contexts)
      /\ \A j \in DOMAIN open :
           open[j] = cache.open[i + j] /\ i + j \in DOMAIN cache.open /\ i < i + j /\ j \in Nat
  BY Zenon, <1>6, <1>7, Suffix
<1> HIDE DEF open
<1>9. c = [cache EXCEPT !.blocks = blocks, !.open = open, !.confirm = n]
  BY Zenon DEF Closed, After, open, blocks, state
<1>10. /\ DOMAIN c = {"confirm", "pending", "global", "blocks", "open"}
       /\ c.blocks = blocks /\ c.open = open /\ c.confirm = n /\ c.pending = cache.pending
  BY Zenon, <1>9 DEF CacheOK
<1> HIDE DEF c
<1>11. n \in Nat
  BY <1>1 DEF Blocks
<1>12. \A j \in DOMAIN c.open : ContextOK(c.open[j])
  BY Zenon, <1>8, <1>10 DEF CacheOK
<1>13. Ordered(c)
  <2>1. ASSUME NEW j \in DOMAIN c.open, NEW k \in DOMAIN c.open, j < k
        PROVE  c.open[j].num < c.open[k].num
    <3>1. j \in DOMAIN open /\ k \in DOMAIN open /\ i + j < i + k
      BY <1>7, <1>8, <1>10, <2>1
    <3> QED
      BY <1>8, <1>10, <3>1 DEF CacheOK, Ordered
  <2>2. ASSUME NEW j \in DOMAIN c.open
        PROVE  n < c.open[j].num /\ c.open[j].num <= c.pending
    BY Zenon, <1>8, <1>10 DEF CacheOK, Ordered
  <2>3. n <= cache.pending
    BY Zenon DEF CacheOK, Ordered
  <2> QED
    BY Zenon, <1>10, <2>1, <2>2, <2>3 DEF Ordered
<1>14. CacheOK(c)
  BY <1>5, <1>8, <1>10, <1>11, <1>12, <1>13 DEF CacheOK
<1> QED
  BY Zenon, <1>14 DEF c

\* Storing a block again, with its number kept.
LEMMA StoredOK ==
    ASSUME CacheOK(cache), NEW i \in DOMAIN cache.open,
           NEW ctx \in Contexts, ContextOK(ctx), ctx.num = cache.open[i].num
    PROVE  LET c == [cache EXCEPT !.open[i] = ctx]
           IN  /\ CacheOK(c)
               /\ Partial(ctx) /\ ctx.num = cache.confirm + 1 => Handled(c)
<1> DEFINE c == [cache EXCEPT !.open[i] = ctx]
<1>1. cache.open \in Seq(Contexts) /\ DOMAIN cache.open = 1 .. Len(cache.open)
  BY DEF CacheOK
<1>2. /\ DOMAIN c = {"confirm", "pending", "global", "blocks", "open"}
      /\ c.confirm = cache.confirm /\ c.pending = cache.pending /\ c.blocks = cache.blocks
      /\ c.open = [cache.open EXCEPT ![i] = ctx]
  BY Zenon DEF CacheOK
<1>3. c.open \in Seq(Contexts) /\ DOMAIN c.open = DOMAIN cache.open
  BY <1>1, <1>2
<1>4. \A j \in DOMAIN cache.open : c.open[j] = IF j = i THEN ctx ELSE cache.open[j]
  BY Zenon, <1>1, <1>2
<1> HIDE DEF c
<1>5. \A j \in DOMAIN cache.open : c.open[j].num = cache.open[j].num /\ ContextOK(c.open[j])
  BY Zenon, <1>4 DEF CacheOK
<1>6. Ordered(c)
  BY <1>2, <1>3, <1>5 DEF CacheOK, Ordered
<1>7. CacheOK(c)
  BY Zenon, <1>2, <1>3, <1>5, <1>6 DEF CacheOK
<1>8. ASSUME Partial(ctx), ctx.num = cache.confirm + 1 PROVE Handled(c)
  <2>1. ASSUME NEW j \in DOMAIN c.open, c.open[j].num = c.confirm + 1 PROVE j = i
    <3>1. i \in Nat /\ j \in Nat /\ cache.open[j].num = cache.open[i].num
      BY <1>1, <1>2, <1>3, <1>5, <1>8, <2>1
    <3>2. cache.open[i].num \in Nat
      BY Zenon, OpenBlock
    <3>3. ~ (i < j) /\ ~ (j < i)
      BY <1>3, <3>1, <3>2 DEF CacheOK, Ordered
    <3> QED
      BY <3>1, <3>3
  <2> QED
    BY Zenon, <1>3, <1>4, <1>8, <2>1 DEF Handled
<1> QED
  BY Zenon, <1>7, <1>8 DEF c

\* Opening the next block.
LEMMA OpenedOK ==
    ASSUME CacheOK(cache), NextHeight \in Blocks
    PROVE  CacheOK(Opened(NextHeight))
<1> DEFINE n == NextHeight
           ctx == [num |-> n, next |-> 0, count |-> -1, txs |-> EmptyBag, applied |-> <<>>,
                   linked |-> n - 1 # cache.confirm \/ n - 1 \in DOMAIN cache.blocks]
           open == Append(cache.open, ctx)
           c == Opened(n)
<1>0. TxCount[n] \in Nat /\ 0 <= TxCount[n]
  BY RealtimeAssumption DEF Blocks
<1>1. ctx \in Contexts /\ ContextOK(ctx) /\ ctx.num = n
  BY <1>0, EmptyBagFacts DEF Contexts, ContextOK
<1>2. c = [cache EXCEPT !.open = open, !.pending = n]
  BY Zenon DEF Opened
<1> HIDE DEF ctx
<1>3. cache.open \in Seq(Contexts) /\ DOMAIN cache.open = 1 .. Len(cache.open) /\ Len(cache.open) \in Nat
  BY DEF CacheOK
<1>4. /\ open \in Seq(Contexts) /\ DOMAIN open = 1 .. (Len(cache.open) + 1)
      /\ \A j \in DOMAIN cache.open : open[j] = cache.open[j]
      /\ open[Len(cache.open) + 1] = ctx
  BY <1>1, <1>3
<1> HIDE DEF open
<1>5. /\ DOMAIN c = {"confirm", "pending", "global", "blocks", "open"}
      /\ c.confirm = cache.confirm /\ c.pending = n /\ c.blocks = cache.blocks /\ c.open = open
  BY Zenon, <1>2 DEF CacheOK
<1> HIDE DEF c
<1>6. n \in Nat /\ cache.confirm \in Nat /\ cache.pending \in Nat
  BY DEF Blocks, CacheOK
<1>7. cache.confirm < n /\ \A j \in DOMAIN cache.open : cache.open[j].num < n
  <2>1. cache.confirm < n /\ cache.pending < n
    BY <1>6 DEF NextHeight, CacheOK, Ordered
  <2>2. ASSUME NEW j \in DOMAIN cache.open PROVE cache.open[j].num < n
    <3>1. cache.open[j].num \in Nat /\ cache.open[j].num <= cache.pending
      BY Zenon, OpenBlock
    <3> QED
      BY <1>6, <2>1, <3>1
  <2> QED
    BY Zenon, <2>1, <2>2
<1>8. ASSUME NEW j \in DOMAIN c.open
      PROVE  /\ ContextOK(c.open[j])
             /\ IF j \in DOMAIN cache.open THEN c.open[j] = cache.open[j]
                                           ELSE j = Len(cache.open) + 1 /\ c.open[j] = ctx
  BY <1>1, <1>3, <1>4, <1>5 DEF CacheOK
<1>9. Ordered(c)
  <2>1. ASSUME NEW j \in DOMAIN c.open, NEW k \in DOMAIN c.open, j < k
        PROVE  c.open[j].num < c.open[k].num
    <3>1. j \in DOMAIN cache.open
      BY <1>3, <1>4, <1>5, <2>1
    <3>2. CASE k \in DOMAIN cache.open
      BY Zenon, <1>8, <2>1, <3>1, <3>2 DEF CacheOK, Ordered
    <3>3. CASE k \notin DOMAIN cache.open
      BY Zenon, <1>1, <1>7, <1>8, <3>1, <3>3
    <3> QED
      BY Zenon, <3>2, <3>3
  <2>2. ASSUME NEW j \in DOMAIN c.open
        PROVE  c.confirm < c.open[j].num /\ c.open[j].num <= c.pending
    <3>1. CASE j \in DOMAIN cache.open
      <4>1. cache.open[j].num \in Nat /\ cache.confirm < cache.open[j].num /\ cache.open[j].num < n
        BY Zenon, <1>7, <3>1, OpenBlock
      <4> QED
        BY <1>5, <1>6, <1>8, <3>1, <4>1
    <3>2. CASE j \notin DOMAIN cache.open
      BY <1>1, <1>5, <1>6, <1>7, <1>8, <3>2
    <3> QED
      BY Zenon, <3>1, <3>2
  <2> QED
    BY <1>5, <1>6, <1>7, <2>1, <2>2 DEF Ordered
<1>10. CacheOK(c)
  BY Zenon, <1>4, <1>5, <1>6, <1>8, <1>9 DEF CacheOK
<1> QED
  BY Zenon, <1>10 DEF c

\* Flushing drops closed blocks and cuts links; nothing that was applied changes.
LEMMA FlushBlockOK ==
    ASSUME CacheOK(cache), NEW h
    PROVE  CacheOK(FlushBlock(h)) /\ (Handled(cache) => Handled(FlushBlock(h)))
<1> DEFINE to == FlushedTo(h)
           blocks == [m \in {k \in DOMAIN cache.blocks : k > to} |->
                        IF m = to + 1 THEN [cache.blocks[m] EXCEPT !.linked = FALSE] ELSE cache.blocks[m]]
           open == [i \in DOMAIN cache.open |->
                        IF cache.open[i].num = to + 1 THEN [cache.open[i] EXCEPT !.linked = FALSE]
                                                      ELSE cache.open[i]]
           c == [cache EXCEPT !.global = to, !.blocks = blocks, !.open = open]
<1>1. FlushBlock(h) = cache \/ FlushBlock(h) = c
  BY Zenon DEF FlushBlock
<1> HIDE DEF to
<1>2. cache.open \in Seq(Contexts) /\ DOMAIN cache.open = 1 .. Len(cache.open) /\ Len(cache.open) \in Nat
  BY DEF CacheOK
<1>3. ASSUME NEW i \in DOMAIN cache.open
      PROVE  /\ open[i] \in Contexts
             /\ open[i].num = cache.open[i].num /\ open[i].next = cache.open[i].next
             /\ open[i].count = cache.open[i].count /\ open[i].txs = cache.open[i].txs
             /\ open[i].applied = cache.open[i].applied
  <2>1. cache.open[i] \in Contexts
    BY <1>2
  <2> QED
    BY Zenon, <2>1 DEF Contexts
<1>4. ASSUME NEW m \in DOMAIN blocks
      PROVE  blocks[m] \in [linked : BOOLEAN, applied : {Content(m)}]
  <2>1. m \in DOMAIN cache.blocks /\ cache.blocks[m] \in [linked : BOOLEAN, applied : {Content(m)}]
    BY Zenon DEF CacheOK
  <2> QED
    BY Zenon, <2>1
<1>5. DOMAIN open = DOMAIN cache.open
  OBVIOUS
<1>6. open \in Seq(Contexts)
  <2>1. open \in [1 .. Len(cache.open) -> Contexts]
    BY Zenon, <1>2, <1>3
  <2> HIDE DEF open
  <2> QED
    BY <1>2, <2>1
<1> HIDE DEF open, blocks
<1>7. /\ DOMAIN c = {"confirm", "pending", "global", "blocks", "open"}
      /\ c.confirm = cache.confirm /\ c.pending = cache.pending /\ c.blocks = blocks /\ c.open = open
  BY Zenon DEF CacheOK
<1> HIDE DEF c
<1>8. \A i \in DOMAIN c.open : ContextOK(c.open[i])
  BY <1>3, <1>5, <1>7 DEF CacheOK, ContextOK, Partial
<1>9. Ordered(c)
  BY Zenon, <1>3, <1>5, <1>7 DEF CacheOK, Ordered
<1>10. CacheOK(c)
  BY Zenon, <1>4, <1>6, <1>7, <1>8, <1>9 DEF CacheOK
<1>11. Handled(cache) => Handled(c)
  BY <1>3, <1>5, <1>7 DEF Handled, Partial
<1> QED
  BY Zenon, <1>1, <1>10, <1>11

-----------------------------------------------------------------------------
(* A closed block is the sequencer's block.                                        *)

(* What the steps make of the Kafka cache. *)

\* What may arrive on a topic.
Arriving(t, m) == IF t = "block" THEN m \in BlockTopic ELSE m \in TxTopic

\* The messages are about blocks and their transactions.
LEMMA MessageFacts ==
    /\ \A m \in BlockTopic : m.block \in Blocks
    /\ \A m \in TxTopic : m.block \in Blocks /\ m.index \in Nat /\ m.index \in Indices(m.block)
<1>1. ASSUME NEW m \in BlockTopic PROVE m.block \in Blocks
  <2>1. \/ m \in {Message("new", n, 0) : n \in Blocks}
        \/ m \in {Message("confirmed", n, 1) : n \in Blocks}
    BY Zenon DEF BlockTopic
  <2>2. PICK n \in Blocks : m = Message("new", n, 0) \/ m = Message("confirmed", n, 1)
    BY Zenon, <2>1
  <2> QED
    BY <2>2 DEF Message
<1>2. ASSUME NEW m \in TxTopic
      PROVE  m.block \in Blocks /\ m.index \in Nat /\ m.index \in Indices(m.block)
  <2>1. PICK n \in Blocks : m \in {Message("tx", n, i) : i \in 0 .. (TxCount[n] - 1)}
    BY Zenon DEF TxTopic
  <2>2. PICK i \in 0 .. (TxCount[n] - 1) : m = Message("tx", n, i)
    BY Zenon, <2>1
  <2>3. TxCount[n] \in Nat
    BY RealtimeAssumption DEF Blocks
  <2>4. i \in Nat
    BY <2>3
  <2> QED
    BY Zenon, <2>2, <2>4 DEF Message, Indices
<1> QED
  BY Zenon, <1>1, <1>2

\* Filing a message keeps the Kafka cache well-formed.
LEMMA FileOK ==
    ASSUME KafkaOK, NEW t \in {"block", "tx"}, NEW m, Arriving(t, m), kafka' = File(t, m)
    PROVE  KafkaOK'
<1>1. CASE kafka' = kafka
  BY Zenon, <1>1 DEF KafkaOK
<1>2. CASE t = "block" /\ kafka' = [kafka EXCEPT !.new = @ \union {m.block}]
  <2>1. m.block \in Blocks
    BY Zenon, <1>2, MessageFacts DEF Arriving
  <2> QED
    BY Zenon, <1>2, <2>1 DEF KafkaOK
<1>3. CASE t = "block" /\ kafka' = [kafka EXCEPT !.confirmed = @ \union {m.block}]
  <2>1. m.block \in Blocks
    BY Zenon, <1>3, MessageFacts DEF Arriving
  <2> QED
    BY Zenon, <1>3, <2>1 DEF KafkaOK
<1>4. CASE t = "tx" /\ kafka' = [kafka EXCEPT !.txs[m.block] = @ (+) SetToBag({m.index})]
  <2> DEFINE one == SetToBag({m.index})
             n == m.block
  <2>1. n \in Blocks /\ m.index \in Nat /\ m.index \in Indices(n)
    BY Zenon, <1>4, MessageFacts DEF Arriving
  <2>2. one \in TxBags /\ IsFiniteSet(DOMAIN one) /\ DOMAIN one \subseteq Indices(n)
    BY Zenon, <2>1, OneTx
  <2> HIDE DEF one, n
  <2>0. /\ kafka.txs[n] \in TxBags /\ IsFiniteSet(DOMAIN kafka.txs[n])
        /\ DOMAIN kafka.txs[n] \subseteq Indices(n)
    BY Zenon, <2>1 DEF KafkaOK
  <2>3. /\ kafka.txs[n] (+) one \in TxBags /\ IsFiniteSet(DOMAIN (kafka.txs[n] (+) one))
        /\ DOMAIN (kafka.txs[n] (+) one) \subseteq Indices(n)
    <3>1. /\ kafka.txs[n] (+) one \in TxBags /\ IsFiniteSet(DOMAIN (kafka.txs[n] (+) one))
          /\ DOMAIN (kafka.txs[n] (+) one) = DOMAIN kafka.txs[n] \union DOMAIN one
      BY Zenon, <2>0, <2>2, JoinedBags
    <3> QED
      BY Zenon, <2>0, <2>2, <3>1
  <2>4. /\ DOMAIN kafka' = DOMAIN kafka /\ kafka'.new = kafka.new
        /\ kafka'.confirmed = kafka.confirmed
        /\ kafka'.txs = [kafka.txs EXCEPT ![n] = kafka.txs[n] (+) one]
    BY Zenon, <1>4 DEF KafkaOK, one, n
  <2>5. \A b \in Blocks : kafka'.txs[b] = IF b = n THEN kafka.txs[n] (+) one ELSE kafka.txs[b]
    BY Zenon, <2>4 DEF KafkaOK
  <2>6. kafka'.txs \in [Blocks -> TxBags]
    BY Zenon, <2>3, <2>4, <2>5 DEF KafkaOK
  <2>7. \A b \in Blocks :
          IsFiniteSet(DOMAIN kafka'.txs[b]) /\ DOMAIN kafka'.txs[b] \subseteq Indices(b)
    BY Zenon, <2>3, <2>5 DEF KafkaOK
  <2> QED
    BY Zenon, <2>4, <2>6, <2>7 DEF KafkaOK
<1> QED
  BY <1>1, <1>2, <1>3, <1>4 DEF File

\* A message is passed on, or kept to arrive late.
LEMMA TopicsStep ==
    ASSUME TopicsOK, NEW t \in {"block", "tx"},
           \/ topics' = topics
           \/ \E m : topics' = [topics EXCEPT ![t] = @ \ {m}],
           \/ late' = late
           \/ \E m : late' = [late EXCEPT ![t] = @ \ {m}]
           \/ \E m : Arriving(t, m) /\ late' = [late EXCEPT ![t] = @ \union {m}]
    PROVE  TopicsOK'
<1> DEFINE R == [block : SUBSET BlockTopic, tx : SUBSET TxTopic]
<1>1. topics \in R /\ late \in R
  BY Zenon DEF TopicsOK
<1>2. ASSUME NEW x \in R, NEW m PROVE [x EXCEPT ![t] = @ \ {m}] \in R
  OBVIOUS
<1>3. ASSUME NEW x \in R, NEW m, Arriving(t, m) PROVE [x EXCEPT ![t] = @ \union {m}] \in R
  BY <1>3 DEF Arriving
<1> HIDE DEF R
<1>4. topics' \in R /\ late' \in R
  BY Zenon, <1>1, <1>2, <1>3
<1> QED
  BY Zenon, <1>4 DEF TopicsOK, R
-----------------------------------------------------------------------------
(* The invariant. *)

\* The invariant holds at the start.
LEMMA InitExact == Init => ExactInv
<1> SUFFICES ASSUME Init PROVE ExactInv
  OBVIOUS
<1>1. TopicsOK
  BY Zenon DEF Init, TopicsOK
<1>2. KafkaOK
  BY Zenon, EmptyBagFacts DEF Init, KafkaOK, EmptyKafka
<1>3. CacheOK(cache)
  BY Zenon, EmptyCacheOK DEF Init
<1> QED
  BY Zenon, <1>1, <1>2, <1>3 DEF Init, ExactInv

\* The listener's steps.
LEMMA ListenerExact ==
    ASSUME ExactInv, NEW t \in {"block", "tx"},
           Receive(t) \/ ReceiveLate(t) \/ ReceiveTrigger \/ Delay(t) \/ Repeat(t)
    PROVE  ExactInv'
<1>1. UNCHANGED <<cache, pc, seen, exec>>
  BY Zenon DEF Receive, ReceiveLate, ReceiveTrigger, Delay, Repeat
<1>2. TopicsOK' /\ KafkaOK'
  <2>1. TopicsOK /\ KafkaOK
    BY Zenon DEF ExactInv
  <2>0. \A m \in topics[t] : Arriving(t, m)
    BY Zenon, <2>1 DEF TopicsOK, Arriving
  <2>2. CASE Receive(t)
    <3>1. PICK m \in topics[t] : topics' = [topics EXCEPT ![t] = @ \ {m}] /\ kafka' = File(t, m)
      BY Zenon, <2>2 DEF Receive
    <3>2. late' = late /\ Arriving(t, m)
      BY Zenon, <2>0, <2>2 DEF Receive
    <3> QED
      BY Zenon, <2>1, <3>1, <3>2, TopicsStep, FileOK
  <2>3. CASE ReceiveLate(t)
    <3>1. PICK m \in late[t] : late' = [late EXCEPT ![t] = @ \ {m}] /\ kafka' = File(t, m)
      BY Zenon, <2>3 DEF ReceiveLate
    <3>2. Arriving(t, m)
      BY Zenon, <2>1 DEF TopicsOK, Arriving
    <3>3. topics' = topics
      BY Zenon, <2>3 DEF ReceiveLate
    <3> QED
      BY Zenon, <2>1, <3>1, <3>2, <3>3, TopicsStep, FileOK
  <2>4. CASE ReceiveTrigger
    BY Zenon, <2>1, <2>4 DEF ReceiveTrigger, TopicsOK, KafkaOK
  <2>5. CASE Delay(t)
    <3>1. PICK m \in topics[t] : /\ topics' = [topics EXCEPT ![t] = @ \ {m}]
                                 /\ late' = [late EXCEPT ![t] = @ \union {m}]
      BY Zenon, <2>5 DEF Delay
    <3>2. kafka' = kafka /\ Arriving(t, m)
      BY Zenon, <2>0, <2>5 DEF Delay
    <3>3. TopicsOK'
      BY Zenon, <2>1, <3>1, <3>2, TopicsStep
    <3> QED
      BY Zenon, <2>1, <3>2, <3>3 DEF KafkaOK
  <2>6. CASE Repeat(t)
    <3>1. PICK m \in topics[t] : /\ topics' = [topics EXCEPT ![t] = @ \ {m}]
                                 /\ late' = [late EXCEPT ![t] = @ \union {m}]
                                 /\ kafka' = File(t, m)
      BY Zenon, <2>6 DEF Repeat
    <3>2. Arriving(t, m)
      BY Zenon, <2>0
    <3> QED
      BY Zenon, <2>1, <3>1, <3>2, TopicsStep, FileOK
  <2> QED
    BY <2>2, <2>3, <2>4, <2>5, <2>6
<1> QED
  BY Zenon, <1>1, <1>2 DEF ExactInv

\* An execution or an unwind.
LEMMA FinishExact ==
    ASSUME ExactInv, NEW h \in Blocks, Finish(h)
    PROVE  ExactInv'
<1>1. UNCHANGED <<topics, late, kafka, pc, seen>> /\ exec' = Max({exec, h})
      /\ (cache' = cache \/ cache' = FlushBlock(h - HeightThreshold))
  BY Zenon DEF Finish
<1>2. exec' \in Nat
  <2>1. exec \in Nat /\ h \in Nat
    BY DEF ExactInv, Blocks
  <2>2. exec' \in {exec, h}
    BY <1>1, <2>1 DEF Max
  <2> QED
    BY Zenon, <2>1, <2>2
<1>3. CacheOK(cache') /\ (Handled(cache) => Handled(cache'))
  BY Zenon, <1>1, FlushBlockOK DEF ExactInv
<1> QED
  BY Zenon, <1>1, <1>2, <1>3 DEF ExactInv, TopicsOK, KafkaOK

\* The steps that apply messages.
LEMMA OpenExact ==
    ASSUME ExactInv, TryApplyNewBlockMsg
    PROVE  ExactInv'
<1>1. UNCHANGED <<topics, late, exec, seen>> /\ pc' = "handle"
  BY Zenon DEF TryApplyNewBlockMsg
<1>2. CacheOK(cache) /\ KafkaOK
  BY Zenon DEF ExactInv
<1>3. CASE NextHeight \notin kafka.new
  BY Zenon, <1>1, <1>2, <1>3 DEF TryApplyNewBlockMsg, ExactInv, TopicsOK, KafkaOK
<1>4. CASE NextHeight \in kafka.new
  <2>1. kafka' = [kafka EXCEPT !.new = {m \in @ : m > NextHeight}]
        /\ (cache' = cache \/ cache' = Opened(NextHeight))
    BY Zenon, <1>4 DEF TryApplyNewBlockMsg
  <2>2. KafkaOK'
    BY Zenon, <1>2, <2>1 DEF KafkaOK
  <2>3. CacheOK(cache')
    BY <1>2, <1>4, <2>1, OpenedOK DEF KafkaOK
  <2> QED
    BY <1>1, <2>2, <2>3 DEF ExactInv, TopicsOK
<1> QED
  BY Zenon, <1>3, <1>4

\* The block after the closed ones is worked on, and closed if it is complete.
LEMMA HandleExact ==
    ASSUME ExactInv, HandlePendingBlocks
    PROVE  ExactInv'
<1>1. UNCHANGED <<topics, late, exec, seen>>
  BY Zenon DEF HandlePendingBlocks
<1>2. CacheOK(cache) /\ KafkaOK
  BY Zenon DEF ExactInv
<1>3. cache.open \in Seq(Contexts) /\ DOMAIN cache.open = 1 .. Len(cache.open) /\ Len(cache.open) \in Nat
  BY <1>2 DEF CacheOK
<1>4. cache.open # <<>> => 1 \in DOMAIN cache.open /\ Head(cache.open) = cache.open[1]
  BY <1>3
<1>5. CASE cache.open = <<>> \/ Head(cache.open).num # cache.confirm + 1
  <2>1. UNCHANGED <<kafka, cache>>
    BY Zenon, <1>5 DEF HandlePendingBlocks
  <2>2. Handled(cache)
    <3>1. ASSUME NEW i \in DOMAIN cache.open, cache.open[i].num = cache.confirm + 1 PROVE FALSE
      <4>1. i \in Nat /\ 1 \in DOMAIN cache.open /\ 1 < i
        BY <1>3, <1>4, <1>5, <3>1
      <4>2. cache.open[1].num < cache.open[i].num
        BY Zenon, <1>2, <4>1 DEF CacheOK, Ordered
      <4>3. cache.open[1].num \in Nat /\ cache.confirm < cache.open[1].num
        BY Zenon, <1>2, <4>1, OpenBlock
      <4> QED
        BY <1>2, <3>1, <4>2, <4>3 DEF CacheOK
    <3> QED
      BY Zenon, <3>1 DEF Handled
  <2> QED
    BY Zenon, <1>1, <2>1, <2>2 DEF ExactInv, TopicsOK, KafkaOK
<1>6. CASE ~ (cache.open = <<>> \/ Head(cache.open).num # cache.confirm + 1)
  <2> DEFINE n == Head(cache.open).num
             txs == Head(cache.open).txs (+) kafka.txs[n]
             ctx == AppliedTxs(Head(cache.open), txs)
  <2>1. /\ kafka' = [kafka EXCEPT !.txs[n] = EmptyBag]
        /\ cache' = TryCloseBlock(1, ctx)
        /\ pc' = IF CanClose(ctx) THEN "handle" ELSE "confirm"
    BY Zenon, <1>6 DEF HandlePendingBlocks
  <2>2. /\ 1 \in DOMAIN cache.open /\ Head(cache.open) = cache.open[1]
        /\ cache.open[1].num = cache.confirm + 1
    BY Zenon, <1>4, <1>6
  <2>3. cache.open[1] \in Contexts /\ ContextOK(cache.open[1])
    BY <1>2, <2>2, OpenBlock DEF CacheOK
  <2>4. /\ n \in Blocks /\ cache.open[1].txs \in TxBags /\ n = cache.open[1].num
        /\ IsFiniteSet(DOMAIN cache.open[1].txs) /\ DOMAIN cache.open[1].txs \subseteq Indices(n)
    BY Zenon, <2>2, <2>3 DEF Contexts, ContextOK
  <2> HIDE DEF n
  <2>5. /\ kafka.txs[n] \in TxBags /\ IsFiniteSet(DOMAIN kafka.txs[n])
        /\ DOMAIN kafka.txs[n] \subseteq Indices(n)
    BY Zenon, <1>2, <2>4 DEF KafkaOK
  <2>6. txs \in TxBags /\ IsFiniteSet(DOMAIN txs) /\ DOMAIN txs \subseteq Indices(n)
    BY Zenon, <2>2, <2>4, <2>5, JoinedBags
  <2> HIDE DEF txs
  <2>7. ctx \in Contexts /\ ContextOK(ctx) /\ Partial(ctx) /\ ctx.num = cache.open[1].num
    BY Zenon, <2>2, <2>3, <2>4, <2>6, AppliedTxsOK
  <2> HIDE DEF ctx
  <2>8. CacheOK(cache') /\ (pc' = "confirm" => Handled(cache'))
    <3>1. CASE CanClose(ctx)
      BY <1>2, <2>1, <2>2, <2>7, <3>1, ClosedOK DEF TryCloseBlock
    <3>2. CASE ~ CanClose(ctx)
      <4>1. cache' = [cache EXCEPT !.open[1] = ctx]
        BY Zenon, <2>1, <3>2 DEF TryCloseBlock
      <4> QED
        BY <1>2, <2>2, <2>7, <4>1, StoredOK
    <3> QED
      BY Zenon, <3>1, <3>2
  <2>9. KafkaOK'
    BY <1>2, <2>1, <2>4, EmptyBagFacts DEF KafkaOK
  <2> QED
    BY <1>1, <2>8, <2>9 DEF ExactInv, TopicsOK
<1> QED
  BY Zenon, <1>5, <1>6

\* A confirmed-block message gives the count; the block was worked on in this pass.
LEMMA ConfirmExact ==
    ASSUME ExactInv, TryCloseFromConfirmed
    PROVE  ExactInv'
<1>1. UNCHANGED <<topics, late, exec>> /\ pc = "confirm" /\ pc' = "top" /\ seen' = 0
  BY Zenon DEF TryCloseFromConfirmed
<1>2. CacheOK(cache) /\ KafkaOK /\ Handled(cache)
  BY Zenon, <1>1 DEF ExactInv
<1> DEFINE at == {i \in DOMAIN cache.open : cache.open[i].num = seen}
           i == Min(at)
           ctx == [cache.open[i] EXCEPT !.count = TxCount[seen]]
<1>3. CASE UNCHANGED <<kafka, cache>>
  BY Zenon, <1>1, <1>2, <1>3 DEF ExactInv, TopicsOK, KafkaOK
<1>4. CASE /\ at # {}
           /\ cache' = TryCloseBlock(i, ctx)
           /\ kafka' = [kafka EXCEPT !.confirmed = {m \in @ : m > seen}]
  <2>1. at \in SUBSET Nat
    BY <1>2 DEF CacheOK
  <2>2. i \in DOMAIN cache.open /\ cache.open[i].num = seen
    BY Zenon, <1>4, <2>1, MinNat
  <2> HIDE DEF i, at
  <2>3. cache.open[i] \in Contexts /\ ContextOK(cache.open[i]) /\ seen \in Blocks
    <3>1. cache.open[i] \in Contexts /\ ContextOK(cache.open[i])
      BY Zenon, <1>2, <2>2, OpenBlock DEF CacheOK
    <3> QED
      BY Zenon, <2>2, <3>1 DEF Contexts
  <2>4. TxCount[seen] \in Nat
    BY <2>3, RealtimeAssumption DEF Blocks
  <2>5. /\ ctx \in Contexts
        /\ ctx.num = cache.open[i].num /\ ctx.next = cache.open[i].next
        /\ ctx.txs = cache.open[i].txs /\ ctx.applied = cache.open[i].applied
        /\ ctx.count = TxCount[seen]
    BY <2>3, <2>4 DEF Contexts
  <2> HIDE DEF ctx
  <2>6. ContextOK(ctx)
    BY Zenon, <2>2, <2>3, <2>5 DEF ContextOK, Partial
  <2>7. CacheOK(cache')
    <3>1. CASE CanClose(ctx)
      <4>1. Partial(cache.open[i])
        BY Zenon, <1>2, <2>2, <2>5, <3>1 DEF CanClose, Handled
      <4>2. Partial(ctx)
        BY Zenon, <2>5, <4>1 DEF Partial
      <4> QED
        BY Zenon, <1>2, <1>4, <2>2, <2>5, <2>6, <3>1, <4>2, ClosedOK DEF TryCloseBlock
    <3>2. CASE ~ CanClose(ctx)
      <4>1. cache' = [cache EXCEPT !.open[i] = ctx]
        BY Zenon, <1>4, <3>2 DEF TryCloseBlock
      <4> QED
        BY <1>2, <2>2, <2>5, <2>6, <4>1, StoredOK
    <3> QED
      BY Zenon, <3>1, <3>2
  <2>8. KafkaOK'
    BY Zenon, <1>2, <1>4 DEF KafkaOK
  <2> QED
    BY Zenon, <1>1, <2>7, <2>8 DEF ExactInv, TopicsOK
<1> QED
  BY Zenon, <1>3, <1>4 DEF TryCloseFromConfirmed

\* The other steps of the realtime loop.
LEMMA LoopExact ==
    ASSUME ExactInv, CheckFlags \/ ClearCache \/ ResetDone \/ TryInitRealtimeCache
    PROVE  ExactInv'
<1>1. CASE CheckFlags
  <2>1. UNCHANGED <<topics, late, exec, kafka, cache>> /\ pc' # "confirm"
        /\ seen' \in {exec, GetPendingHeight, 0}
    BY Zenon, <1>1 DEF CheckFlags
  <2>2. GetPendingHeight \in Nat
    BY DEF ExactInv, CacheOK, GetPendingHeight
  <2> QED
    BY <2>1, <2>2 DEF ExactInv, TopicsOK, KafkaOK
<1>2. CASE ClearCache
  BY Zenon, <1>2, EmptyCacheOK DEF ClearCache, ExactInv, TopicsOK, KafkaOK
<1>3. CASE ResetDone
  BY Zenon, <1>3 DEF ResetDone, ExactInv, TopicsOK, KafkaOK
<1>4. CASE TryInitRealtimeCache
  <2>1. UNCHANGED <<topics, late, exec>> /\ pc' = "top" /\ seen' = 0
    BY Zenon, <1>4 DEF TryInitRealtimeCache
  <2>2. \/ UNCHANGED <<kafka, cache>>
        \/ /\ cache' = [EmptyCache EXCEPT !.global = seen, !.confirm = seen]
           /\ kafka' = FlushKafka(seen)
    BY Zenon, <1>4 DEF TryInitRealtimeCache
  <2>3. CacheOK(cache')
    BY Zenon, <2>2, EmptyCacheOK DEF ExactInv
  <2>4. KafkaOK'
    <3>1. CASE UNCHANGED <<kafka, cache>>
      BY Zenon, <3>1 DEF ExactInv, KafkaOK
    <3>2. CASE kafka' = FlushKafka(seen)
      BY Zenon, <3>2, EmptyBagFacts DEF FlushKafka, ExactInv, KafkaOK
    <3> QED
      BY Zenon, <2>2, <3>1, <3>2
  <2> QED
    BY Zenon, <2>1, <2>3, <2>4 DEF ExactInv, TopicsOK
<1> QED
  BY Zenon, <1>1, <1>2, <1>3, <1>4

\* Every step preserves the invariant.
LEMMA NextExact == ExactInv /\ [Next]_vars => ExactInv'
<1> SUFFICES ASSUME ExactInv, [Next]_vars PROVE ExactInv'
  OBVIOUS
<1>1. CASE UNCHANGED vars
  BY Zenon, <1>1 DEF vars, ExactInv, TopicsOK, KafkaOK
<1>2. CASE Listener
  BY Zenon, <1>2, ListenerExact DEF Listener
<1>3. CASE Loop
  BY <1>3, LoopExact, OpenExact, HandleExact, ConfirmExact DEF Loop
<1>4. CASE Execute
  BY Zenon, <1>4, FinishExact DEF Execute
<1>5. CASE Unwind
  BY Zenon, <1>5, FinishExact DEF Unwind
<1>6. CASE ConsumerFails
  BY Zenon, <1>6 DEF ConsumerFails, ExactInv, TopicsOK, KafkaOK
<1>7. CASE \E t \in {"block", "tx"} : Delay(t) \/ Repeat(t) \/ ReceiveLate(t)
  BY Zenon, <1>7, ListenerExact
<1> QED
  BY Zenon, <1>1, <1>2, <1>3, <1>4, <1>5, <1>6, <1>7 DEF Next, Faults

\* Whatever is delayed, repeated or lost, in whatever order the listener and the loop
\* run and however often the cache is reset, a block that tryCloseBlock closes is the
\* sequencer's block: every message of it applied once and in order.
THEOREM RealtimeBlocksExact == Spec => []ClosedBlocksExact
<1>1. ExactInv => ClosedBlocksExact
  BY Zenon DEF ExactInv, CacheOK, ClosedBlocksExact
<1> QED
  BY <1>1, InitExact, NextExact, PTL DEF Spec

-----------------------------------------------------------------------------
(* A reader of the cache gets the state of all blocks.                             *)

\* The closed blocks follow the flushed ones and the open blocks the closed ones,
\* without a gap; only the first of them all has no state before it.
ChainOK(c) ==
    /\ c.global \in Nat /\ c.global <= c.confirm
    /\ DOMAIN c.blocks = (c.global + 1) .. c.confirm
    /\ \A n \in DOMAIN c.blocks : c.blocks[n].linked <=> n # c.global + 1
    /\ \A i \in DOMAIN c.open :
         /\ c.open[i].num = c.confirm + i
         /\ c.open[i].linked <=> c.open[i].num # c.global + 1
    /\ IF c.pending = 0 THEN c.open = <<>> ELSE c.pending = c.confirm + Len(c.open)

\* What was flushed was executed, and the database is not above the highest execution.
ChainInv ==
    /\ ExactInv
    /\ ChainOK(cache)
    /\ cache.global <= exec
    /\ db \in Nat /\ db <= exec
    /\ pc = "init" => seen <= exec
-----------------------------------------------------------------------------
(* The operators. *)

\* A cleared or newly initialised cache is a chain.
LEMMA EmptyChain ==
    ASSUME NEW h \in Nat
    PROVE  ChainOK(EmptyCache) /\ ChainOK([EmptyCache EXCEPT !.global = h, !.confirm = h])
<1>1. DOMAIN EmptyCache.blocks = {} /\ EmptyCache.open = <<>> /\ DOMAIN EmptyCache.open = {}
  BY DEF EmptyCache
<1>2. (h + 1) .. h = {} /\ (0 + 1) .. 0 = {}
  OBVIOUS
<1> QED
  BY <1>1, <1>2 DEF ChainOK, EmptyCache

\* The flush ends at a closed block.
LEMMA FlushedRange ==
    ASSUME CacheOK(cache), ChainOK(cache), NEW n \in Int
    PROVE  LET to == FlushedTo(n)
           IN  /\ to \in Nat /\ cache.global <= to /\ to <= cache.confirm
               /\ to = cache.global \/ to <= n
<1> DEFINE g == cache.global
           c == cache.confirm
           present == {m \in g .. n : (g + 1) .. m \subseteq DOMAIN cache.blocks}
           least == IF n <= c THEN n ELSE c
<1>1. g \in Nat /\ c \in Nat /\ g <= c /\ DOMAIN cache.blocks = (g + 1) .. c
  BY Zenon DEF CacheOK, ChainOK
<1> HIDE DEF g, c
<1>2. ASSUME n > g PROVE Max(present) \in Nat /\ g <= Max(present) /\ Max(present) <= c /\ Max(present) <= n
  <2>1. ASSUME NEW m \in g .. n PROVE (g + 1) .. m \subseteq (g + 1) .. c <=> m <= c
    <3>1. CASE m <= c
      BY <1>1, <3>1
    <3>2. CASE m > c
      <4>1. m \in (g + 1) .. m /\ m \notin (g + 1) .. c
        BY <1>1, <3>2
      <4> QED
        BY <1>1, <3>2, <4>1
    <3> QED
      BY <1>1, <3>1, <3>2
  <2>2. present = {m \in g .. n : m <= c}
    BY Zenon, <1>1, <2>1
  <2> HIDE DEF present
  <2>3. least \in present /\ \A m \in present : least >= m
    BY <1>1, <1>2, <2>2
  <2>4. Max(present) \in present
    BY Zenon, <2>3 DEF Max
  <2> QED
    BY <1>1, <2>2, <2>4
<1>3. FlushedTo(n) = g \/ (n > g /\ FlushedTo(n) = Max(present))
  BY Zenon DEF FlushedTo, g, c
<1> HIDE DEF present
<1> QED
  BY <1>1, <1>2, <1>3 DEF g, c

\* What is left after a flush is a chain.
LEMMA FlushedChain ==
    ASSUME CacheOK(cache), ChainOK(cache), NEW h \in Int
    PROVE  LET c == FlushBlock(h)
           IN  ChainOK(c) /\ (c.global = cache.global \/ c.global <= h)
<1> DEFINE to == FlushedTo(h)
           blocks == [m \in {k \in DOMAIN cache.blocks : k > to} |->
                        IF m = to + 1 THEN [cache.blocks[m] EXCEPT !.linked = FALSE] ELSE cache.blocks[m]]
           open == [i \in DOMAIN cache.open |->
                        IF cache.open[i].num = to + 1 THEN [cache.open[i] EXCEPT !.linked = FALSE]
                                                      ELSE cache.open[i]]
           c == [cache EXCEPT !.global = to, !.blocks = blocks, !.open = open]
<1>1. FlushBlock(h) = IF to = cache.global THEN cache ELSE c
  BY Zenon DEF FlushBlock
<1>2. to \in Nat /\ cache.global <= to /\ to <= cache.confirm /\ (to = cache.global \/ to <= h)
  BY Zenon, FlushedRange
<1>3. CASE to = cache.global
  BY Zenon, <1>1, <1>3
<1>4. CASE to # cache.global
  <2> HIDE DEF to
  <2>1. /\ cache.global \in Nat /\ cache.confirm \in Nat
        /\ DOMAIN cache.blocks = (cache.global + 1) .. cache.confirm
    BY Zenon DEF CacheOK, ChainOK
  <2>2. DOMAIN blocks = (to + 1) .. cache.confirm
    BY <1>2, <2>1
  <2>3. ASSUME NEW m \in DOMAIN blocks PROVE blocks[m].linked <=> m # to + 1
    <3>1. m \in DOMAIN cache.blocks /\ m # cache.global + 1
      BY <1>2, <1>4, <2>1, <2>2
    <3>2. cache.blocks[m].linked /\ cache.blocks[m] \in [linked : BOOLEAN, applied : {Content(m)}]
      BY Zenon, <3>1 DEF ChainOK, CacheOK
    <3> QED
      BY Zenon, <3>2
  <2>4. cache.open \in Seq(Contexts) /\ DOMAIN cache.open = 1 .. Len(cache.open) /\ Len(cache.open) \in Nat
    BY DEF CacheOK
  <2>5. ASSUME NEW i \in DOMAIN cache.open
        PROVE  /\ open[i].num = cache.confirm + i
               /\ open[i].linked <=> open[i].num # to + 1
    <3>1. /\ cache.open[i] \in Contexts /\ cache.open[i].num = cache.confirm + i
          /\ cache.open[i].linked <=> cache.open[i].num # cache.global + 1
      BY <2>4 DEF ChainOK
    <3>2. cache.open[i].num # cache.global + 1
      BY <1>2, <1>4, <2>1, <2>4, <3>1
    <3> QED
      BY Zenon, <3>1, <3>2 DEF Contexts
  <2>6. open \in Seq(Contexts) /\ Len(open) = Len(cache.open) /\ DOMAIN open = DOMAIN cache.open
    <3>1. open \in [1 .. Len(cache.open) -> Contexts]
      <4>1. ASSUME NEW i \in DOMAIN cache.open PROVE open[i] \in Contexts
        <5>1. cache.open[i] \in Contexts
          BY <2>4
        <5> QED
          BY Zenon, <5>1 DEF Contexts
      <4> QED
        BY Zenon, <2>4, <4>1
    <3> HIDE DEF open
    <3> QED
      BY <2>4, <3>1
  <2>7. open = <<>> <=> cache.open = <<>>
    BY <2>4, <2>6
  <2> HIDE DEF open, blocks
  <2>8. /\ c.confirm = cache.confirm /\ c.pending = cache.pending /\ c.global = to
        /\ c.blocks = blocks /\ c.open = open
    BY Zenon DEF CacheOK
  <2> HIDE DEF c
  <2>9. ChainOK(c)
    BY <1>2, <2>2, <2>3, <2>5, <2>6, <2>7, <2>8 DEF ChainOK
  <2> QED
    BY <1>1, <1>2, <1>4, <2>8, <2>9
<1> QED
  BY Zenon, <1>3, <1>4

\* The next block continues the chain.
LEMMA OpenedChain ==
    ASSUME CacheOK(cache), ChainOK(cache), NextHeight \in Blocks
    PROVE  ChainOK(Opened(NextHeight)) /\ Opened(NextHeight).global = cache.global
<1> DEFINE n == NextHeight
           ctx == [num |-> n, next |-> 0, count |-> -1, txs |-> EmptyBag, applied |-> <<>>,
                   linked |-> n - 1 # cache.confirm \/ n - 1 \in DOMAIN cache.blocks]
           open == Append(cache.open, ctx)
           c == Opened(n)
           k == Len(cache.open)
<1>1. ctx \in Contexts /\ ctx.num = n
  BY EmptyBagFacts DEF Contexts
<1>0. ctx.linked <=> n - 1 # cache.confirm \/ n - 1 \in DOMAIN cache.blocks
  BY Zenon
<1>2. c = [cache EXCEPT !.open = open, !.pending = n]
  BY Zenon DEF Opened
<1> HIDE DEF ctx
<1>3. cache.open \in Seq(Contexts) /\ DOMAIN cache.open = 1 .. k /\ k \in Nat
  BY DEF CacheOK
<1>4. /\ open \in Seq(Contexts) /\ DOMAIN open = 1 .. (k + 1) /\ Len(open) = k + 1
      /\ \A j \in DOMAIN cache.open : open[j] = cache.open[j]
      /\ open[k + 1] = ctx
  BY <1>1, <1>3
<1> HIDE DEF open
<1>5. /\ c.confirm = cache.confirm /\ c.pending = n /\ c.blocks = cache.blocks /\ c.open = open
      /\ c.global = cache.global
  BY Zenon, <1>2 DEF CacheOK
<1> HIDE DEF c
<1>6. /\ n \in Nat /\ n # 0 /\ cache.confirm \in Nat /\ cache.pending \in Nat /\ cache.global \in Nat
      /\ cache.global <= cache.confirm
      /\ DOMAIN cache.blocks = (cache.global + 1) .. cache.confirm
  BY DEF Blocks, CacheOK, ChainOK
<1>7. n = cache.confirm + k + 1
  <2>1. cache.open = <<>> => k = 0
    OBVIOUS
  <2> QED
    BY <1>3, <1>6, <2>1 DEF NextHeight, ChainOK
<1>8. ctx.linked <=> n # cache.global + 1
  BY <1>0, <1>3, <1>6, <1>7
<1>9. ASSUME NEW j \in DOMAIN open
      PROVE  /\ open[j].num = cache.confirm + j
             /\ open[j].linked <=> open[j].num # cache.global + 1
  <2>1. CASE j \in DOMAIN cache.open
    BY Zenon, <1>4, <2>1 DEF ChainOK
  <2>2. CASE j \notin DOMAIN cache.open
    <3> HIDE DEF n, k
    <3>0. j = k + 1
      BY <1>3, <1>4, <2>2
    <3>1. j = k + 1 /\ n = cache.confirm + j
      BY <1>3, <1>6, <1>7, <3>0
    <3> QED
      BY <1>1, <1>4, <1>8, <3>1, Zenon
  <2> QED
    BY Zenon, <2>1, <2>2
<1>10. /\ \A m \in DOMAIN cache.blocks : cache.blocks[m].linked <=> m # cache.global + 1
       /\ n = cache.confirm + Len(open)
  BY <1>3, <1>4, <1>6, <1>7 DEF ChainOK
<1> HIDE DEF n
<1>11. ChainOK(c)
  BY <1>5, <1>6, <1>9, <1>10 DEF ChainOK
<1> QED
  BY Zenon, <1>5, <1>11 DEF c, n

\* Closing the first open block continues the chain of closed ones.
LEMMA ClosedChain ==
    ASSUME CacheOK(cache), ChainOK(cache), NEW i \in DOMAIN cache.open,
           NEW ctx \in Contexts, ctx.num = cache.open[i].num,
           ctx.linked <=> cache.open[i].linked, CanClose(ctx)
    PROVE  ChainOK(Closed(i, ctx)) /\ Closed(i, ctx).global = cache.global
<1> DEFINE n == ctx.num
           state == [linked |-> ctx.linked, applied |-> Append(ctx.applied, Message("confirmed", n, 1))]
           blocks == [m \in DOMAIN cache.blocks \union {n} |-> IF m = n THEN state ELSE cache.blocks[m]]
           open == After(cache.open, i)
           c == Closed(i, ctx)
           k == Len(cache.open)
<1>1. cache.open \in Seq(Contexts) /\ DOMAIN cache.open = 1 .. k /\ k \in Nat
  BY DEF CacheOK
<1>2. /\ cache.confirm \in Nat /\ cache.pending \in Nat /\ cache.global \in Nat
      /\ cache.global <= cache.confirm
      /\ DOMAIN cache.blocks = (cache.global + 1) .. cache.confirm
  BY Zenon DEF CacheOK, ChainOK
<1>3. n = cache.confirm + 1 /\ i = 1
  <2>1. n = cache.confirm + 1 /\ n = cache.confirm + i
    BY Zenon DEF CanClose, ChainOK
  <2> QED
    BY <1>1, <1>2, <2>1
<1>4. state.linked <=> n # cache.global + 1
  BY Zenon, <1>3 DEF ChainOK
<1> HIDE DEF state
<1>5. ASSUME NEW m \in DOMAIN blocks PROVE blocks[m].linked <=> m # cache.global + 1
  BY Zenon, <1>4 DEF ChainOK
<1>6. DOMAIN blocks = (cache.global + 1) .. n
  BY <1>2, <1>3
<1> HIDE DEF blocks
<1>7. i \in 1 .. Len(cache.open) /\ k = Len(cache.open)
  BY Zenon, <1>1
<1>0. Len(open) = Len(cache.open) - i
  <2>0. cache.open \in Seq(Contexts) /\ i \in 1 .. Len(cache.open)
    BY Zenon, <1>1, <1>7
  <2> DEFINE s == cache.open
  <2> HIDE DEF s
  <2>1. s \in Seq(Contexts) /\ i \in 1 .. Len(s)
    BY Zenon, <2>0 DEF s
  <2>2. Len(After(s, i)) = Len(s) - i
    BY Zenon, <2>1, Suffix
  <2> QED
    BY Zenon, <2>2 DEF s
<1>8. /\ open \in Seq(Contexts)
      /\ \A j \in DOMAIN open :
           open[j] = cache.open[i + j] /\ i + j \in DOMAIN cache.open /\ i < i + j /\ j \in Nat
  BY Zenon, <1>1, <1>7, Suffix
<1> HIDE DEF open, n, k
<1>9. c = [cache EXCEPT !.blocks = blocks, !.open = open, !.confirm = n]
  BY Zenon DEF Closed, After, open, blocks, state, n
<1>10. /\ c.blocks = blocks /\ c.open = open /\ c.confirm = n /\ c.pending = cache.pending
       /\ c.global = cache.global
  BY Zenon, <1>9 DEF CacheOK
<1> HIDE DEF c
<1>11. ASSUME NEW j \in DOMAIN open
       PROVE  /\ open[j].num = n + j
              /\ open[j].linked <=> open[j].num # cache.global + 1
  <2>1. /\ cache.open[i + j].num = cache.confirm + (i + j)
        /\ cache.open[i + j].linked <=> cache.open[i + j].num # cache.global + 1
    BY Zenon, <1>8 DEF ChainOK
  <2>2. open[j] = cache.open[i + j] /\ j \in Nat
    BY Zenon, <1>8
  <2>3. cache.confirm + (i + j) = n + j
    BY <1>2, <1>3, <2>2
  <2> QED
    BY <2>1, <2>2, <2>3, Zenon
<1>12. cache.pending # 0 /\ cache.pending = n + Len(open)
  <2>1. cache.open # <<>>
    BY <1>1, <1>7
  <2>2. cache.pending # 0 /\ cache.pending = cache.confirm + k
    BY Zenon, <1>7, <2>1 DEF ChainOK
  <2> QED
    <3>1. Len(open) = k - 1
      BY <1>0, <1>3, <1>7
    <3> QED
      BY <1>1, <1>2, <1>3, <2>2, <3>1
<1>13. cache.global <= n
  BY <1>2, <1>3
<1>14. ChainOK(c)
  BY <1>2, <1>5, <1>6, <1>10, <1>11, <1>12, <1>13 DEF ChainOK
<1> QED
  BY Zenon, <1>10, <1>14 DEF c

\* Storing an open block again keeps the chain.
LEMMA StoredChain ==
    ASSUME CacheOK(cache), ChainOK(cache), NEW i \in DOMAIN cache.open,
           NEW ctx \in Contexts, ctx.num = cache.open[i].num,
           ctx.linked <=> cache.open[i].linked
    PROVE  LET c == [cache EXCEPT !.open[i] = ctx]
           IN  ChainOK(c) /\ c.global = cache.global
<1> DEFINE c == [cache EXCEPT !.open[i] = ctx]
<1>1. cache.open \in Seq(Contexts) /\ DOMAIN cache.open = 1 .. Len(cache.open) /\ Len(cache.open) \in Nat
  BY DEF CacheOK
<1>2. /\ c.confirm = cache.confirm /\ c.pending = cache.pending /\ c.blocks = cache.blocks
      /\ c.global = cache.global
      /\ c.open = [cache.open EXCEPT ![i] = ctx]
  BY Zenon DEF CacheOK
<1>3. c.open \in Seq(Contexts) /\ DOMAIN c.open = DOMAIN cache.open /\ Len(c.open) = Len(cache.open)
  BY <1>1, <1>2
<1>4. \A j \in DOMAIN cache.open : c.open[j] = IF j = i THEN ctx ELSE cache.open[j]
  BY <1>1, <1>2
<1>5. cache.open # <<>>
  OBVIOUS
<1> HIDE DEF c
<1>6. ASSUME NEW j \in DOMAIN c.open
      PROVE  /\ c.open[j].num = c.confirm + j
             /\ c.open[j].linked <=> c.open[j].num # c.global + 1
  <2>1. /\ cache.open[j].num = cache.confirm + j
        /\ cache.open[j].linked <=> cache.open[j].num # cache.global + 1
    BY Zenon, <1>3 DEF ChainOK
  <2> QED
    BY Zenon, <1>2, <1>3, <1>4, <2>1
<1>7. ChainOK(c)
  BY Zenon, <1>2, <1>3, <1>5, <1>6 DEF ChainOK
<1> QED
  BY Zenon, <1>2, <1>7 DEF c
-----------------------------------------------------------------------------
(* The steps. *)

\* The invariant holds at the start.
LEMMA InitChain == Init => ChainInv
<1> SUFFICES ASSUME Init PROVE ChainInv
  OBVIOUS
<1>1. ExactInv
  BY Zenon, InitExact
<1>2. ChainOK(cache)
  BY Zenon, EmptyChain DEF Init
<1> QED
  BY <1>1, <1>2 DEF Init, ChainInv, EmptyCache

\* An execution or an unwind: what it flushes was executed.
LEMMA FinishChain ==
    ASSUME ChainInv, NEW h \in Blocks, Finish(h)
    PROVE  ChainInv'
<1>1. ExactInv'
  BY Zenon, FinishExact DEF ChainInv
<1>2. CacheOK(cache) /\ ChainOK(cache) /\ exec \in Nat /\ h \in Nat
  BY DEF ChainInv, ExactInv, Blocks
<1>3. UNCHANGED <<pc, seen>> /\ exec' = Max({exec, h}) /\ db' = h
      /\ (cache' = cache \/ cache' = FlushBlock(h - HeightThreshold))
  BY Zenon DEF Finish
<1>4. exec' \in Nat /\ exec <= exec' /\ h <= exec'
  <2>1. \E x \in {exec, h} : \A y \in {exec, h} : x >= y
    BY <1>2
  <2>2. Max({exec, h}) \in {exec, h} /\ \A y \in {exec, h} : Max({exec, h}) >= y
    BY Zenon, <2>1 DEF Max
  <2> QED
    BY Zenon, <1>2, <1>3, <2>2
<1>5. HeightThreshold \in Nat /\ h - HeightThreshold \in Int /\ h - HeightThreshold <= h
  BY <1>2, RealtimeAssumption
<1>6. ChainOK(cache') /\ cache'.global <= exec'
  <2>1. CASE cache' = cache
    <3>1. cache.global \in Nat /\ cache.global <= exec
      BY Zenon DEF ChainInv, ChainOK
    <3> QED
      BY <1>2, <1>4, <2>1, <3>1
  <2>2. CASE cache' = FlushBlock(h - HeightThreshold)
    <3>1. ChainOK(cache') /\ (cache'.global = cache.global \/ cache'.global <= h - HeightThreshold)
      BY <1>2, <1>5, <2>2, FlushedChain
    <3>2. cache.global \in Nat /\ cache.global <= exec /\ cache'.global \in Nat
      BY Zenon, <3>1 DEF ChainInv, ChainOK
    <3>3. CASE cache'.global = cache.global
      BY <1>2, <1>4, <3>1, <3>2, <3>3
    <3>4. CASE cache'.global <= h - HeightThreshold
      BY <1>2, <1>4, <1>5, <3>1, <3>2, <3>4
    <3> QED
      BY <3>1, <3>3, <3>4
  <2> QED
    BY Zenon, <1>3, <2>1, <2>2
<1>7. seen' \in Nat
  BY Zenon, <1>1 DEF ExactInv
<1>8. pc' = "init" => seen' <= exec'
  BY <1>2, <1>3, <1>4, <1>7 DEF ChainInv
<1> QED
  BY Zenon, <1>1, <1>2, <1>3, <1>4, <1>6, <1>8 DEF ChainInv

\* A block is opened.
LEMMA OpenChain ==
    ASSUME ChainInv, TryApplyNewBlockMsg
    PROVE  ChainInv'
<1>1. ExactInv'
  BY Zenon, OpenExact DEF ChainInv
<1>2. UNCHANGED <<exec, db>> /\ pc' = "handle"
      /\ (cache' = cache \/ (NextHeight \in kafka.new /\ cache' = Opened(NextHeight)))
  BY Zenon DEF TryApplyNewBlockMsg
<1>3. CacheOK(cache) /\ ChainOK(cache) /\ kafka.new \subseteq Blocks
  BY Zenon DEF ChainInv, ExactInv, KafkaOK
<1>4. ChainOK(cache') /\ cache'.global = cache.global
  BY Zenon, <1>2, <1>3, OpenedChain
<1> QED
  BY Zenon, <1>1, <1>2, <1>4 DEF ChainInv

\* The first open block is worked on, and closed if it is complete.
LEMMA HandleChain ==
    ASSUME ChainInv, HandlePendingBlocks
    PROVE  ChainInv'
<1>1. ExactInv'
  BY Zenon, HandleExact DEF ChainInv
<1>2. UNCHANGED <<exec, db>> /\ pc' \in {"handle", "confirm"}
  BY Zenon DEF HandlePendingBlocks
<1>3. CacheOK(cache) /\ ChainOK(cache) /\ KafkaOK
  BY Zenon DEF ChainInv, ExactInv
<1>4. CASE cache.open = <<>> \/ Head(cache.open).num # cache.confirm + 1
  BY Zenon, <1>1, <1>2, <1>4 DEF HandlePendingBlocks, ChainInv
<1>5. CASE ~ (cache.open = <<>> \/ Head(cache.open).num # cache.confirm + 1)
  <2> DEFINE n == Head(cache.open).num
             txs == Head(cache.open).txs (+) kafka.txs[n]
             ctx == AppliedTxs(Head(cache.open), txs)
  <2>1. cache' = TryCloseBlock(1, ctx)
    BY Zenon, <1>5 DEF HandlePendingBlocks
  <2>2. cache.open \in Seq(Contexts) /\ 1 \in DOMAIN cache.open /\ Head(cache.open) = cache.open[1]
    BY <1>3, <1>5 DEF CacheOK
  <2>3. cache.open[1] \in Contexts /\ ContextOK(cache.open[1])
    BY Zenon, <1>3, <2>2, OpenBlock DEF CacheOK
  <2>4. /\ n \in Blocks /\ cache.open[1].txs \in TxBags /\ n = cache.open[1].num
        /\ IsFiniteSet(DOMAIN cache.open[1].txs) /\ DOMAIN cache.open[1].txs \subseteq Indices(n)
    BY Zenon, <2>2, <2>3 DEF Contexts, ContextOK
  <2> HIDE DEF n
  <2>5. /\ kafka.txs[n] \in TxBags /\ IsFiniteSet(DOMAIN kafka.txs[n])
        /\ DOMAIN kafka.txs[n] \subseteq Indices(n)
    BY Zenon, <1>3, <2>4 DEF KafkaOK
  <2>6. txs \in TxBags /\ IsFiniteSet(DOMAIN txs) /\ DOMAIN txs \subseteq Indices(n)
    BY Zenon, <2>2, <2>4, <2>5, JoinedBags
  <2> HIDE DEF txs
  <2>7. ctx \in Contexts /\ ctx.num = cache.open[1].num
    BY Zenon, <2>2, <2>3, <2>4, <2>6, AppliedTxsOK
  <2>8. ctx.linked = cache.open[1].linked
    BY Zenon, <2>2, <2>3 DEF AppliedTxs, Contexts
  <2> HIDE DEF ctx
  <2>9. ChainOK(cache') /\ cache'.global = cache.global
    <3>1. CASE CanClose(ctx)
      BY Zenon, <1>3, <2>1, <2>2, <2>7, <2>8, <3>1, ClosedChain DEF TryCloseBlock
    <3>2. CASE ~ CanClose(ctx)
      <4>1. cache' = [cache EXCEPT !.open[1] = ctx]
        BY Zenon, <2>1, <3>2 DEF TryCloseBlock
      <4> QED
        BY Zenon, <1>3, <2>2, <2>7, <2>8, <4>1, StoredChain
    <3> QED
      BY Zenon, <3>1, <3>2
  <2> QED
    BY Zenon, <1>1, <1>2, <2>9 DEF ChainInv
<1> QED
  BY Zenon, <1>4, <1>5

\* A confirmed-block message closes the first open block or is kept with it.
LEMMA ConfirmChain ==
    ASSUME ChainInv, TryCloseFromConfirmed
    PROVE  ChainInv'
<1>1. ExactInv'
  BY Zenon, ConfirmExact DEF ChainInv
<1>2. UNCHANGED <<exec, db>> /\ pc' = "top"
  BY Zenon DEF TryCloseFromConfirmed
<1>3. CacheOK(cache) /\ ChainOK(cache)
  BY Zenon DEF ChainInv, ExactInv
<1> DEFINE at == {i \in DOMAIN cache.open : cache.open[i].num = seen}
           i == Min(at)
           ctx == [cache.open[i] EXCEPT !.count = TxCount[seen]]
<1>4. CASE UNCHANGED cache
  BY Zenon, <1>1, <1>2, <1>4 DEF ChainInv
<1>5. CASE at # {} /\ cache' = TryCloseBlock(i, ctx)
  <2>1. at \in SUBSET Nat
    BY <1>3 DEF CacheOK
  <2>2. i \in DOMAIN cache.open /\ cache.open[i].num = seen
    BY Zenon, <1>5, <2>1, MinNat
  <2> HIDE DEF i, at
  <2>3. cache.open[i] \in Contexts
    BY Zenon, <1>3, <2>2, OpenBlock
  <2>4. TxCount[seen] \in Nat
    BY <2>2, <2>3, RealtimeAssumption DEF Contexts, Blocks
  <2>5. ctx \in Contexts /\ ctx.num = cache.open[i].num /\ ctx.linked = cache.open[i].linked
    BY <2>3, <2>4 DEF Contexts
  <2> HIDE DEF ctx
  <2>6. ChainOK(cache') /\ cache'.global = cache.global
    <3>1. CASE CanClose(ctx)
      BY Zenon, <1>3, <1>5, <2>2, <2>5, <3>1, ClosedChain DEF TryCloseBlock
    <3>2. CASE ~ CanClose(ctx)
      <4>1. cache' = [cache EXCEPT !.open[i] = ctx]
        BY Zenon, <1>5, <3>2 DEF TryCloseBlock
      <4> QED
        BY <1>3, <2>2, <2>5, <4>1, StoredChain
    <3> QED
      BY Zenon, <3>1, <3>2
  <2> QED
    BY Zenon, <1>1, <1>2, <2>6 DEF ChainInv
<1> QED
  BY <1>4, <1>5 DEF TryCloseFromConfirmed

\* The other steps of the realtime loop.
LEMMA LoopChain ==
    ASSUME ChainInv, CheckFlags \/ ClearCache \/ ResetDone \/ TryInitRealtimeCache
    PROVE  ChainInv'
<1>1. ExactInv'
  BY Zenon, LoopExact DEF ChainInv
<1>2. exec \in Nat /\ seen \in Nat
  BY Zenon DEF ChainInv, ExactInv
<1>3. CASE CheckFlags
  <2>1. UNCHANGED <<db, exec, cache>> /\ (pc' = "init" => seen' = exec)
    BY Zenon, <1>3 DEF CheckFlags
  <2> QED
    BY <1>1, <1>2, <2>1 DEF ChainInv
<1>4. CASE ClearCache
  <2>1. ChainOK(EmptyCache) /\ EmptyCache.global = 0
    BY Zenon, EmptyChain DEF EmptyCache
  <2> QED
    BY <1>1, <1>2, <1>4, <2>1 DEF ClearCache, ChainInv
<1>5. CASE ResetDone
  BY Zenon, <1>1, <1>5 DEF ResetDone, ChainInv
<1>6. CASE TryInitRealtimeCache
  <2> DEFINE c == [EmptyCache EXCEPT !.global = seen, !.confirm = seen]
  <2>1. UNCHANGED <<db, exec>> /\ pc = "init" /\ pc' = "top" /\ (cache' = cache \/ cache' = c)
    BY Zenon, <1>6 DEF TryInitRealtimeCache
  <2>2. ChainOK(c) /\ c.global = seen
    BY Zenon, <1>2, EmptyChain DEF EmptyCache
  <2> QED
    BY Zenon, <1>1, <2>1, <2>2 DEF ChainInv
<1> QED
  BY Zenon, <1>3, <1>4, <1>5, <1>6

\* Every step preserves the invariant.
LEMMA NextChain == ChainInv /\ [Next]_vars => ChainInv'
<1> SUFFICES ASSUME ChainInv, [Next]_vars PROVE ChainInv'
  OBVIOUS
<1>1. ExactInv'
  BY Zenon, NextExact DEF ChainInv
<1>2. CASE UNCHANGED <<cache, exec, db, pc, seen>>
  BY <1>1, <1>2 DEF ChainInv
<1>3. CASE Loop
  BY Zenon, <1>3, LoopChain, OpenChain, HandleChain, ConfirmChain DEF Loop
<1>4. CASE Execute \/ Unwind
  BY Zenon, <1>4, FinishChain DEF Execute, Unwind
<1>5. CASE UNCHANGED vars
  BY Zenon, <1>2, <1>5 DEF vars
<1>6. CASE Listener \/ ConsumerFails
  BY Zenon, <1>2, <1>6 DEF Listener, Receive, ReceiveTrigger, ConsumerFails
<1>7. CASE \E t \in {"block", "tx"} : Delay(t) \/ Repeat(t) \/ ReceiveLate(t)
  BY Zenon, <1>2, <1>7 DEF Delay, Repeat, ReceiveLate
<1> QED
  BY <1>3, <1>4, <1>5, <1>6, <1>7 DEF Next, Faults

\* Whoever reads a block of the cache gets the state of every block up to it: the states
\* are linked without a gap and end at a block the node has executed, however the
\* executions that flush blocks, the loop that opens and closes them and the resets
\* interleave.
THEOREM RealtimeReadsWholeChain == Spec => []ReadsWholeChain
<1>1. ChainInv => ReadsWholeChain
  <2> SUFFICES ASSUME ChainInv, exec <= db
               PROVE  /\ \A n \in Live : IF Linked(n) THEN n - 1 \in Live ELSE n - 1 <= db
                      /\ ready => DOMAIN cache.blocks = (cache.global + 1) .. cache.confirm
    BY Zenon DEF ReadsWholeChain
  <2> DEFINE g == cache.global
             c == cache.confirm
             k == Len(cache.open)
             top == c + k
  <2>1. /\ g \in Nat /\ c \in Nat /\ g <= c /\ DOMAIN cache.blocks = (g + 1) .. c
        /\ k \in Nat /\ DOMAIN cache.open = 1 .. k
        /\ g <= exec /\ exec = db /\ db \in Nat
    BY DEF ChainInv, ExactInv, CacheOK, ChainOK
  <2>2. \A i \in 1 .. k : cache.open[i].num = c + i /\ (cache.open[i].linked <=> c + i # g + 1)
    BY Zenon, <2>1 DEF ChainInv, ChainOK
  <2>3. \A n \in (g + 1) .. c : cache.blocks[n].linked <=> n # g + 1
    BY Zenon, <2>1 DEF ChainInv, ChainOK
  <2> HIDE DEF g, c, k
  <2>4. Live = (g + 1) .. top
    <3>1. {cache.open[i].num : i \in 1 .. k} = (c + 1) .. top
      <4>1. ASSUME NEW n \in (c + 1) .. top PROVE n - c \in 1 .. k /\ n = c + (n - c)
        BY <2>1
      <4>2. ASSUME NEW i \in 1 .. k PROVE c + i \in (c + 1) .. top
        BY <2>1
      <4> QED
        BY <2>2, <4>1, <4>2
    <3>2. (g + 1) .. c \union (c + 1) .. top = (g + 1) .. top
      BY <2>1
    <3> QED
      BY Zenon, <2>1, <3>1, <3>2 DEF Live
  <2>5. ASSUME NEW n \in Live PROVE Linked(n) <=> n # g + 1
    <3>1. CASE n \in (g + 1) .. c
      BY Zenon, <2>1, <2>3, <3>1 DEF Linked
    <3>2. CASE n \notin (g + 1) .. c
      <4>1. n - c \in 1 .. k /\ n = c + (n - c)
        BY <2>1, <2>4, <3>2
      <4>2. \A i \in 1 .. k : cache.open[i].num = n => (cache.open[i].linked <=> n # g + 1)
        BY <2>2
      <4>3. cache.open[n - c].num = n
        BY Zenon, <2>2, <4>1
      <4>4. Linked(n) <=> \E i \in 1 .. k : cache.open[i].num = n /\ cache.open[i].linked
        BY Zenon, <2>1, <3>2 DEF Linked
      <4> QED
        BY <4>1, <4>2, <4>3, <4>4, Zenon
    <3> QED
      BY Zenon, <3>1, <3>2
  <2>6. ASSUME NEW n \in Live PROVE IF Linked(n) THEN n - 1 \in Live ELSE n - 1 <= db
    <3>1. n # g + 1 => n - 1 \in Live
      BY <2>1, <2>4
    <3>2. n = g + 1 => n - 1 <= db
      BY <2>1
    <3> QED
      BY <2>5, <3>1, <3>2
  <2> QED
    BY Zenon, <2>1, <2>6 DEF g, c
<1> QED
  BY <1>1, InitChain, NextChain, PTL DEF Spec

-----------------------------------------------------------------------------
(* The types.                                                                      *)

\* The flags, the place of the loop and the faults.
Flags ==
    /\ trigger \in BOOLEAN /\ listening \in BOOLEAN
    /\ resetFlag \in BOOLEAN /\ ready \in BOOLEAN
    /\ pc \in {"top", "reset", "resetDone", "init", "apply", "handle", "confirm", "stopped"}
    /\ faults \in 0 .. MaxFaults

\* The heights stay within the blocks of the sequencer, but for the one the loop waits
\* for after the last of them.
Heights ==
    /\ exec <= Len(TxCount)
    /\ cache.confirm <= Len(TxCount) /\ cache.pending <= Len(TxCount)
    /\ seen <= Len(TxCount) + 1

\* Every step keeps the flags and the counter of the faults.
LEMMA NextFlags == Flags /\ [Next]_vars => Flags'
<1> SUFFICES ASSUME Flags, [Next]_vars PROVE Flags'
  OBVIOUS
<1>0. Fault => faults' \in 0 .. MaxFaults
  BY RealtimeAssumption DEF Fault, Flags
<1>1. CASE UNCHANGED <<trigger, listening, resetFlag, ready, pc>> /\ (UNCHANGED faults \/ Fault)
  BY Zenon, <1>0, <1>1 DEF Flags
<1>2. CASE UNCHANGED vars
  BY Zenon, <1>1, <1>2 DEF vars
<1>3. CASE Receive("block") \/ Receive("tx")
  BY Zenon, <1>1, <1>3 DEF Receive
<1>4. CASE ReceiveTrigger
  BY Zenon, <1>4 DEF ReceiveTrigger, Flags
<1>5. CASE CheckFlags
  <2>1. UNCHANGED <<trigger, listening, faults>>
    BY Zenon, <1>5 DEF CheckFlags
  <2>2. pc' \in {"stopped", "reset", "init", "top", "apply"}
    BY Zenon, <1>5 DEF CheckFlags
  <2>3. resetFlag' \in BOOLEAN /\ ready' \in BOOLEAN
    BY Zenon, <1>5 DEF CheckFlags
  <2> QED
    BY Zenon, <2>1, <2>2, <2>3 DEF Flags
<1>6. CASE ClearCache
  BY Zenon, <1>6 DEF ClearCache, Flags
<1>7. CASE ResetDone
  BY Zenon, <1>7 DEF ResetDone, Flags
<1>8. CASE TryInitRealtimeCache
  BY Zenon, <1>8 DEF TryInitRealtimeCache, Flags
<1>9. CASE TryApplyNewBlockMsg
  BY Zenon, <1>9 DEF TryApplyNewBlockMsg, Flags
<1>10. CASE HandlePendingBlocks
  BY Zenon, <1>10 DEF HandlePendingBlocks, Flags
<1>11. CASE TryCloseFromConfirmed
  BY Zenon, <1>11 DEF TryCloseFromConfirmed, Flags
<1>12. CASE Execute \/ Unwind
  <2>1. UNCHANGED <<trigger, listening, ready, pc>> /\ (UNCHANGED faults \/ Fault)
    BY Zenon, <1>12 DEF Execute, Unwind, Finish
  <2>2. resetFlag' \in BOOLEAN
    BY Zenon, <1>12 DEF Execute, Unwind, Finish
  <2> QED
    BY Zenon, <1>0, <2>1, <2>2 DEF Flags
<1>13. CASE ConsumerFails
  BY Zenon, <1>0, <1>13 DEF ConsumerFails, Flags
<1>14. ASSUME NEW t, Delay(t) \/ Repeat(t) \/ ReceiveLate(t) PROVE Flags'
  <2>1. CASE Delay(t)
    BY Zenon, <1>0, <2>1 DEF Delay, Flags
  <2>2. CASE Repeat(t) \/ ReceiveLate(t)
    BY Zenon, <1>1, <2>2 DEF Repeat, ReceiveLate
  <2> QED
    BY Zenon, <1>14, <2>1, <2>2
<1>15. CASE Listener
  BY Zenon, <1>3, <1>4, <1>15 DEF Listener
<1>16. CASE Loop
  BY Zenon, <1>5, <1>6, <1>7, <1>8, <1>9, <1>10, <1>11, <1>16 DEF Loop
<1>17. CASE Faults
  BY Zenon, <1>12, <1>13, <1>14, <1>17 DEF Faults
<1> QED
  BY Zenon, <1>2, <1>12, <1>15, <1>16, <1>17 DEF Next

\* Storing or closing an open block leaves the pending height as it is.
LEMMA PendingKept ==
    ASSUME CacheOK(cache), NEW i, NEW ctx
    PROVE  TryCloseBlock(i, ctx).pending = cache.pending
<1>1. "pending" \in DOMAIN cache
  BY Zenon DEF CacheOK
<1> QED
  BY Zenon, <1>1 DEF TryCloseBlock, Closed

\* Every step keeps the heights within the blocks.
LEMMA NextHeights ==
    ASSUME ChainInv, ChainInv', Heights, [Next]_vars
    PROVE  Heights'
<1> DEFINE top == Len(TxCount)
<1>0. top \in Nat /\ Blocks = 1 .. top
  BY RealtimeAssumption DEF Blocks
<1>1. /\ exec \in Nat /\ seen \in Nat /\ cache.confirm \in Nat /\ cache.pending \in Nat
      /\ exec <= top /\ cache.confirm <= top /\ cache.pending <= top /\ seen <= top + 1
  BY Zenon DEF ChainInv, ExactInv, CacheOK, Heights
<1>2. CacheOK(cache) /\ "confirm" \in DOMAIN cache /\ "pending" \in DOMAIN cache
  BY Zenon DEF ChainInv, ExactInv, CacheOK
<1> HIDE DEF top
<1>3. CASE UNCHANGED <<exec, cache, seen>>
  BY Zenon, <1>3 DEF Heights
<1>4. CASE UNCHANGED vars
  BY Zenon, <1>3, <1>4 DEF vars
<1>5. CASE Listener \/ ConsumerFails \/ ResetDone
  BY Zenon, <1>3, <1>5 DEF Listener, Receive, ReceiveTrigger, ConsumerFails, ResetDone
<1>6. CASE \E t \in {"block", "tx"} : Delay(t) \/ Repeat(t) \/ ReceiveLate(t)
  BY Zenon, <1>3, <1>6 DEF Delay, Repeat, ReceiveLate
<1>7. CASE Execute \/ Unwind
  <2>1. PICK h \in Blocks : Finish(h)
    BY Zenon, <1>7 DEF Execute, Unwind
  <2>2. /\ exec' = Max({exec, h}) /\ seen' = seen
        /\ (cache' = cache \/ cache' = FlushBlock(h - HeightThreshold))
    BY Zenon, <2>1 DEF Finish
  <2>3. cache'.confirm = cache.confirm /\ cache'.pending = cache.pending
    BY Zenon, <1>2, <2>2 DEF FlushBlock
  <2>4. h \in Nat /\ h <= top
    BY <1>0
  <2>5. exec' \in {exec, h}
    BY <1>1, <2>2, <2>4 DEF Max
  <2> QED
    BY Zenon, <1>1, <2>2, <2>3, <2>4, <2>5 DEF Heights, top
<1>8. CASE CheckFlags
  <2>1. UNCHANGED <<exec, cache>> /\ seen' \in {exec, GetPendingHeight, 0}
    BY Zenon, <1>8 DEF CheckFlags
  <2>2. seen' <= top + 1
    BY <1>0, <1>1, <2>1 DEF GetPendingHeight
  <2> QED
    BY Zenon, <2>1, <2>2 DEF Heights, top
<1>9. CASE ClearCache
  <2>1. cache'.confirm = 0 /\ cache'.pending = 0 /\ UNCHANGED <<exec, seen>>
    BY Zenon, <1>9 DEF ClearCache, EmptyCache
  <2>2. 0 <= top
    BY <1>0
  <2> QED
    BY Zenon, <2>1, <2>2 DEF Heights, top
<1>10. CASE TryInitRealtimeCache
  <2>1. /\ UNCHANGED exec /\ seen' = 0 /\ pc = "init"
        /\ (cache' = cache \/ cache' = [EmptyCache EXCEPT !.global = seen, !.confirm = seen])
    BY Zenon, <1>10 DEF TryInitRealtimeCache
  <2>2. seen <= exec
    BY Zenon, <2>1 DEF ChainInv
  <2>3. seen <= top /\ 0 <= top /\ 0 <= top + 1
    BY <1>0, <1>1, <2>2
  <2>4. cache' = cache \/ (cache'.confirm = seen /\ cache'.pending = 0)
    BY Zenon, <2>1 DEF EmptyCache
  <2> QED
    BY Zenon, <2>1, <2>3, <2>4 DEF Heights, top
<1>11. CASE TryApplyNewBlockMsg
  <2>1. /\ UNCHANGED <<exec, seen>>
        /\ (cache' = cache \/ (NextHeight \in kafka.new /\ cache' = Opened(NextHeight)))
    BY Zenon, <1>11 DEF TryApplyNewBlockMsg
  <2>2. kafka.new \subseteq Blocks
    BY Zenon DEF ChainInv, ExactInv, KafkaOK
  <2>3. \A n \in kafka.new : n <= top
    BY <1>0, <2>2
  <2>4. cache' = cache \/ (cache'.confirm = cache.confirm /\ cache'.pending <= top)
    BY Zenon, <1>2, <2>1, <2>3 DEF Opened
  <2> QED
    BY Zenon, <2>1, <2>4 DEF Heights, top
<1>12. CASE HandlePendingBlocks \/ TryCloseFromConfirmed
  <2>1. UNCHANGED exec /\ seen' \in {seen, 0}
    BY Zenon, <1>12 DEF HandlePendingBlocks, TryCloseFromConfirmed
  <2>2. cache' = cache \/ (cache.open # <<>> /\ \E i, ctx : cache' = TryCloseBlock(i, ctx))
    <3>1. CASE HandlePendingBlocks
      BY Zenon, <3>1 DEF HandlePendingBlocks
    <3>2. CASE TryCloseFromConfirmed
      <4> DEFINE at == {i \in DOMAIN cache.open : cache.open[i].num = seen}
      <4>1. cache.open = <<>> => at = {}
        OBVIOUS
      <4>2. cache' = cache \/ (at # {} /\ \E i, ctx : cache' = TryCloseBlock(i, ctx))
        BY Zenon, <3>2 DEF TryCloseFromConfirmed
      <4> QED
        BY Zenon, <4>1, <4>2
    <3> QED
      BY Zenon, <1>12, <3>1, <3>2
  <2>3. 0 <= top + 1
    BY <1>0
  <2>4. CASE cache' = cache
    BY Zenon, <2>1, <2>3, <2>4 DEF Heights, top
  <2>5. CASE cache.open # <<>> /\ \E i, ctx : cache' = TryCloseBlock(i, ctx)
    <3>1. cache'.pending = cache.pending
      BY Zenon, <1>2, <2>5, PendingKept
    <3>2. cache.pending # 0
      BY Zenon, <2>5 DEF ChainInv, ChainOK
    <3>3. cache'.confirm \in Nat /\ cache'.confirm <= cache.pending
      BY Zenon, <3>1, <3>2 DEF ChainInv, ExactInv, CacheOK, Ordered
    <3>4. cache'.confirm <= top
      BY <1>0, <1>1, <3>3
    <3> QED
      BY Zenon, <1>1, <2>1, <2>3, <3>1, <3>4 DEF Heights, top
  <2> QED
    BY Zenon, <2>2, <2>4, <2>5
<1>13. CASE Loop
  BY Zenon, <1>5, <1>8, <1>9, <1>10, <1>11, <1>12, <1>13 DEF Loop
<1> QED
  BY Zenon, <1>4, <1>5, <1>6, <1>7, <1>13 DEF Next, Faults

\* Every variable is of its kind: the messages the Kafka cache keeps are of the
\* sequencer's blocks and transactions, every block of the realtime cache is one of the
\* sequencer's, and none has more transactions applied than it has, however messages
\* repeat (tryApplyBlockTxMsgs).
THEOREM RealtimeTypes == Spec => []TypeOK
<1>1. Init => ChainInv /\ Flags /\ Heights
  <2> SUFFICES ASSUME Init PROVE ChainInv /\ Flags /\ Heights
    OBVIOUS
  <2>1. Len(TxCount) \in Nat /\ 0 <= Len(TxCount) /\ 0 <= Len(TxCount) + 1 /\ 0 \in 0 .. MaxFaults
    BY RealtimeAssumption
  <2>2. Flags
    BY Zenon, <2>1 DEF Init, Flags
  <2>3. Heights
    BY Zenon, <2>1 DEF Init, Heights, EmptyCache
  <2> QED
    BY Zenon, <2>2, <2>3, InitChain
<1>2. ChainInv /\ Flags /\ Heights /\ [Next]_vars => (ChainInv /\ Flags /\ Heights)'
  BY Zenon, NextChain, NextFlags, NextHeights
<1>3. ChainInv /\ Flags /\ Heights => TypeOK
  <2> SUFFICES ASSUME ChainInv, Flags, Heights PROVE TypeOK
    OBVIOUS
  <2> DEFINE top == Len(TxCount)
             k == Len(cache.open)
  <2>0. top \in Nat /\ Blocks = 1 .. top
    BY RealtimeAssumption DEF Blocks
  <2>1. /\ exec \in Nat /\ seen \in Nat /\ db \in Nat /\ db <= exec
        /\ cache.confirm \in Nat /\ cache.pending \in Nat
        /\ cache.global \in Nat /\ cache.global <= cache.confirm
        /\ exec <= top /\ cache.confirm <= top /\ cache.pending <= top /\ seen <= top + 1
    BY Zenon DEF ChainInv, ExactInv, CacheOK, ChainOK, Heights
  <2>2. /\ TopicsOK /\ KafkaOK /\ CacheOK(cache)
        /\ DOMAIN cache.blocks = (cache.global + 1) .. cache.confirm
    BY Zenon DEF ChainInv, ExactInv, ChainOK
  <2> HIDE DEF top
  <2>3. /\ topics.block \subseteq BlockTopic /\ topics.tx \subseteq TxTopic
        /\ late.block \subseteq BlockTopic /\ late.tx \subseteq TxTopic
    BY <2>2 DEF TopicsOK
  <2>4. {trigger, listening, resetFlag, ready} \subseteq BOOLEAN
    BY Zenon DEF Flags
  <2>5. /\ {db, exec} \subseteq 0 .. top
        /\ {cache.confirm, cache.pending, cache.global, seen} \subseteq 0 .. (top + 1)
    BY <2>0, <2>1
  <2>6. ASSUME NEW n \in Blocks, NEW i \in BagToSet(kafka.txs[n]) PROVE i < TxCount[n]
    <3>1. i \in Indices(n)
      BY Zenon, <2>2 DEF KafkaOK, BagToSet
    <3>2. TxCount[n] \in Nat
      BY RealtimeAssumption DEF Blocks
    <3> QED
      BY <3>1, <3>2 DEF Indices
  <2>7. ASSUME NEW i \in DOMAIN cache.open
        PROVE  cache.open[i].num \in Blocks /\ cache.open[i].next \in 0 .. TxCount[cache.open[i].num]
    <3>1. cache.open[i] \in Contexts /\ ContextOK(cache.open[i])
      BY Zenon, <2>2, OpenBlock DEF CacheOK
    <3>2. /\ cache.open[i].num \in Blocks /\ cache.open[i].next \in Nat
          /\ cache.open[i].next <= TxCount[cache.open[i].num]
      BY Zenon, <3>1 DEF Contexts, ContextOK
    <3>3. TxCount[cache.open[i].num] \in Nat
      BY <3>2, RealtimeAssumption DEF Blocks
    <3> QED
      BY <3>2, <3>3
  <2>8. Live \subseteq Blocks
    <3>1. DOMAIN cache.blocks \subseteq Blocks
      BY <2>0, <2>1, <2>2
    <3> QED
      BY Zenon, <2>7, <3>1 DEF Live
  <2> QED
    BY Zenon, <2>2, <2>3, <2>4, <2>5, <2>6, <2>7, <2>8 DEF TypeOK, Flags, KafkaOK, top
<1> QED
  BY <1>1, <1>2, <1>3, PTL DEF Spec
=============================================================================
