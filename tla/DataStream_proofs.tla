-------------------------- MODULE DataStream_proofs --------------------------
(* Facts about the operators of DataStream, for files of any kind of entry. *)
EXTENDS DataStream, TLAPS

\* Sequences with the same entries are the same.
LEMMA SameEntries ==
    ASSUME NEW S, NEW f \in Seq(S), NEW g \in Seq(S), Len(f) = Len(g),
           \A i \in 1 .. Len(f) : f[i] = g[i]
    PROVE  f = g
OBVIOUS

\* One more entry.
LEMMA AppendFacts ==
    ASSUME NEW S, NEW f \in Seq(S), NEW e \in S
    PROVE  /\ Append(f, e) \in Seq(S) /\ Append(f, e) # <<>>
           /\ Len(Append(f, e)) = Len(f) + 1
           /\ \A i \in 1 .. Len(f) : Append(f, e)[i] = f[i]
           /\ Append(f, e)[Len(f) + 1] = e
OBVIOUS

LEMMA ConcatEmpty ==
    ASSUME NEW S, NEW f \in Seq(S)
    PROVE  f \o <<>> = f /\ <<>> \o f = f
OBVIOUS

LEMMA AppendConcat ==
    ASSUME NEW S, NEW f \in Seq(S), NEW e \in S
    PROVE  Append(f, e) = f \o <<e>>
OBVIOUS

\* A prefix.
LEMMA PrefixFacts ==
    ASSUME NEW S, NEW f \in Seq(S), NEW n \in 0 .. Len(f)
    PROVE  /\ SubSeq(f, 1, n) \in Seq(S) /\ Len(SubSeq(f, 1, n)) = n
           /\ \A i \in 1 .. n : SubSeq(f, 1, n)[i] = f[i]
OBVIOUS

LEMMA WholePrefix ==
    ASSUME NEW S, NEW f \in Seq(S)
    PROVE  SubSeq(f, 1, Len(f)) = f /\ SubSeq(f, 1, 0) = <<>>
OBVIOUS

\* What LastOfType looks for.
IsLast(f, t, i) ==
    /\ i \in 0 .. Len(f)
    /\ i > 0 => f[i].type = t
    /\ \A j \in (i + 1) .. Len(f) : f[j].type # t

\* Every non-empty set of naturals has a least element.  WellFoundedInduction has
\* this fact; here it is a hypothesis, which the module with the theorems proves.
WellOrdered == \A T \in SUBSET Nat : T # {} => \E x \in T : \A y \in T : x <= y

\* The search for the last entry of a type always has an answer.
LEMMA LastExists ==
    ASSUME WellOrdered, NEW S, NEW f \in Seq(S), NEW t
    PROVE  IsLast(f, t, LastOfType(f, t))
<1> DEFINE T == {n \in 0 .. Len(f) : n < Len(f) => f[Len(f) - n].type = t}
<1>1. T \in SUBSET Nat /\ Len(f) \in T
  OBVIOUS
<1>2. PICK n \in T : \A m \in T : n <= m
  BY Zenon, <1>1 DEF WellOrdered
<1> DEFINE i == Len(f) - n
<1>3. i \in 0 .. Len(f) /\ (i > 0 => f[i].type = t)
  BY <1>2
<1>4. ASSUME NEW j \in (i + 1) .. Len(f) PROVE f[j].type # t
  <2>1. Len(f) - j \in 0 .. Len(f) /\ Len(f) - j < n /\ Len(f) - (Len(f) - j) = j
    BY <1>2, <1>3
  <2> QED
    BY <1>2, <2>1
<1> QED
  BY Zenon, <1>3, <1>4 DEF IsLast, LastOfType

\* ... and only one.
LEMMA LastUnique ==
    ASSUME NEW S, NEW f \in Seq(S), NEW t, NEW i, NEW k, IsLast(f, t, i), IsLast(f, t, k)
    PROVE  i = k
BY DEF IsLast

\* What one more entry does to the answer.
LEMMA LastOfAppend ==
    ASSUME WellOrdered, NEW S, NEW f \in Seq(S), NEW e \in S, NEW t
    PROVE  LastOfType(Append(f, e), t) =
             IF e.type = t THEN Len(f) + 1 ELSE LastOfType(f, t)
<1> DEFINE g == Append(f, e)
           i == IF e.type = t THEN Len(f) + 1 ELSE LastOfType(f, t)
<1>1. g \in Seq(S) /\ Len(g) = Len(f) + 1 /\ g[Len(f) + 1] = e
        /\ \A j \in 1 .. Len(f) : g[j] = f[j]
  BY AppendFacts
<1>2. IsLast(f, t, LastOfType(f, t))
  BY Zenon, LastExists
<1>3. IsLast(g, t, i)
  BY <1>1, <1>2 DEF IsLast
<1>4. IsLast(g, t, LastOfType(g, t))
  BY Zenon, <1>1, LastExists
<1> QED
  BY Zenon, <1>1, <1>3, <1>4, LastUnique

\* An entry that may follow the last one keeps the file in the grammar.
LEMMA WellFormedAppend ==
    ASSUME NEW S, NEW f \in Seq(S), NEW e \in S, WellFormed(f),
           e.type = "start" /\ Len(f) > 0 =>
             f[Len(f)].type = "end" /\ e.batch = f[Len(f)].batch + 1,
           e.type # "start" =>
             Len(f) > 0 /\ f[Len(f)].type # "end" /\ e.batch = f[Len(f)].batch
    PROVE  WellFormed(Append(f, e))
<1> DEFINE g == Append(f, e)
<1>1. Len(f) \in Nat /\ Len(g) = Len(f) + 1 /\ g[Len(f) + 1] = e
        /\ \A j \in 1 .. Len(f) : g[j] = f[j]
  BY AppendFacts
<1> HIDE DEF g
<1>2. ASSUME NEW i \in 1 .. Len(g)
      PROVE  /\ g[i].type = "start" /\ i > 1 =>
                  g[i - 1].type = "end" /\ g[i].batch = g[i - 1].batch + 1
             /\ g[i].type # "start" =>
                  i > 1 /\ g[i - 1].type # "end" /\ g[i].batch = g[i - 1].batch
  <2>1. CASE i = Len(f) + 1
    BY <1>1, <2>1
  <2>2. CASE i \in 1 .. Len(f)
    <3>1. g[i] = f[i] /\ (i > 1 => g[i - 1] = f[i - 1])
      BY <1>1, <2>2
    <3> QED
      BY Zenon, <2>2, <3>1 DEF WellFormed
  <2> QED
    BY <1>1, <2>1, <2>2
<1> QED
  BY Zenon, <1>2 DEF WellFormed, g
=============================================================================
