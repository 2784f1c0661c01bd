------------------------ MODULE SmtCacheTypes_proofs ------------------------
(* The operators of SmtCache, and the first layer of its invariant: the shapes.   *)
EXTENDS SmtCacheInv, TLAPS, WellFoundedInduction

-----------------------------------------------------------------------------
(* The operators. *)

\* The least member of a set of naturals.
LEMMA LeastOf ==
    ASSUME NEW S \in SUBSET Nat, S # {}
    PROVE  Min(S) \in S /\ \A y \in S : Min(S) <= y
<1> DEFINE R == OpToRel(<, Nat)
<1>1. PICK x \in S : \A y \in S : ~ (<<y, x>> \in R)
  BY Zenon, NatLessThanWellFounded, WFMin
<1>2. ASSUME NEW y \in S PROVE x <= y
  <2>1. ~ (y < x)
    BY Zenon, <1>1 DEF OpToRel
  <2> QED
    BY <2>1
<1> QED
  BY Zenon, <1>2 DEF Min

\* The greatest member of a bounded one.
LEMMA GreatestOf ==
    ASSUME NEW n \in Nat, NEW S \in SUBSET (0 .. n), S # {}
    PROVE  Max(S) \in S /\ \A y \in S : y <= Max(S)
<1> DEFINE D == {n - x : x \in S}
<1>1. D \in SUBSET Nat /\ D # {}
  <2>1. PICK x \in S : TRUE
    BY Zenon
  <2>2. n - x \in D
    BY Zenon, <2>1
  <2> QED
    BY <2>2
<1>2. Min(D) \in D /\ \A y \in D : Min(D) <= y
  BY Zenon, <1>1, LeastOf
<1>3. PICK x \in S : Min(D) = n - x
  BY Zenon, <1>2
<1>4. \A y \in S : y <= x
  BY <1>2, <1>3
<1> QED
  BY Zenon, <1>4 DEF Max

\* Only the empty image has no keys.
LEMMA NoKeys ==
    ASSUME NEW f \in Data
    PROVE  f = <<>> <=> DOMAIN f = {}
  BY DEF Data

LEMMA EmptyIsData == <<>> \in Data /\ DOMAIN <<>> = {}
  BY DEF Data

\* One image laid over another.
LEMMA MergeFacts ==
    ASSUME NEW f \in Data, NEW g \in Data
    PROVE  /\ Merge(f, g) \in Data
           /\ DOMAIN Merge(f, g) = DOMAIN f \cup DOMAIN g
           /\ \A k \in DOMAIN g : Merge(f, g)[k] = g[k]
           /\ \A k \in DOMAIN f \ DOMAIN g : Merge(f, g)[k] = f[k]
           /\ Merge(f, <<>>) = f
<1>1. PICK A \in SUBSET AllKeys, B \in SUBSET AllKeys : f \in [A -> Heights] /\ g \in [B -> Heights]
  BY Zenon DEF Data
<1>2. Merge(f, g) \in [A \cup B -> Heights]
  BY Zenon, <1>1 DEF Merge
<1>3. Merge(f, <<>>) = f
  BY <1>1 DEF Merge
<1>4. Merge(f, g) \in Data
  BY Zenon, <1>2 DEF Data
<1>5. DOMAIN Merge(f, g) = DOMAIN f \cup DOMAIN g
  BY Zenon, <1>1, <1>2
<1> QED
  BY <1>1, <1>3, <1>4, <1>5 DEF Merge

\* An image laid over a tree makes a tree.
LEMMA MergeTree ==
    ASSUME NEW f \in Trees, NEW g \in Data
    PROVE  /\ Merge(f, g) \in Trees
           /\ \A k \in DOMAIN g : Merge(f, g)[k] = g[k]
           /\ \A k \in AllKeys \ DOMAIN g : Merge(f, g)[k] = f[k]
           /\ Merge(f, <<>>) = f
<1>1. PICK B \in SUBSET AllKeys : g \in [B -> Heights]
  BY Zenon DEF Data
<1>2. Merge(f, g) \in [AllKeys -> Heights]
  BY Zenon, <1>1 DEF Merge, Trees
<1>3. Merge(f, <<>>) = f
  BY DEF Merge, Trees
<1> QED
  BY <1>1, <1>2, <1>3 DEF Trees, Merge

\* What the merge of a list holds: the last change of every key.
LEMMA MergeAllFacts ==
    ASSUME NEW list \in Seq(Snapshots)
    PROVE  /\ MergeAll(list) \in Data
           /\ DOMAIN MergeAll(list) = Touched(list)
           /\ \A k \in Touched(list) : \E i \in DOMAIN list :
                /\ k \in DOMAIN list[i].data /\ MergeAll(list)[k] = list[i].data[k]
                /\ \A j \in DOMAIN list : k \in DOMAIN list[j].data => j <= i
<1>1. ASSUME NEW k \in Touched(list)
      PROVE  /\ k \in AllKeys /\ MergeAll(list)[k] \in Heights
             /\ \E i \in DOMAIN list :
                  /\ k \in DOMAIN list[i].data /\ MergeAll(list)[k] = list[i].data[k]
                  /\ \A j \in DOMAIN list : k \in DOMAIN list[j].data => j <= i
  <2> DEFINE S == Touching(list, k)
             i == Max(S)
  <2>1. S \in SUBSET (0 .. Len(list)) /\ S # {} /\ Len(list) \in Nat
    BY DEF Touching, Touched
  <2>2. i \in S /\ \A y \in S : y <= i
    BY Zenon, <2>1, GreatestOf
  <2>3. MergeAll(list)[k] = list[i].data[k]
    BY Zenon DEF MergeAll
  <2> HIDE DEF i
  <2>4. i \in DOMAIN list /\ k \in DOMAIN list[i].data
    BY Zenon, <2>2 DEF Touching
  <2>5. \A j \in DOMAIN list : k \in DOMAIN list[j].data => j <= i
    BY Zenon, <2>2 DEF Touching
  <2>6. list[i].data \in Data
    <3>1. list[i] \in Snapshots
      BY <2>4
    <3> QED
      BY Zenon, <3>1 DEF Snapshots
  <2>7. k \in AllKeys /\ list[i].data[k] \in Heights
    BY Zenon, <2>4, <2>6 DEF Data
  <2> QED
    BY Zenon, <2>3, <2>4, <2>5, <2>7
<1>2. DOMAIN MergeAll(list) = Touched(list)
  BY Zenon DEF MergeAll
<1>3. Touched(list) \subseteq AllKeys
  BY Zenon, <1>1
<1>4. MergeAll(list) \in [Touched(list) -> Heights]
  BY Zenon, <1>1 DEF MergeAll
<1>5. MergeAll(list) \in Data
  BY Zenon, <1>3, <1>4 DEF Data
<1> QED
  BY Zenon, <1>1, <1>2, <1>5

\* A list without its last member, and with one more.
LEMMA ListFront ==
    ASSUME NEW S, NEW list \in Seq(S), list # <<>>
    PROVE  /\ AllButLast(list) \in Seq(S) /\ Len(AllButLast(list)) = Len(list) - 1
           /\ DOMAIN AllButLast(list) = 1 .. (Len(list) - 1)
           /\ \A i \in DOMAIN AllButLast(list) :
                i \in DOMAIN list /\ AllButLast(list)[i] = list[i]
           /\ Len(list) \in DOMAIN list /\ Newly(list) = list[Len(list)]
<1> DEFINE n == Len(list)
           t == SubSeq(list, 1, n - 1)
<1>1. n \in Nat /\ n # 0 /\ DOMAIN list = 1 .. n
  OBVIOUS
<1>2. \A i \in 1 .. (n - 1) : list[i] \in S
  BY <1>1
<1>3. /\ t \in Seq(S)
      /\ Len(t) = IF 1 <= n - 1 THEN (n - 1) - 1 + 1 ELSE 0
      /\ \A i \in 1 .. ((n - 1) - 1 + 1) : t[i] = list[1 + i - 1]
  BY <1>1, <1>2
<1> HIDE DEF t, n
<1>4. Len(t) = n - 1 /\ (n - 1) - 1 + 1 = n - 1
  BY <1>1, <1>3
<1>5. DOMAIN t = 1 .. (n - 1)
  BY <1>3, <1>4
<1>6. \A i \in 1 .. (n - 1) : i \in 1 .. n /\ 1 + i - 1 = i
  BY <1>1
<1>7. t = AllButLast(list)
  BY Zenon DEF t, n, AllButLast
<1>8. n \in DOMAIN list
  BY <1>1
<1> QED
  BY Zenon, <1>1, <1>3, <1>4, <1>5, <1>6, <1>7, <1>8 DEF Newly, n

LEMMA ListAppend ==
    ASSUME NEW S, NEW list \in Seq(S), NEW e \in S
    PROVE  /\ Append(list, e) \in Seq(S) /\ Append(list, e) # <<>>
           /\ Len(Append(list, e)) = Len(list) + 1
           /\ DOMAIN Append(list, e) = 1 .. (Len(list) + 1) /\ DOMAIN list = 1 .. Len(list)
           /\ \A i \in DOMAIN list : i \in DOMAIN Append(list, e) /\ Append(list, e)[i] = list[i]
           /\ Newly(Append(list, e)) = e /\ Append(list, e)[Len(list) + 1] = e
           /\ AllButLast(Append(list, e)) = list
<1> DEFINE t == Append(list, e)
           f == AllButLast(t)
<1>1. /\ t \in Seq(S) /\ t # <<>> /\ Len(t) = Len(list) + 1
      /\ DOMAIN t = 1 .. (Len(list) + 1) /\ DOMAIN list = 1 .. Len(list)
      /\ \A i \in DOMAIN list : i \in DOMAIN t /\ t[i] = list[i]
      /\ Newly(t) = e /\ t[Len(list) + 1] = e /\ Len(list) \in Nat
  BY DEF Newly
<1> HIDE DEF t
<1>2. f \in Seq(S) /\ Len(f) = Len(t) - 1 /\ \A i \in DOMAIN f : f[i] = t[i]
  BY Zenon, <1>1, ListFront
<1> HIDE DEF f
<1>3. Len(f) = Len(list)
  BY <1>1, <1>2
<1>4. \A i \in 1 .. Len(list) : f[i] = list[i]
  BY <1>1, <1>2, <1>3
<1>5. f = list
  BY <1>2, <1>3, <1>4
<1> QED
  BY Zenon, <1>1, <1>5 DEF f, t

\* The last snapshot of a key decides.
LEMMA LatestDecides ==
    ASSUME NEW list \in Seq(Snapshots), NEW i \in DOMAIN list, NEW k \in DOMAIN list[i].data,
           \A j \in DOMAIN list : k \in DOMAIN list[j].data => j <= i
    PROVE  k \in Touched(list) /\ MergeAll(list)[k] = list[i].data[k]
<1>1. k \in Touched(list)
  BY Zenon DEF Touched
<1>2. PICK j \in DOMAIN list :
        /\ k \in DOMAIN list[j].data /\ MergeAll(list)[k] = list[j].data[k]
        /\ \A l \in DOMAIN list : k \in DOMAIN list[l].data => l <= j
  BY Zenon, <1>1, MergeAllFacts
<1>3. i <= j /\ j <= i /\ i \in Int /\ j \in Int
  BY <1>2
<1>4. i = j
  BY <1>3
<1> QED
  BY Zenon, <1>1, <1>2, <1>4

\* One more snapshot is laid over the merge.
LEMMA MergeAppend ==
    ASSUME NEW list \in Seq(Snapshots), NEW e \in Snapshots
    PROVE  /\ Touched(Append(list, e)) = Touched(list) \cup DOMAIN e.data
           /\ \A k \in DOMAIN e.data : MergeAll(Append(list, e))[k] = e.data[k]
           /\ \A k \in Touched(list) \ DOMAIN e.data :
                MergeAll(Append(list, e))[k] = MergeAll(list)[k]
<1> DEFINE t == Append(list, e)
           n == Len(list)
<1>1. /\ t \in Seq(Snapshots) /\ DOMAIN t = 1 .. (n + 1) /\ DOMAIN list = 1 .. n
      /\ \A i \in DOMAIN list : i \in DOMAIN t /\ t[i] = list[i]
      /\ t[n + 1] = e /\ n \in Nat
  BY ListAppend
<1> HIDE DEF t, n
<1>2. \A i \in DOMAIN t : i \in DOMAIN list \/ i = n + 1
  BY <1>1
<1>3. n + 1 \in DOMAIN t
  BY <1>1
<1>4. Touched(t) = Touched(list) \cup DOMAIN e.data
  BY Zenon, <1>1, <1>2, <1>3 DEF Touched
<1>5. ASSUME NEW k \in DOMAIN e.data PROVE MergeAll(t)[k] = e.data[k]
  <2>1. \A j \in DOMAIN t : j <= n + 1
    BY <1>1
  <2> QED
    BY Zenon, <2>1, <1>1, <1>3, LatestDecides
<1>6. ASSUME NEW k \in Touched(list), k \notin DOMAIN e.data
      PROVE  MergeAll(t)[k] = MergeAll(list)[k]
  <2>1. PICK i \in DOMAIN list :
          /\ k \in DOMAIN list[i].data /\ MergeAll(list)[k] = list[i].data[k]
          /\ \A j \in DOMAIN list : k \in DOMAIN list[j].data => j <= i
    BY Zenon, MergeAllFacts
  <2>2. \A j \in DOMAIN t : k \in DOMAIN t[j].data => j <= i
    BY Zenon, <1>1, <1>2, <1>6, <2>1
  <2>3. i \in DOMAIN t /\ k \in DOMAIN t[i].data /\ t[i] = list[i]
    BY Zenon, <1>1, <2>1
  <2>4. MergeAll(t)[k] = t[i].data[k]
    BY Zenon, <1>1, <2>2, <2>3, LatestDecides
  <2> QED
    BY Zenon, <2>1, <2>3, <2>4
<1> QED
  BY Zenon, <1>4, <1>5, <1>6 DEF t

\* A list is its last member appended to the others.
LEMMA FrontAppend ==
    ASSUME NEW S, NEW list \in Seq(S), list # <<>>
    PROVE  list = Append(AllButLast(list), Newly(list)) /\ Newly(list) \in S
<1> DEFINE f == AllButLast(list)
           e == Newly(list)
           t == Append(f, e)
<1>1. /\ f \in Seq(S) /\ Len(f) = Len(list) - 1 /\ DOMAIN f = 1 .. (Len(list) - 1)
      /\ \A i \in DOMAIN f : f[i] = list[i]
      /\ Len(list) \in DOMAIN list /\ e = list[Len(list)]
  BY Zenon, ListFront
<1>2. e \in S
  BY <1>1
<1> HIDE DEF f, e
<1>3. /\ t \in Seq(S) /\ Len(t) = Len(f) + 1 /\ t[Len(f) + 1] = e
      /\ \A i \in DOMAIN f : t[i] = f[i]
  BY <1>1, <1>2, ListAppend
<1> HIDE DEF t
<1>4. Len(list) \in Nat /\ Len(f) + 1 = Len(list) /\ Len(t) = Len(list)
  BY <1>1, <1>3
<1>5. ASSUME NEW i \in 1 .. Len(list) PROVE t[i] = list[i]
  <2>1. i \in DOMAIN f \/ i = Len(list)
    BY <1>1, <1>4
  <2> QED
    BY Zenon, <1>1, <1>3, <1>4, <2>1
<1>6. t = list
  BY <1>3, <1>4, <1>5
<1> QED
  BY Zenon, <1>2, <1>6 DEF t, f, e

\* The height of a merge is that of its last snapshot.
LEMMA MergeStamp ==
    ASSUME NEW list \in Seq(Snapshots), list # <<>>, \A i \in DOMAIN list : Stamped(list[i])
    PROVE  /\ "lastHeight" \in Touched(list) /\ MergeAll(list) # <<>>
           /\ MergeAll(list)["lastHeight"] = Newly(list).height
<1> DEFINE n == Len(list)
<1>1. n \in DOMAIN list /\ Newly(list) = list[n] /\ DOMAIN list = 1 .. n /\ n \in Nat
  BY DEF Newly
<1> HIDE DEF n
<1>2. \A j \in DOMAIN list : j <= n
  BY <1>1
<1>3. "lastHeight" \in DOMAIN list[n].data /\ list[n].data["lastHeight"] = list[n].height
  BY Zenon, <1>1 DEF Stamped
<1>4. "lastHeight" \in Touched(list) /\ MergeAll(list)["lastHeight"] = list[n].data["lastHeight"]
  BY Zenon, <1>1, <1>2, <1>3, LatestDecides
<1>5. MergeAll(list) # <<>>
  BY <1>4, MergeAllFacts, NoKeys
<1> QED
  BY Zenon, <1>1, <1>3, <1>4, <1>5

\* The newest snapshot of a height.
LEMMA NewestFacts ==
    ASSUME NEW S, NEW list \in Seq(S), NEW h
    PROVE  /\ Newest(list, h) \in 0 .. Len(list)
           /\ Newest(list, h) # 0 =>
                Newest(list, h) \in DOMAIN list /\ list[Newest(list, h)].height = h
           /\ \A i \in DOMAIN list : list[i].height = h => i <= Newest(list, h) /\ Newest(list, h) # 0
<1> DEFINE found == {i \in DOMAIN list : list[i].height = h}
<1>1. found \in SUBSET (0 .. Len(list)) /\ Len(list) \in Nat
  OBVIOUS
<1>2. CASE found = {}
  BY <1>1, <1>2 DEF Newest
<1>3. CASE found # {}
  <2>1. Max(found) \in found /\ \A y \in found : y <= Max(found)
    BY Zenon, <1>1, <1>3, GreatestOf
  <2>2. Newest(list, h) = Max(found)
    BY Zenon, <1>3 DEF Newest
  <2> QED
    BY <1>1, <2>1, <2>2
<1> QED
  BY Zenon, <1>2, <1>3

\* What is left of a list after its first n members.
LEMMA ListSuffix ==
    ASSUME NEW S, NEW list \in Seq(S), NEW n \in 0 .. Len(list)
    PROVE  LET t == SubSeq(list, n + 1, Len(list))
           IN  /\ t \in Seq(S) /\ Len(t) = Len(list) - n /\ DOMAIN t = 1 .. (Len(list) - n)
               /\ \A i \in DOMAIN t : t[i] = list[n + i] /\ n + i \in DOMAIN list
               /\ \A i \in DOMAIN list : i > n => i - n \in DOMAIN t /\ t[i - n] = list[i]
<1> DEFINE m == Len(list)
           t == SubSeq(list, n + 1, m)
<1>1. m \in Nat /\ n \in Nat /\ n <= m /\ DOMAIN list = 1 .. m
  OBVIOUS
<1>2. \A i \in (n + 1) .. m : list[i] \in S
  BY <1>1
<1>3. /\ t \in Seq(S)
      /\ Len(t) = IF n + 1 <= m THEN m - (n + 1) + 1 ELSE 0
      /\ \A i \in 1 .. (m - (n + 1) + 1) : t[i] = list[(n + 1) + i - 1]
  BY <1>1, <1>2
<1> HIDE DEF t, m
<1>4. Len(t) = m - n /\ m - (n + 1) + 1 = m - n
  BY <1>1, <1>3
<1>5. DOMAIN t = 1 .. (m - n)
  BY <1>3, <1>4
<1>6. \A i \in 1 .. (m - n) : (n + 1) + i - 1 = n + i /\ n + i \in 1 .. m
  BY <1>1
<1>7. \A i \in 1 .. m : i > n => i - n \in 1 .. (m - n) /\ n + (i - n) = i
  BY <1>1
<1>8. \A i \in DOMAIN t : t[i] = list[n + i] /\ n + i \in DOMAIN list
  BY Zenon, <1>1, <1>3, <1>4, <1>5, <1>6
<1>9. \A i \in DOMAIN list : i > n => i - n \in DOMAIN t /\ t[i - n] = list[i]
  BY Zenon, <1>1, <1>5, <1>7, <1>8
<1> QED
  BY Zenon, <1>3, <1>4, <1>5, <1>8, <1>9 DEF t, m

\* cascadeDeleteCache drops the first snapshots.
LEMMA CascadeFacts ==
    ASSUME NEW S, NEW list \in Seq(S), NEW h
    PROVE  LET n == Newest(list, h)
               t == CascadeDelete(list, h)
           IN  /\ n \in 0 .. Len(list)
               /\ t \in Seq(S) /\ Len(t) = Len(list) - n /\ DOMAIN t = 1 .. (Len(list) - n)
               /\ \A i \in DOMAIN t : t[i] = list[n + i] /\ n + i \in DOMAIN list
               /\ \A i \in DOMAIN list : i > n => i - n \in DOMAIN t /\ t[i - n] = list[i]
<1> DEFINE n == Newest(list, h)
<1>1. n \in 0 .. Len(list)
  BY Zenon, NewestFacts
<1> HIDE DEF n
<1> QED
  BY Zenon, <1>1, ListSuffix DEF CascadeDelete, n

\* deleteTargetCache drops one snapshot at most; the last one if it has the height.
LEMMA DeleteFacts ==
    ASSUME NEW S, NEW list \in Seq(S), NEW h
    PROVE  /\ DeleteTarget(list, h) \in Seq(S)
           /\ \A i \in DOMAIN DeleteTarget(list, h) : \E j \in DOMAIN list :
                DeleteTarget(list, h)[i] = list[j]
           /\ list # <<>> /\ Newly(list).height = h => DeleteTarget(list, h) = AllButLast(list)
<1> DEFINE n == Newest(list, h)
           m == Len(list)
           a == SubSeq(list, 1, n - 1)
           b == SubSeq(list, n + 1, m)
<1>1. n \in 0 .. m /\ m \in Nat /\ DOMAIN list = 1 .. m
  BY NewestFacts
<1>2. \A i \in DOMAIN list : list[i].height = h => i <= n /\ n # 0
  BY Zenon, NewestFacts
<1>3. list # <<>> /\ Newly(list).height = h => n = m /\ n # 0
  <2>1. list # <<>> => m \in DOMAIN list /\ Newly(list) = list[m]
    BY DEF Newly
  <2> HIDE DEF n, m
  <2> QED
    BY <1>1, <1>2, <2>1
<1>4. CASE n = 0
  <2>1. DeleteTarget(list, h) = list
    BY Zenon, <1>4 DEF DeleteTarget
  <2> HIDE DEF n, m
  <2> QED
    BY Zenon, <1>3, <1>4, <2>1
<1>5. CASE n # 0
  <2>1. DeleteTarget(list, h) = a \o b
    BY Zenon, <1>5 DEF DeleteTarget
  <2>2. /\ b \in Seq(S) /\ Len(b) = m - n
        /\ \A i \in DOMAIN b : b[i] = list[n + i] /\ n + i \in DOMAIN list
    <3> HIDE DEF n
    <3> QED
      BY Zenon, <1>1, ListSuffix
  <2>3. \A i \in 1 .. (n - 1) : list[i] \in S
    <3> HIDE DEF n
    <3> QED
      BY <1>1
  <2>4. /\ a \in Seq(S)
        /\ Len(a) = IF 1 <= n - 1 THEN (n - 1) - 1 + 1 ELSE 0
        /\ \A i \in 1 .. ((n - 1) - 1 + 1) : a[i] = list[1 + i - 1]
    <3> HIDE DEF n
    <3> QED
      BY <1>1, <2>3
  <2>a. n = m => a = AllButLast(list)
    BY Zenon DEF AllButLast
  <2> HIDE DEF a, b, n, m
  <2>5. Len(a) = n - 1 /\ (n - 1) - 1 + 1 = n - 1
    BY <1>1, <1>5, <2>4
  <2>6. \A i \in DOMAIN a : i \in DOMAIN list /\ a[i] = list[i]
    BY <1>1, <1>5, <2>4, <2>5
  <2>7. /\ a \o b \in Seq(S) /\ Len(a \o b) = Len(a) + Len(b)
        /\ \A i \in 1 .. (Len(a) + Len(b)) :
             (a \o b)[i] = IF i <= Len(a) THEN a[i] ELSE b[i - Len(a)]
    <3>1. a \in Seq(S) /\ b \in Seq(S)
      BY Zenon, <2>2, <2>4
    <3>2. a \o b \in Seq(S)
      BY <3>1
    <3>3. Len(a \o b) = Len(a) + Len(b)
      BY <3>1
    <3>4. \A i \in 1 .. (Len(a) + Len(b)) :
            (a \o b)[i] = IF i <= Len(a) THEN a[i] ELSE b[i - Len(a)]
      BY <3>1
    <3> QED
      BY Zenon, <3>2, <3>3, <3>4
  <2>8. ASSUME NEW i \in DOMAIN (a \o b)
        PROVE  \E j \in DOMAIN list : (a \o b)[i] = list[j]
    <3>1. i \in 1 .. (Len(a) + Len(b)) /\ Len(a) \in Nat /\ Len(b) \in Nat
      BY <2>2, <2>4, <2>7
    <3>2. CASE i <= Len(a)
      <4>1. i \in DOMAIN a /\ (a \o b)[i] = a[i]
        BY <2>4, <2>7, <3>1, <3>2
      <4> QED
        BY Zenon, <2>6, <4>1
    <3>3. CASE ~ (i <= Len(a))
      <4>1. i - Len(a) \in DOMAIN b /\ (a \o b)[i] = b[i - Len(a)]
        BY <2>2, <2>7, <3>1, <3>3
      <4> QED
        BY Zenon, <2>2, <4>1
    <3> QED
      BY Zenon, <3>2, <3>3
  <2>9. ASSUME n = m PROVE a \o b = a
    <3>1. Len(b) = 0 /\ b = <<>>
      BY <1>1, <2>2, <2>9
    <3> QED
      BY <2>4, <3>1
  <2> QED
    BY Zenon, <1>3, <2>1, <2>7, <2>8, <2>9, <2>a
<1> QED
  BY Zenon, <1>4, <1>5

\* The heaps keep their shape, and never show a height that was not pushed.
LEMMA HeapFacts ==
    ASSUME NEW heap \in Heaps, heap.data \subseteq heap.seen, NEW h \in Heights, MaxBlocks \in Nat
    PROVE  /\ HeapPush(heap, h) \in Heaps
           /\ HeapPush(heap, h).data \subseteq HeapPush(heap, h).seen
           /\ HeapPush(heap, h).data \subseteq heap.data \cup {h}
           /\ HeapPop(heap) \in Heaps
           /\ HeapPop(heap).data \subseteq HeapPop(heap).seen
           /\ HeapPop(heap).data \subseteq heap.data
           /\ HeapTop(heap) \in Heights
           /\ HeapTop(heap) = 0 \/ HeapTop(heap) \in heap.data
<1>1. /\ HeapPush(heap, h) \in Heaps
      /\ HeapPush(heap, h).data \subseteq HeapPush(heap, h).seen
      /\ HeapPush(heap, h).data \subseteq heap.data \cup {h}
  BY Zenon DEF HeapPush, Heaps
<1>2. heap.data \subseteq Heights /\ Heights \subseteq Nat /\ 0 \in Heights
  BY DEF Heaps, Heights
<1>3. heap.data # {} => Min(heap.data) \in heap.data
  BY Zenon, <1>2, LeastOf
<1>4. HeapTop(heap) \in Heights /\ (HeapTop(heap) = 0 \/ HeapTop(heap) \in heap.data)
  BY Zenon, <1>2, <1>3 DEF HeapTop
<1>5. /\ HeapPop(heap) \in Heaps
      /\ HeapPop(heap).data \subseteq HeapPop(heap).seen
      /\ HeapPop(heap).data \subseteq heap.data
  BY Zenon DEF HeapPop, Heaps
<1> QED
  BY Zenon, <1>1, <1>4, <1>5
-----------------------------------------------------------------------------
(* The shapes. *)

LEMMA Constants ==
    /\ MaxBlocks \in Nat /\ MaxWorkers \in Nat \ {0} /\ ChannelSize \in Nat \ {0}
    /\ "lastHeight" \in AllKeys
    /\ Slots \subseteq Nat
    /\ 0 \in Heights /\ Heights \subseteq Nat
    /\ NoImage \in Images
  BY SmtCacheAssumption, EmptyIsData DEF AllKeys, Slots, Heights, NoImage, Images

LEMMA InitTypes == Init => TypeInv
<1> SUFFICES ASSUME Init PROVE TypeInv
  OBVIOUS
<1>1. db \in Trees /\ view \in Trees
  BY Zenon, Constants DEF Init, Trees, None
<1>2. tree \in Seq(Trees) /\ Len(tree) = 1 /\ tree[1] = db
  BY <1>1 DEF Init
<1>3. DataTypes
  BY <1>1, <1>2, Constants, EmptyIsData DEF DataTypes, Init
<1>4. HeapTypes
  BY Zenon DEF HeapTypes, Init, EmptyHeap, Heaps
<1>5. ThreadTypes
  <2>1. /\ channel \in Seq(Images) /\ Len(channel) <= ChannelSize
        /\ errors \in Seq(Kinds)
    BY Constants DEF Init
  <2>2. dispatcher \in Dispatchers
    BY Zenon, Constants DEF Init, Dispatchers
  <2>3. flusher \in [{"batch", "stop"} -> Flushers]
    BY Zenon, Constants DEF Init, Flushers
  <2>4. worker \in [Slots -> Workers]
    BY Zenon, Constants DEF Init, Workers
  <2> QED
    BY Zenon, <2>1, <2>2, <2>3, <2>4 DEF ThreadTypes, Init
<1>6. Touched(snapshots) = {}
  BY DEF Touched, Init
<1>7. \A i \in DOMAIN tree : tree[i]["lastHeight"] = i - 1
  BY <1>1, <1>2, Constants DEF Init, None
<1>8. Shapes
  BY <1>2, <1>6, <1>7 DEF Shapes, Init, Height
<1>9. Control /\ Recorded
  BY Zenon DEF Control, Recorded, Init
<1> QED
  BY Zenon, <1>3, <1>4, <1>5, <1>8, <1>9 DEF TypeInv

\* What a step that leaves the cache, the tree and the heaps alone keeps.
LEMMA CacheFrame ==
    ASSUME TypeInv, UNCHANGED <<tree, cacheVars, heapVars>>, db' \in Trees, view' \in Trees
    PROVE  /\ DataTypes' /\ HeapTypes' /\ Shapes'
           /\ seq' # "recorded" \/ seq' = seq => Recorded'
<1>1. DataTypes'
  BY Zenon DEF TypeInv, DataTypes, cacheVars
<1>2. HeapTypes'
  BY Zenon DEF TypeInv, HeapTypes, heapVars
<1>3. Shapes'
  BY Zenon DEF TypeInv, Shapes, cacheVars, Height, Stamped, Touched
<1>4. seq' # "recorded" \/ seq' = seq => Recorded'
  BY Zenon DEF TypeInv, Recorded, cacheVars, Height, Newly
<1> QED
  BY Zenon, <1>1, <1>2, <1>3, <1>4

\* What a list of images is without its first.
LEMMA ListTail ==
    ASSUME NEW S, NEW list \in Seq(S), list # <<>>
    PROVE  /\ Head(list) \in S /\ Tail(list) \in Seq(S) /\ Len(Tail(list)) = Len(list) - 1
           /\ DOMAIN list = 1 .. Len(list) /\ DOMAIN Tail(list) = 1 .. (Len(list) - 1)
           /\ 1 \in DOMAIN list /\ Head(list) = list[1]
           /\ \A i \in DOMAIN Tail(list) : i + 1 \in DOMAIN list /\ Tail(list)[i] = list[i + 1]
           /\ \A i \in DOMAIN list : i = 1 \/ i - 1 \in DOMAIN Tail(list)
<1>1. /\ Head(list) \in S /\ Tail(list) \in Seq(S) /\ Len(Tail(list)) = Len(list) - 1
      /\ DOMAIN list = 1 .. Len(list) /\ Len(list) \in Nat /\ Len(list) # 0
      /\ Head(list) = list[1]
  OBVIOUS
<1>2. DOMAIN Tail(list) = 1 .. (Len(list) - 1)
  BY <1>1
<1>3. \A i \in DOMAIN Tail(list) : Tail(list)[i] = list[i + 1]
  BY <1>1, <1>2
<1> QED
  BY <1>1, <1>2, <1>3

\* The steps that leave the cache, the heaps and the chain alone.
ThreadStep ==
    \/ StartStep \/ EndStep \/ FailBeforeCommit \/ FailInCommit
    \/ Receive \/ Dispatch \/ Stop \/ Drain \/ Done
    \/ (\E t \in {"batch", "stop"} : FlushSend(t))
    \/ (\E w \in Slots : Flush(w) \/ FlushFails(w) \/ ReadTop(w) \/ CompareTop(w))

LEMMA ThreadStepTypes == TypeInv /\ ThreadStep => TypeInv'
<1> SUFFICES ASSUME TypeInv, ThreadStep PROVE TypeInv'
  OBVIOUS
<1> USE DEF TypeInv
<1>1. UNCHANGED <<tree, cacheVars, heapVars>>
  BY Zenon DEF ThreadStep, StartStep, EndStep, FailBeforeCommit, FailInCommit, Receive, Dispatch,
         Stop, Drain, Done, FlushSend, Flush, FlushFails, ReadTop, CompareTop, seqVars
<1>2. view' \in Trees
  BY Zenon DEF ThreadStep, StartStep, EndStep, FailBeforeCommit, FailInCommit, Receive, Dispatch,
         Stop, Drain, Done, FlushSend, Flush, FlushFails, ReadTop, CompareTop, seqVars, DataTypes
<1>3. \A k \in Kinds : Fails(k) => errors' \in Seq(Kinds)
  BY DEF Fails, ThreadTypes
<1>4. db' \in Trees /\ ThreadTypes' /\ Control' /\ (seq' = seq \/ seq' # "recorded")
  <2>1. CASE StartStep
    BY Zenon, <2>1 DEF StartStep, DataTypes, ThreadTypes, Control
  <2>2. CASE EndStep
    BY Zenon, <2>2 DEF EndStep, DataTypes, ThreadTypes, Control, Flushers
  <2>3. CASE FailBeforeCommit
    <3>1. errors' \in Seq(Kinds)
      BY Zenon, <1>3, <2>3 DEF FailBeforeCommit, Kinds
    <3> QED
      BY Zenon, <2>3, <3>1 DEF FailBeforeCommit, DataTypes, ThreadTypes, Control, Flushers
  <2>4. CASE FailInCommit
    <3>1. errors' \in Seq(Kinds)
      BY Zenon, <1>3, <2>4 DEF FailInCommit, Kinds
    <3> QED
      BY Zenon, <2>4, <3>1 DEF FailInCommit, DataTypes, ThreadTypes, Control
  <2>5. CASE Receive
    <3>1. Head(channel) \in Images /\ Tail(channel) \in Seq(Images) /\ Len(Tail(channel)) = Len(channel) - 1
      BY Zenon, <2>5, ListTail DEF Receive, ThreadTypes
    <3>2. Len(channel) \in Nat /\ Len(channel) <= ChannelSize
      BY DEF ThreadTypes
    <3>3. channel' \in Seq(Images) /\ Len(channel') <= ChannelSize
      BY <2>5, <3>1, <3>2, Constants DEF Receive
    <3>4. dispatcher' \in Dispatchers /\ dispatcher'.pc = dispatcher.pc
      BY Zenon, <2>5, <3>1 DEF Receive, ThreadTypes, Dispatchers
    <3> QED
      BY Zenon, <2>5, <3>3, <3>4 DEF Receive, DataTypes, ThreadTypes, Control, seqVars
  <2>6. CASE Dispatch
    <3>1. dispatcher' \in Dispatchers /\ dispatcher'.pc = dispatcher.pc
      BY Zenon, <2>6, Constants DEF Dispatch, ThreadTypes, Dispatchers
    <3>2. dispatcher.held \in Images
      BY Zenon DEF ThreadTypes, Dispatchers
    <3>3. worker' \in [Slots -> Workers]
      BY <2>6, <3>2, Constants DEF Dispatch, ThreadTypes, Workers
    <3> QED
      BY Zenon, <2>6, <3>1, <3>3 DEF Dispatch, DataTypes, ThreadTypes, Control, seqVars
  <2>7. CASE Stop
    BY Zenon, <2>7 DEF Stop, DataTypes, ThreadTypes, Control, Flushers, Dispatchers
  <2>8. CASE Drain \/ Done
    BY Zenon, <2>8 DEF Drain, Done, DataTypes, ThreadTypes, Control, seqVars, Dispatchers
  <2>9. ASSUME NEW t \in {"batch", "stop"}, FlushSend(t)
        PROVE  db' \in Trees /\ ThreadTypes' /\ Control' /\ seq' = seq
    <3> DEFINE m == [height |-> flusher[t].height, data |-> toPush]
    <3>1. m \in Images /\ channel \in Seq(Images)
      BY Zenon DEF DataTypes, ThreadTypes, Images, Flushers
    <3>2. Append(channel, m) \in Seq(Images) /\ Len(Append(channel, m)) = Len(channel) + 1
      BY <3>1
    <3>3. channel' \in Seq(Images) /\ Len(channel') <= ChannelSize
      <4>1. (channel' = Append(channel, m) /\ Len(channel) < ChannelSize) \/ channel' = channel
        BY Zenon, <2>9 DEF FlushSend
      <4> HIDE DEF m
      <4>2. Len(channel) \in Nat /\ Len(channel) <= ChannelSize
        BY DEF ThreadTypes
      <4> QED
        BY <3>1, <3>2, <4>1, <4>2, Constants
    <3>4. \E p \in {"mark", "off"} : flusher' = [flusher EXCEPT ![t].pc = p]
      BY Zenon, <2>9 DEF FlushSend
    <3>5. flusher' \in [{"batch", "stop"} -> Flushers]
      BY <3>4 DEF ThreadTypes, Flushers
    <3>6. Control'
      BY <2>9, <3>4 DEF FlushSend, ThreadTypes, Control, seqVars
    <3> QED
      BY Zenon, <2>9, <3>3, <3>5, <3>6 DEF FlushSend, DataTypes, ThreadTypes, seqVars
  <2>10. ASSUME NEW w \in Slots, Flush(w)
         PROVE  db' \in Trees /\ ThreadTypes' /\ Control' /\ seq' = seq
    <3>1. worker[w].image.data \in Data
      BY Zenon DEF ThreadTypes, Workers, Images
    <3>2. db' \in Trees
      BY Zenon, <2>10, <3>1, MergeTree DEF Flush, DataTypes
    <3> QED
      BY Zenon, <2>10, <3>2 DEF Flush, ThreadTypes, Control, seqVars, Workers
  <2>11. ASSUME NEW w \in Slots, FlushFails(w)
         PROVE  db' \in Trees /\ ThreadTypes' /\ Control' /\ seq' = seq
    <3>1. errors' \in Seq(Kinds)
      BY Zenon, <1>3, <2>11 DEF FlushFails, Kinds
    <3> QED
      BY Zenon, <2>11, <3>1 DEF FlushFails, DataTypes, ThreadTypes, Control, seqVars, Workers
  <2>12. ASSUME NEW w \in Slots, ReadTop(w) \/ CompareTop(w)
         PROVE  db' \in Trees /\ ThreadTypes' /\ Control' /\ seq' = seq
    <3>1. HeapTop(confirmed) \in Heights
      BY Zenon, HeapFacts, Constants DEF HeapTypes
    <3>2. ReadTop(w) => worker' \in [Slots -> Workers]
      BY Zenon, <3>1 DEF ReadTop, ThreadTypes, Workers
    <3>3. CompareTop(w) => worker' \in [Slots -> Workers]
      BY DEF CompareTop, ThreadTypes, Workers
    <3> QED
      BY Zenon, <2>12, <3>2, <3>3 DEF ReadTop, CompareTop, DataTypes, ThreadTypes, Control, seqVars
  <2> QED
    BY Zenon, <2>1, <2>2, <2>3, <2>4, <2>5, <2>6, <2>7, <2>8, <2>9, <2>10, <2>11, <2>12 DEF ThreadStep
<1>5. DataTypes' /\ HeapTypes' /\ Shapes' /\ Recorded'
  BY Zenon, <1>1, <1>2, <1>4, CacheFrame
<1> QED
  BY Zenon, <1>4, <1>5

\* The steps of TruncateSmtCacheList that change a heap or the snapshots.
TruncateStep ==
    \E w \in Slots : Confirm(w) \/ PopConfirmed(w) \/ PopPushed(w) \/ DeleteSnapshots(w)

LEMMA TruncateStepTypes == TypeInv /\ TruncateStep => TypeInv'
<1> SUFFICES ASSUME TypeInv, NEW w \in Slots,
                    Confirm(w) \/ PopConfirmed(w) \/ PopPushed(w) \/ DeleteSnapshots(w)
             PROVE  TypeInv'
  BY Zenon DEF TruncateStep
<1> USE DEF TypeInv
<1>1. worker' \in [Slots -> Workers]
  BY DEF Confirm, PopConfirmed, PopPushed, DeleteSnapshots, ThreadTypes, Workers
<1>2. ThreadTypes' /\ Control'
  BY Zenon, <1>1 DEF Confirm, PopConfirmed, PopPushed, DeleteSnapshots, ThreadTypes, Control, seqVars
<1>3. worker[w].image.height \in Heights
  BY Zenon DEF ThreadTypes, Workers, Images
<1>4. HeapTypes'
  <2>1. CASE Confirm(w)
    BY <1>3, <2>1, HeapFacts, Constants DEF Confirm, HeapTypes
  <2>2. CASE PopConfirmed(w)
    BY Zenon, <1>3, <2>2, HeapFacts, Constants DEF PopConfirmed, HeapTypes
  <2>3. CASE PopPushed(w)
    BY Zenon, <1>3, <2>3, HeapFacts, Constants DEF PopPushed, HeapTypes
  <2>4. CASE DeleteSnapshots(w)
    BY Zenon, <2>4 DEF DeleteSnapshots, HeapTypes, heapVars
  <2> QED
    BY Zenon, <2>1, <2>2, <2>3, <2>4
<1>5. /\ snapshots' \in Seq(Snapshots)
      /\ \A i \in DOMAIN snapshots' : \E j \in DOMAIN snapshots : snapshots'[i] = snapshots[j]
  <2>1. CASE DeleteSnapshots(w)
    BY <2>1, CascadeFacts DEF DeleteSnapshots, DataTypes
  <2>2. CASE ~ DeleteSnapshots(w)
    BY Zenon, <2>2 DEF Confirm, PopConfirmed, PopPushed, DataTypes, cacheVars
  <2> QED
    BY Zenon, <2>1, <2>2
<1>6. /\ UNCHANGED <<db, view, tree, longLived, toPush, current, lastRecord, lastPushed, lastReset>>
      /\ UNCHANGED seq
  BY Zenon DEF Confirm, PopConfirmed, PopPushed, DeleteSnapshots, cacheVars, seqVars
<1>7. DataTypes'
  BY Zenon, <1>5, <1>6 DEF DataTypes
<1>8. Touched(snapshots') \subseteq Touched(snapshots)
  BY Zenon, <1>5 DEF Touched
<1>9. \A i \in DOMAIN snapshots' : Stamped(snapshots'[i])
  BY Zenon, <1>5 DEF Shapes
<1>10. Shapes'
  BY Zenon, <1>6, <1>8, <1>9 DEF Shapes, Height, Stamped
<1>11. Recorded'
  BY Zenon, <1>6 DEF Recorded, Height, Newly
<1> QED
  BY Zenon, <1>2, <1>4, <1>7, <1>10, <1>11

\* The snapshot that SetSmtCache records.
LEMMA SetFacts ==
    ASSUME TypeInv, SetSmtCache
    PROVE  \E s \in Snapshots :
             /\ Stamped(s) /\ s.height = Height + 1
             /\ snapshots' = Append(snapshots, s) /\ current' = Append(current, s)
             /\ longLived' = Merge(longLived, s.data)
<1> USE DEF TypeInv
<1>1. Height \in Nat /\ Height < MaxBlocks
  BY Constants DEF SetSmtCache, DataTypes, Height
<1>2. Height + 1 \in Heights /\ Height + 1 \in 1 .. MaxBlocks /\ None \in Heights
  BY <1>1, Constants DEF Heights, None
<1>3. PICK k \in AllKeys, v \in {Height + 1, None} :
        LET delta == [j \in {"lastHeight", k} |-> IF j = "lastHeight" THEN Height + 1 ELSE v]
            snapshot == [height |-> Height + 1, data |-> delta]
        IN  /\ snapshots' = Append(snapshots, snapshot)
            /\ current' = Append(current, snapshot)
            /\ longLived' = Merge(longLived, delta)
  BY Zenon DEF SetSmtCache
<1> DEFINE delta == [j \in {"lastHeight", k} |-> IF j = "lastHeight" THEN Height + 1 ELSE v]
           s == [height |-> Height + 1, data |-> delta]
<1>4. delta \in Data
  <2>1. delta \in [{"lastHeight", k} -> Heights]
    BY Zenon, <1>2
  <2>2. {"lastHeight", k} \in SUBSET AllKeys
    BY Zenon, Constants
  <2> HIDE DEF delta
  <2> QED
    BY Zenon, <2>1, <2>2 DEF Data
<1>5. s \in Snapshots /\ Stamped(s)
  BY Zenon, <1>2, <1>4 DEF Snapshots, Stamped
<1>6. /\ snapshots' = Append(snapshots, s) /\ current' = Append(current, s)
      /\ longLived' = Merge(longLived, s.data) /\ s.height = Height + 1
  BY Zenon, <1>3
<1> HIDE DEF s
<1> QED
  BY Zenon, <1>5, <1>6

LEMMA SetSmtCacheTypes == TypeInv /\ SetSmtCache => TypeInv'
<1> SUFFICES ASSUME TypeInv, SetSmtCache PROVE TypeInv'
  OBVIOUS
<1>1. PICK s \in Snapshots :
        /\ Stamped(s) /\ s.height = Height + 1
        /\ snapshots' = Append(snapshots, s) /\ current' = Append(current, s)
        /\ longLived' = Merge(longLived, s.data)
  BY Zenon, SetFacts
<1> USE DEF TypeInv
<1>2. Height \in Nat /\ Height < MaxBlocks
  BY Constants DEF SetSmtCache, DataTypes, Height
<1>3. Height + 1 \in Heights
  BY <1>2, Constants DEF Heights
<1>4. s.data \in Data
  BY Zenon DEF Snapshots
<1>5. longLived' \in Data /\ DOMAIN longLived' = DOMAIN longLived \cup DOMAIN s.data
  BY Zenon, <1>4, <1>1, MergeFacts DEF DataTypes
<1>6. /\ snapshots' \in Seq(Snapshots) /\ current' \in Seq(Snapshots) /\ current' # <<>>
      /\ Newly(current') = s
      /\ \A i \in DOMAIN snapshots' :
           (i \in DOMAIN snapshots /\ snapshots'[i] = snapshots[i]) \/ snapshots'[i] = s
      /\ \A i \in DOMAIN current' :
           (i \in DOMAIN current /\ current'[i] = current[i]) \/ current'[i] = s
  BY <1>1, ListAppend DEF DataTypes
<1>7. Touched(snapshots') = Touched(snapshots) \cup DOMAIN s.data
  BY Zenon, <1>1, MergeAppend DEF DataTypes
<1>8. UNCHANGED <<db, view, tree, toPush, lastPushed, lastReset, heapVars, channel, committed,
                   flusher, dispatcher, worker, errors>> /\ lastRecord' = Height + 1
       /\ seq = "step" /\ seq' = "recorded"
  BY Zenon DEF SetSmtCache
<1>9. DataTypes' /\ HeapTypes'
  BY Zenon, <1>3, <1>5, <1>6, <1>8 DEF DataTypes, HeapTypes, heapVars
<1>10. ThreadTypes' /\ Control'
  BY Zenon, <1>8 DEF ThreadTypes, Control
<1>11. /\ \A i \in DOMAIN snapshots' : Stamped(snapshots'[i])
       /\ \A i \in DOMAIN current' : Stamped(current'[i])
  BY Zenon, <1>1, <1>6 DEF Shapes
<1>12. Shapes'
  BY <1>2, <1>5, <1>7, <1>8, <1>11 DEF Shapes, Height, Stamped
<1>13. Recorded'
  BY Zenon, <1>1, <1>2, <1>6, <1>8 DEF Recorded, Height, Newly
<1> QED
  BY Zenon, <1>9, <1>10, <1>12, <1>13

LEMMA CommitBlockTypes == TypeInv /\ CommitBlock => TypeInv'
<1> SUFFICES ASSUME TypeInv, CommitBlock PROVE TypeInv'
  OBVIOUS
<1> USE DEF TypeInv
<1> DEFINE n == Len(tree)
           last == current[Len(current)].data
           new == Merge(tree[n], last)
<1>1. n \in 1 .. (MaxBlocks + 1) /\ n - 1 < MaxBlocks /\ tree \in Seq(Trees) /\ tree[n] \in Trees
  BY DEF CommitBlock, Recorded, DataTypes, Height
<1>2. current \in Seq(Snapshots) /\ current # <<>> /\ current[Len(current)].height = Height + 1
  BY Zenon DEF CommitBlock, Recorded, DataTypes, Newly
<1>3. Len(current) \in DOMAIN current
  BY <1>2
<1>4. current[Len(current)] \in Snapshots /\ Stamped(current[Len(current)])
  BY <1>2, <1>3 DEF Shapes
<1>5. last \in Data /\ "lastHeight" \in DOMAIN last /\ last["lastHeight"] = n
  BY <1>1, <1>2, <1>4, Constants DEF Stamped, Snapshots, Height
<1> HIDE DEF last
<1>6. new \in Trees /\ new["lastHeight"] = n
  BY Zenon, <1>1, <1>5, MergeTree
<1>7. tree' = Append(tree, new)
  BY Zenon DEF CommitBlock, last
<1> HIDE DEF new, n
<1>8. tree' \in Seq(Trees) /\ Len(tree') = n + 1 /\ tree'[n + 1] = new /\ DOMAIN tree' = 1 .. (n + 1)
      /\ DOMAIN tree = 1 .. n /\ \A i \in DOMAIN tree : tree'[i] = tree[i]
  BY <1>1, <1>6, <1>7, ListAppend DEF n
<1>9. \A i \in DOMAIN tree' : tree'[i]["lastHeight"] = i - 1
  <2>1. ASSUME NEW i \in DOMAIN tree' PROVE tree'[i]["lastHeight"] = i - 1
    <3>1. i \in DOMAIN tree \/ (i = n + 1 /\ (n + 1) - 1 = n)
      BY <1>1, <1>8
    <3> QED
      BY Zenon, <1>6, <1>8, <3>1 DEF Shapes
  <2> QED
    BY Zenon, <2>1
<1>10. /\ UNCHANGED <<db, view, cacheVars, heapVars, channel, flusher, dispatcher, worker, errors>>
       /\ seq = "recorded" /\ seq' = "step" /\ committed' = TRUE
  BY Zenon DEF CommitBlock
<1>11. DataTypes' /\ HeapTypes'
  BY <1>1, <1>8, <1>10, Constants DEF DataTypes, HeapTypes, heapVars, cacheVars
<1>12. ThreadTypes' /\ Control' /\ Recorded'
  BY Zenon, <1>10 DEF ThreadTypes, Control, Recorded
<1>13. lastRecord' <= Height' + 1
  <2>1. lastRecord' = lastRecord /\ lastRecord \in Nat /\ lastRecord <= (Len(tree) - 1) + 1
    <3>1. lastRecord' = lastRecord
      BY Zenon, <1>10 DEF cacheVars
    <3>2. lastRecord \in Nat
      BY Zenon, Constants DEF DataTypes
    <3> QED
      BY Zenon, <3>1, <3>2 DEF Shapes, Height
  <2> QED
    BY <1>1, <1>8, <2>1 DEF Height, n
<1>14. Shapes'
  BY Zenon, <1>9, <1>10, <1>13 DEF Shapes, cacheVars, Stamped, Touched
<1> QED
  BY Zenon, <1>11, <1>12, <1>14

LEMMA ResetTypes == TypeInv /\ ResetCurrentBatch => TypeInv'
<1> SUFFICES ASSUME TypeInv, ResetCurrentBatch PROVE TypeInv'
  OBVIOUS
<1> USE DEF TypeInv
<1>1. UNCHANGED <<db, heapVars, channel, seqVars, dispatcher, worker, errors, toPush, lastRecord, lastPushed>>
  BY Zenon DEF ResetCurrentBatch, cacheVars
<1>2. ThreadTypes' /\ Control'
  BY Zenon, <1>1 DEF ResetCurrentBatch, ThreadTypes, Control, Flushers, seqVars
<1>3. HeapTypes'
  BY Zenon, <1>1 DEF HeapTypes, heapVars
<1>4. seq # "recorded" /\ seq' = seq
  BY Zenon, <1>1 DEF ResetCurrentBatch, Control, seqVars
<1>5. CASE UNCHANGED cacheVars
  BY Zenon, <1>1, <1>2, <1>4, <1>5, CacheFrame DEF seqVars, DataTypes
<1>6. CASE ~ UNCHANGED cacheVars
  <2>1. /\ current' = DeleteTarget(current, Height + 1)
        /\ snapshots' = DeleteTarget(snapshots, Height + 1)
        /\ longLived' = MergeAll(snapshots')
        /\ lastReset' = Height
    BY Zenon, <1>6 DEF ResetCurrentBatch
  <2>2. /\ current' \in Seq(Snapshots)
        /\ \A i \in DOMAIN current' : \E j \in DOMAIN current : current'[i] = current[j]
        /\ snapshots' \in Seq(Snapshots)
        /\ \A i \in DOMAIN snapshots' : \E j \in DOMAIN snapshots : snapshots'[i] = snapshots[j]
    BY <2>1, DeleteFacts DEF DataTypes
  <2>3. longLived' \in Data /\ DOMAIN longLived' = Touched(snapshots')
    BY Zenon, <2>1, <2>2, MergeAllFacts
  <2>4. Height \in Heights
    BY Constants DEF DataTypes, Height, Heights
  <2>5. DataTypes'
    BY Zenon, <1>1, <2>1, <2>2, <2>3, <2>4 DEF DataTypes, seqVars
  <2>6. /\ \A i \in DOMAIN snapshots' : Stamped(snapshots'[i])
        /\ \A i \in DOMAIN current' : Stamped(current'[i])
    BY Zenon, <2>2 DEF Shapes
  <2>7. Shapes'
    BY Zenon, <1>1, <2>3, <2>6 DEF Shapes, Height, Stamped, seqVars
  <2>8. Recorded'
    BY Zenon, <1>4 DEF Recorded
  <2> QED
    BY Zenon, <1>2, <1>3, <2>5, <2>7, <2>8
<1> QED
  BY Zenon, <1>5, <1>6

\* The image that a flush collects, and its height.
Collected == Merge(toPush, MergeAll(current))

LEMMA CollectedFacts ==
    ASSUME TypeInv
    PROVE  /\ Collected \in Data
           /\ DOMAIN Collected = DOMAIN toPush \cup Touched(current)
           /\ Collected # <<>> => "lastHeight" \in DOMAIN Collected /\ Collected["lastHeight"] \in Heights
           /\ current = <<>> => Collected = toPush
           /\ current # <<>> => Collected # <<>> /\ Collected["lastHeight"] = Newly(current).height
           /\ \A k \in Touched(current) : Collected[k] = MergeAll(current)[k]
           /\ \A k \in DOMAIN toPush \ Touched(current) : Collected[k] = toPush[k]
<1> USE DEF TypeInv
<1> DEFINE a == MergeAll(current)
<1>1. toPush \in Data /\ current \in Seq(Snapshots)
  BY Zenon DEF DataTypes
<1>2. a \in Data /\ DOMAIN a = Touched(current)
  BY Zenon, <1>1, MergeAllFacts
<1>3. current # <<>> => /\ "lastHeight" \in DOMAIN a /\ a # <<>>
                        /\ a["lastHeight"] = Newly(current).height
  BY Zenon, <1>1, <1>2, MergeStamp DEF Shapes
<1>4. current = <<>> => a = <<>>
  <2>1. current = <<>> => Touched(current) = {}
    BY DEF Touched
  <2> HIDE DEF a
  <2> QED
    BY Zenon, <1>2, <2>1, NoKeys
<1> HIDE DEF a
<1>5. /\ Merge(toPush, a) \in Data /\ DOMAIN Merge(toPush, a) = DOMAIN toPush \cup DOMAIN a
      /\ \A k \in DOMAIN a : Merge(toPush, a)[k] = a[k]
      /\ \A k \in DOMAIN toPush \ DOMAIN a : Merge(toPush, a)[k] = toPush[k]
      /\ Merge(toPush, <<>>) = toPush
  BY Zenon, <1>1, <1>2, MergeFacts
<1>6. Collected = Merge(toPush, a)
  BY Zenon DEF Collected, a
<1>7. Collected # <<>> => "lastHeight" \in DOMAIN Collected
  <2>1. toPush # <<>> \/ a # <<>> \/ Collected = <<>>
    BY Zenon, <1>1, <1>2, <1>5, <1>6, NoKeys
  <2> QED
    BY Zenon, <1>3, <1>4, <1>5, <1>6, <2>1 DEF Shapes
<1>8. \A k \in DOMAIN Collected : Collected[k] \in Heights
  BY Zenon, <1>5, <1>6 DEF Data
<1>9. current # <<>> => Collected # <<>>
  BY Zenon, <1>3, <1>5, <1>6, NoKeys
<1> QED
  BY Zenon, <1>2, <1>3, <1>4, <1>5, <1>6, <1>7, <1>8, <1>9 DEF a

LEMMA FlushMergeTypes == \A t \in {"batch", "stop"} : TypeInv /\ FlushMerge(t) => TypeInv'
<1> SUFFICES ASSUME TypeInv, NEW t \in {"batch", "stop"}, FlushMerge(t) PROVE TypeInv'
  OBVIOUS
<1> USE DEF TypeInv
<1> DEFINE height == IF Collected = <<>> THEN 0 ELSE Collected["lastHeight"]
           due == (t = "batch") => Since(height, lastPushed, FlushPeriod)
<1>1. /\ UNCHANGED <<db, snapshots, lastRecord, lastPushed, heapVars, channel, seqVars, dispatcher, worker, errors>>
      /\ toPush' = Collected /\ current' = <<>> /\ flusher[t].pc = "merge"
      /\ flusher' = [flusher EXCEPT ![t] = [pc |-> IF due THEN "send" ELSE "off", height |-> height]]
      /\ \/ longLived' = MergeAll(snapshots) /\ lastReset' = height
         \/ UNCHANGED <<longLived, lastReset>>
  BY Zenon DEF FlushMerge, Collected
<1>2. height \in Heights
  BY Zenon, CollectedFacts, Constants
<1> HIDE DEF height
<1>3. \E p \in {"send", "off"} : flusher' = [flusher EXCEPT ![t] = [pc |-> p, height |-> height]]
  BY Zenon, <1>1
<1> HIDE DEF due
<1>4. flusher' \in [{"batch", "stop"} -> Flushers]
  BY <1>2, <1>3 DEF ThreadTypes, Flushers
<1>5. ThreadTypes'
  BY Zenon, <1>1, <1>4 DEF ThreadTypes, seqVars
<1>6. Control'
  BY Zenon, <1>1, <1>3 DEF ThreadTypes, Control, seqVars
<1>7. HeapTypes'
  BY Zenon, <1>1 DEF HeapTypes, heapVars
<1>8. longLived' \in Data /\ Touched(snapshots) \subseteq DOMAIN longLived'
  BY Zenon, <1>1, MergeAllFacts DEF DataTypes, Shapes
<1>9. DataTypes'
  BY <1>1, <1>2, <1>8, CollectedFacts DEF DataTypes, seqVars
<1>10. Shapes'
  BY <1>1, <1>8, CollectedFacts DEF Shapes, Height, Stamped, seqVars
<1>11. Recorded'
  BY Zenon, <1>1 DEF Recorded, Control, seqVars
<1> QED
  BY Zenon, <1>5, <1>6, <1>7, <1>9, <1>10, <1>11

LEMMA FlushMarkTypes == \A t \in {"batch", "stop"} : TypeInv /\ FlushMark(t) => TypeInv'
<1> SUFFICES ASSUME TypeInv, NEW t \in {"batch", "stop"}, FlushMark(t) PROVE TypeInv'
  OBVIOUS
<1> USE DEF TypeInv
<1>1. flusher[t].height \in Heights
  BY Zenon DEF ThreadTypes, Flushers
<1>2. HeapTypes'
  BY Zenon, <1>1, HeapFacts, Constants DEF FlushMark, HeapTypes
<1>3. flusher' \in [{"batch", "stop"} -> Flushers]
  BY Zenon DEF FlushMark, ThreadTypes, Flushers
<1>4. ThreadTypes' /\ Control'
  BY <1>3 DEF FlushMark, ThreadTypes, Control, seqVars
<1>5. DataTypes'
  BY Zenon, <1>1, EmptyIsData DEF FlushMark, DataTypes, seqVars
<1>6. Shapes'
  BY Zenon DEF FlushMark, Shapes, Height, Stamped, seqVars
<1>7. Recorded'
  BY Zenon DEF FlushMark, Recorded, Height, Newly, seqVars
<1> QED
  BY Zenon, <1>2, <1>4, <1>5, <1>6, <1>7

LEMMA NextTypes == TypeInv /\ [Next]_vars => TypeInv'
<1>1. TypeInv /\ UNCHANGED vars => TypeInv'
  <2> SUFFICES ASSUME TypeInv, UNCHANGED vars PROVE TypeInv'
    OBVIOUS
  <2>1. DataTypes' /\ HeapTypes' /\ Shapes' /\ Recorded'
    BY Zenon, CacheFrame DEF vars, seqVars, TypeInv, DataTypes
  <2>2. ThreadTypes' /\ Control'
    BY Zenon DEF vars, seqVars, TypeInv, ThreadTypes, Control
  <2> QED
    BY Zenon, <2>1, <2>2 DEF TypeInv
<1> QED
  BY Zenon, <1>1, ThreadStepTypes, TruncateStepTypes, SetSmtCacheTypes, CommitBlockTypes, ResetTypes,
     FlushMergeTypes, FlushMarkTypes
  DEF Next, Sequence, Dispatching, Idle, FlushCache, Work, ThreadStep, TruncateStep

\* Every variable keeps its shape.
THEOREM SmtCacheTypes == Spec => []TypeOK
<1>1. TypeInv => TypeOK
  <2> SUFFICES ASSUME TypeInv PROVE TypeOK
    OBVIOUS
  <2> USE DEF TypeInv
  <2>1. /\ {db, view} \subseteq [AllKeys -> 0 .. MaxBlocks]
        /\ \A i \in DOMAIN tree : tree[i] \in [AllKeys -> 0 .. MaxBlocks]
    <3>1. {db, view} \subseteq Trees /\ tree \in Seq(Trees)
      BY Zenon DEF DataTypes
    <3>2. \A i \in DOMAIN tree : tree[i] \in Trees
      BY <3>1
    <3> QED
      BY Zenon, <3>1, <3>2 DEF Trees, Heights
  <2>2. {lastRecord, lastPushed, lastReset} \subseteq 0 .. MaxBlocks
    BY Zenon DEF DataTypes, Heights
  <2>3. \A h \in {pushed, confirmed} : h.data \subseteq h.seen /\ h.seen \subseteq 0 .. MaxBlocks
    BY Zenon DEF HeapTypes, Heaps, Heights
  <2>4. \A i \in DOMAIN snapshots : snapshots[i].height \in 1 .. MaxBlocks
    <3>1. \A i \in DOMAIN snapshots : snapshots[i] \in Snapshots
      BY DEF DataTypes
    <3> QED
      BY Zenon, <3>1 DEF Snapshots
  <2> QED
    BY Zenon, <2>1, <2>2, <2>3, <2>4 DEF TypeOK, ThreadTypes, Shapes
<1> QED
  BY <1>1, InitTypes, NextTypes, PTL DEF Spec
=============================================================================
