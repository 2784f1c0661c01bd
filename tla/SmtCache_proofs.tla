--------------------------- MODULE SmtCache_proofs ---------------------------
(* What the images and the database of the SMT cache hold, what a stop leaves and  *)
(* what the sequencer reads.                                                       *)
EXTENDS SmtCacheOrder_proofs

-----------------------------------------------------------------------------
(* The third layer of the invariant: what the images and the database hold.        *)

LEMMA TreeTypes ==
    ASSUME TypeInv
    PROVE  /\ \A n \in 0 .. Height : T(n) \in Trees /\ n + 1 \in DOMAIN tree
           /\ T(Height) = tree[Len(tree)]
<1>1. Len(tree) \in Nat /\ DOMAIN tree = 1 .. Len(tree) /\ tree \in Seq(Trees) /\ Height = Len(tree) - 1
  BY DEF TypeInv, DataTypes, Height
<1>2. \A n \in 0 .. Height : n + 1 \in DOMAIN tree
  BY <1>1
<1>3. Height + 1 = Len(tree)
  BY <1>1
<1> QED
  BY <1>1, <1>2, <1>3 DEF T

\* The committed part of the current list.
LEMMA SettledTypes ==
    ASSUME TypeInv, Pending => current # <<>>
    PROVE  /\ Settled(current) \in Seq(Snapshots)
           /\ DOMAIN Settled(current) \subseteq DOMAIN current
           /\ \A i \in DOMAIN Settled(current) : Settled(current)[i] = current[i]
<1>1. current \in Seq(Snapshots)
  BY Zenon DEF TypeInv, DataTypes
<1>2. CASE Pending
  BY Zenon, <1>1, <1>2, ListFront DEF Settled
<1>3. CASE ~ Pending
  BY Zenon, <1>1, <1>3 DEF Settled
<1> QED
  BY Zenon, <1>2, <1>3

\* A step that changes none of it.
LEMMA ContentFrame ==
    ASSUME Contents, UNCHANGED <<tree, toPush, db>>, Filled' = Filled,
           Settled(current)' = Settled(current),
           \A t \in {"batch", "stop"} :
             flusher'[t].pc = "mark" => flusher[t].pc = "mark" \/ toPush = <<>>
    PROVE  Contents'
<1>1. Height' = Height /\ DbHeight' = DbHeight /\ PushHeight' = PushHeight
  BY Zenon DEF Height, DbHeight, PushHeight
<1>2. \A n : T(n)' = T(n)
  BY Zenon DEF T
<1>3. \A n, h : Between(n, h)' <=> Between(n, h)
  BY Zenon DEF Between
<1>4. \A m : ImageExact(m)' <=> ImageExact(m)
  BY Zenon, <1>1, <1>2, <1>3 DEF ImageExact
<1>5. CollectedExact'
  <2>1. MergeAll(Settled(current))' = MergeAll(Settled(current))
    BY Zenon DEF MergeAll, Touched, Touching
  <2> QED
    BY Zenon, <1>1, <1>2, <2>1 DEF CollectedExact, Contents
<1>6. SentIsThere' /\ Twins'
  BY Zenon, <1>1 DEF SentIsThere, Twins, Contents
<1>7. T(DbHeight)' = T(DbHeight)
  BY Zenon, <1>1 DEF T
<1> QED
  BY Zenon, <1>4, <1>5, <1>6, <1>7 DEF Contents

\* The steps of the sequencer other than a commit.
LEMMA SequenceContent ==
    ASSUME TypeInv, BatchOK, Contents, Filled' = Filled,
           StartStep \/ SetSmtCache \/ EndStep \/ FailBeforeCommit \/ ResetCurrentBatch \/ Stop
    PROVE  Contents'
<1>1. UNCHANGED <<tree, toPush, db>>
  BY Zenon DEF StartStep, SetSmtCache, EndStep, FailBeforeCommit, ResetCurrentBatch, Stop, cacheVars, seqVars
<1>2. \A t \in {"batch", "stop"} : flusher'[t].pc = "mark" => flusher[t].pc = "mark"
  BY Zenon DEF StartStep, SetSmtCache, EndStep, FailBeforeCommit, ResetCurrentBatch, Stop,
         TypeInv, ThreadTypes, Flushers
<1>3. Settled(current)' = Settled(current)
  <2>1. CASE StartStep \/ EndStep \/ FailBeforeCommit \/ Stop
    <3>1. current' = current
      BY Zenon, <2>1 DEF StartStep, EndStep, FailBeforeCommit, Stop, cacheVars
    <3>2. Pending' <=> Pending
      BY Zenon, <2>1 DEF StartStep, EndStep, FailBeforeCommit, Stop, Pending, TypeInv, Control, ThreadTypes, Flushers
    <3> QED
      BY Zenon, <3>1, <3>2 DEF Settled, AllButLast
  <2>2. CASE SetSmtCache
    <3>1. ~ Pending /\ Pending'
      BY Zenon, <2>2 DEF SetSmtCache, Pending, TypeInv, Control
    <3>2. PICK s \in Snapshots : current' = Append(current, s)
      BY Zenon, <2>2, SetFacts
    <3>3. AllButLast(current') = current
      BY Zenon, <3>2, ListAppend DEF TypeInv, DataTypes
    <3>4. Settled(current)' = AllButLast(current')
      BY Zenon, <3>1 DEF Settled, AllButLast
    <3> QED
      BY Zenon, <3>1, <3>3, <3>4 DEF Settled
  <2>3. CASE ResetCurrentBatch
    <3>1. Pending /\ ~ Pending' /\ current' = AllButLast(current)
      BY Zenon, <2>3, ResetFacts
    <3> QED
      BY Zenon, <3>1 DEF Settled
  <2> QED
    BY Zenon, <2>1, <2>2, <2>3
<1> QED
  BY Zenon, <1>1, <1>2, <1>3, ContentFrame

\* What CollectedExact says of one key.
LEMMA CollectedKey ==
    ASSUME TypeInv, CollectedExact, Pending => current # <<>>, NEW k \in AllKeys
    PROVE  /\ k \in Touched(Settled(current)) => MergeAll(Settled(current))[k] = T(Height)[k]
           /\ k \notin Touched(Settled(current)) /\ k \in DOMAIN toPush => toPush[k] = T(Height)[k]
           /\ k \notin Touched(Settled(current)) /\ k \notin DOMAIN toPush =>
                \A n \in DbHeight .. Height : (\A m \in Filled : m.height <= n) => T(n)[k] = T(Height)[k]
<1>1. DOMAIN MergeAll(Settled(current)) = Touched(Settled(current))
  BY Zenon, SettledTypes, MergeAllFacts
<1> QED
  BY Zenon, <1>1 DEF CollectedExact

\* A commit puts the last recorded snapshot over the tree.
LEMMA CommitFacts ==
    ASSUME TypeInv, BatchOK, LineOK, CommitBlock
    PROVE  /\ current # <<>> /\ current = Append(AllButLast(current), Newly(current))
           /\ AllButLast(current) \in Seq(Snapshots) /\ Newly(current) \in Snapshots
           /\ Newly(current).data \in Data
           /\ Settled(current) = AllButLast(current) /\ Settled(current)' = current
           /\ Pending /\ ~ Pending'
           /\ Height \in Nat /\ Height' = Height + 1 /\ DbHeight' = DbHeight
           /\ \A n \in 0 .. Height : T(n)' = T(n)
           /\ T(Height)' = Merge(T(Height), Newly(current).data)
           /\ \A k \in DOMAIN Newly(current).data : T(Height)'[k] = Newly(current).data[k]
           /\ \A k \in AllKeys \ DOMAIN Newly(current).data : T(Height)'[k] = T(Height)[k]
<1>1. current \in Seq(Snapshots) /\ tree \in Seq(Trees) /\ Len(tree) \in Nat \ {0}
  BY DEF TypeInv, DataTypes
<1>2. Pending /\ ~ Pending' /\ current' = current /\ db' = db
  BY Zenon DEF CommitBlock, Pending, TypeInv, Control, cacheVars
<1>3. current # <<>>
  BY Zenon, <1>2 DEF BatchOK
<1>4. Newly(current) \in Snapshots /\ Newly(current).data \in Data
  BY Zenon, <1>1, <1>3, FrontAppend DEF Snapshots
<1>5. Height \in Nat /\ T(Height) \in Trees /\ T(Height) = tree[Len(tree)]
  BY HeightTypes, TreeTypes
<1> DEFINE top == Merge(T(Height), Newly(current).data)
<1>6. top \in Trees /\ tree' = Append(tree, top)
  BY Zenon, <1>4, <1>5, MergeTree DEF CommitBlock, Newly
<1> HIDE DEF top
<1>7. Len(tree') = Len(tree) + 1 /\ tree'[Len(tree) + 1] = top /\ DOMAIN tree = 1 .. Len(tree)
      /\ \A i \in DOMAIN tree : tree'[i] = tree[i]
  BY <1>1, <1>6, ListAppend
<1>8. Height' = Height + 1 /\ Height + 1 = Len(tree)
  BY <1>1, <1>7 DEF Height
<1>9. \A n \in 0 .. Height : T(n)' = T(n)
  <2> SUFFICES ASSUME NEW n \in 0 .. Height PROVE T(n)' = T(n)
    OBVIOUS
  <2>1. n + 1 \in DOMAIN tree
    BY <1>1, <1>5, <1>7, <1>8
  <2> QED
    BY Zenon, <2>1, <1>7 DEF T
<1>10. T(Height)' = tree'[Height' + 1]
  BY Zenon DEF T
<1>11. Height' + 1 = Len(tree) + 1
  BY Zenon, <1>8
<1>12. T(Height)' = top
  BY Zenon, <1>7, <1>10, <1>11
<1>13. \A k \in DOMAIN Newly(current).data : top[k] = Newly(current).data[k]
  BY Zenon, <1>4, <1>5, MergeTree DEF top
<1>14. \A k \in AllKeys \ DOMAIN Newly(current).data : top[k] = T(Height)[k]
  BY Zenon, <1>4, <1>5, MergeTree DEF top
<1>15. AllButLast(current) \in Seq(Snapshots) /\ current = Append(AllButLast(current), Newly(current))
  BY Zenon, <1>1, <1>3, FrontAppend, ListFront
<1>16. Settled(current) = AllButLast(current) /\ Settled(current)' = current
  BY Zenon, <1>2 DEF Settled
<1>17. T(Height)' = Merge(T(Height), Newly(current).data)
  BY Zenon, <1>12 DEF top
<1> QED
  BY <1>2, <1>3, <1>4, <1>5, <1>8, <1>9, <1>12, <1>13, <1>14, <1>15, <1>16, <1>17 DEF DbHeight

LEMMA CommitContent ==
    ASSUME TypeInv, LineOK, BatchOK, Contents, CommitBlock, Filled' = Filled
    PROVE  Contents'
<1> DEFINE s == Newly(current)
           front == AllButLast(current)
<1>1. UNCHANGED <<db, toPush, current, flusher>> /\ PushHeight' = PushHeight
  BY Zenon DEF CommitBlock, cacheVars, PushHeight
<1>2. DbHeight \in Nat /\ Height \in Nat /\ DbHeight <= Height /\ Height' = Height + 1 /\ DbHeight' = DbHeight
  BY Zenon, HeightTypes, CommitFacts DEF LineOK
<1>3. \A n \in 0 .. Height : T(n)' = T(n)
  BY Zenon, CommitFacts
<1>4. T(DbHeight)' = T(DbHeight)
  <2>1. T(DbHeight)' = tree'[DbHeight + 1]
    BY Zenon, <1>2 DEF T
  <2>2. tree'[DbHeight + 1] = tree[DbHeight + 1]
    BY <1>2, <1>3 DEF T
  <2> QED
    BY Zenon, <2>1, <2>2 DEF T
<1>5. db' = T(DbHeight)'
  BY Zenon, <1>1, <1>4 DEF Contents
<1>6. \A m \in Filled : ImageExact(m)'
  <2> SUFFICES ASSUME NEW m \in Filled PROVE ImageExact(m)'
    OBVIOUS
  <2>1. m.height \in Nat /\ m.height <= Height
    BY Zenon, HeightTypes DEF LineOK
  <2>2. T(m.height)' = T(m.height)
    BY <1>2, <1>3, <2>1
  <2>3. \A n : Between(n, m.height)' <=> Between(n, m.height)
    BY Zenon DEF Between
  <2>4. \A n \in DbHeight .. m.height : T(n)' = T(n)
    BY <1>2, <1>3, <2>1
  <2>5. ImageExact(m)
    BY Zenon DEF Contents
  <2> QED
    BY Zenon, <1>2, <2>2, <2>3, <2>4, <2>5 DEF ImageExact
<1>7. CollectedExact'
  <2> DEFINE new == MergeAll(current)
  <2>1. current = Append(front, s) /\ front \in Seq(Snapshots) /\ s \in Snapshots /\ Settled(current) = front
        /\ current # <<>>
    BY Zenon, CommitFacts
  <2>2. DOMAIN new = Touched(front) \cup DOMAIN s.data
    <3>1. current \in Seq(Snapshots)
      BY Zenon DEF TypeInv, DataTypes
    <3>2. Touched(current) = Touched(front) \cup DOMAIN s.data
      BY Zenon, <2>1, MergeAppend
    <3> QED
      BY Zenon, <3>1, <3>2, MergeAllFacts
  <2>3. MergeAll(Settled(current))' = new
    <3>1. Settled(current)' = current
      BY Zenon, CommitFacts
    <3> QED
      BY Zenon, <3>1 DEF MergeAll, Touched, Touching
  <2> HIDE DEF s, front
  <2> DEFINE top == T(Height)'
  <2>4. T(Height)' = top
    OBVIOUS
  <2> SUFFICES ASSUME NEW k \in AllKeys
               PROVE  IF k \in DOMAIN new THEN new[k] = top[k]
                      ELSE IF k \in DOMAIN toPush THEN toPush[k] = top[k]
                      ELSE \A n \in DbHeight .. Height' :
                             (\A m \in Filled : m.height <= n) => T(n)'[k] = top[k]
    BY Zenon, <1>1, <1>2, <2>3, <2>4 DEF CollectedExact
  <2>5. CASE k \in DOMAIN s.data
    <3>1. new[k] = s.data[k]
      BY Zenon, <2>1, <2>5, MergeAppend
    <3>2. top[k] = s.data[k]
      BY Zenon, <2>5, CommitFacts DEF s
    <3> QED
      BY Zenon, <2>2, <2>5, <3>1, <3>2
  <2>6. CASE k \notin DOMAIN s.data
    <3>1. top[k] = T(Height)[k]
      BY Zenon, <2>6, CommitFacts DEF s
    <3> HIDE DEF new, top
    <3>2. CASE k \in Touched(front)
      <4>1. new[k] = MergeAll(front)[k]
        BY Zenon, <2>1, <2>6, <3>2, MergeAppend DEF new
      <4>2. MergeAll(front)[k] = T(Height)[k]
        BY Zenon, <2>1, <3>2, CollectedKey DEF Contents
      <4> QED
        BY <2>2, <3>1, <3>2, <4>1, <4>2
    <3>3. CASE k \notin Touched(front)
      <4>1. k \notin DOMAIN new
        BY Zenon, <2>2, <2>6, <3>3
      <4>2. k \in DOMAIN toPush => toPush[k] = T(Height)[k]
        BY Zenon, <2>1, <3>3, CollectedKey DEF Contents
      <4>3. ASSUME k \notin DOMAIN toPush, NEW n \in DbHeight .. Height', \A m \in Filled : m.height <= n
            PROVE  T(n)'[k] = top[k]
        <5>1. CASE n = Height'
          BY Zenon, <5>1 DEF top, T
        <5>2. CASE n # Height'
          <6>1. n \in DbHeight .. Height /\ n \in 0 .. Height
            BY <1>2, <5>2
          <6>2. T(n)[k] = T(Height)[k]
            BY <2>1, <3>3, <4>3, <6>1, CollectedKey DEF Contents
          <6> QED
            BY Zenon, <1>3, <3>1, <6>1, <6>2
        <5> QED
          BY Zenon, <5>1, <5>2
      <4> QED
        BY Zenon, <3>1, <4>1, <4>2, <4>3
    <3> QED
      BY Zenon, <3>2, <3>3
  <2> QED
    BY Zenon, <2>5, <2>6
<1>8. SentIsThere'
  <2>1. current # <<>>
    BY Zenon, CommitFacts
  <2> QED
    BY <1>1, <2>1 DEF SentIsThere, BatchOK
<1>9. Twins'
  BY Zenon, <1>1 DEF Twins, Contents
<1> QED
  BY Zenon, <1>5, <1>6, <1>7, <1>8, <1>9 DEF Contents

LEMMA TouchedEmpty == Touched(<<>>) = {}
BY DEF Touched

\* Collecting the batch moves its changes into the image to push.
LEMMA FlushMergeContent ==
    ASSUME TypeInv, LineOK, BatchOK, Sound, Contents, NEW t \in {"batch", "stop"}, FlushMerge(t),
           Filled' = Filled
    PROVE  Contents'
<1>1. /\ ~ Pending /\ ~ Pending' /\ toPush' = Collected /\ current' = <<>>
      /\ current = <<>> => toPush' = toPush
      /\ current # <<>> => Newly(current).height = Height
      /\ toPush' # <<>> => PushHeight' = Height
      /\ \A u \in {"batch", "stop"} : u # t => flusher'[u] = flusher[u]
      /\ flusher'[t].pc \in {"send", "off"} /\ UNCHANGED <<db, tree>>
  BY Zenon, FlushMergeFacts
<1>2. Settled(current) = current /\ Settled(current)' = <<>>
  BY Zenon, <1>1 DEF Settled
<1>3. /\ DbHeight' = DbHeight /\ Height' = Height /\ \A n : T(n)' = T(n)
      /\ DbHeight \in Nat /\ Height \in Nat
  BY Zenon, <1>1, HeightTypes DEF DbHeight, Height, T
<1>4. db' = T(DbHeight)'
  BY Zenon, <1>1, <1>3 DEF Contents, T
<1>5. \A m \in Filled : ImageExact(m)'
  BY Zenon, <1>3 DEF ImageExact, Between, Contents
<1>6. CollectedExact'
  <2>1. DOMAIN MergeAll(Settled(current))' = {}
    BY <1>2 DEF MergeAll, Touched
  <2>2. T(Height)' = T(Height)
    BY Zenon, <1>1, <1>3 DEF T
  <2> SUFFICES ASSUME NEW k \in AllKeys
               PROVE  IF k \in DOMAIN toPush' THEN toPush'[k] = T(Height)[k]
                      ELSE \A n \in DbHeight .. Height :
                             (\A m \in Filled : m.height <= n) => T(n)[k] = T(Height)[k]
    BY Zenon, <1>3, <2>1, <2>2 DEF CollectedExact
  <2>3. DOMAIN toPush' = DOMAIN toPush \cup Touched(current)
    BY Zenon, <1>1, CollectedFacts
  <2>4. CASE k \in Touched(current)
    BY Zenon, <1>1, <1>2, <2>3, <2>4, CollectedFacts, CollectedKey DEF Contents
  <2>5. CASE k \notin Touched(current)
    BY <1>1, <1>2, <2>3, <2>5, CollectedFacts, CollectedKey DEF Contents
  <2> QED
    BY Zenon, <2>4, <2>5
<1>7. SentIsThere'
  <2> SUFFICES ASSUME NEW u \in {"batch", "stop"}, flusher'[u].pc = "mark", toPush' # <<>>
               PROVE  DbHeight = Height \/ \E m \in Filled : m.height = Height
    BY Zenon, <1>3 DEF SentIsThere
  <2>1. flusher[u].pc = "mark"
    BY Zenon, <1>1
  <2>2. current = <<>>
    BY Zenon, <2>1 DEF BatchOK
  <2> QED
    BY Zenon, <1>1, <2>1, <2>2 DEF Contents, SentIsThere
<1>8. Twins'
  <2>1. CASE current = <<>>
    BY Zenon, <1>1, <2>1 DEF Contents, Twins, PushHeight
  <2>2. CASE current # <<>>
    <3>1. Len(current) \in DOMAIN current
      BY <2>2, ListFront DEF TypeInv, DataTypes
    <3>2. \A m \in Filled : m.height < Height
      BY <1>1, <2>2, <3>1 DEF BatchOK, Newly
    <3>3. \A m \in Filled : m.height # Height
      BY <1>3, <3>2, HeightTypes
    <3> QED
      BY Zenon, <1>1, <3>3 DEF Contents, Twins
  <2> QED
    BY Zenon, <2>1, <2>2
<1> QED
  BY <1>4, <1>5, <1>6, <1>7, <1>8 DEF Contents

\* The image that was collected is on its way, so a new one starts empty.
LEMMA FlushMarkContent ==
    ASSUME TypeInv, LineOK, BatchOK, Contents, NEW t \in {"batch", "stop"}, FlushMark(t),
           Filled' = Filled
    PROVE  Contents'
<1>1. /\ flusher[t].pc = "mark" /\ toPush' = <<>>
      /\ flusher' = [flusher EXCEPT ![t].pc = "off"]
      /\ UNCHANGED <<db, tree, current, seq>>
  BY Zenon DEF FlushMark, seqVars
<1>2. current = <<>> /\ ~ Pending
  BY Zenon, <1>1, SendFacts
<1>3. ~ Pending'
  BY Zenon, <1>1, <1>2 DEF Pending, TypeInv, ThreadTypes, Flushers
<1>4. Settled(current) = <<>> /\ Settled(current)' = <<>>
  BY Zenon, <1>1, <1>2, <1>3 DEF Settled
<1>5. /\ DbHeight' = DbHeight /\ Height' = Height /\ \A n : T(n)' = T(n)
      /\ DbHeight \in Nat /\ Height \in Nat
  BY Zenon, <1>1, HeightTypes DEF DbHeight, Height, T
<1>6. db' = T(DbHeight)'
  BY Zenon, <1>1, <1>5 DEF Contents, T
<1>7. \A m \in Filled : ImageExact(m)'
  BY Zenon, <1>5 DEF ImageExact, Between, Contents
<1>8. CollectedExact'
  <2>1. DOMAIN MergeAll(Settled(current))' = {} /\ DOMAIN toPush' = {}
    BY <1>1, <1>4 DEF MergeAll, Touched
  <2>2. T(Height)' = T(Height)
    BY Zenon, <1>1, <1>5 DEF T
  <2> SUFFICES ASSUME NEW k \in AllKeys, NEW n \in DbHeight .. Height, \A m \in Filled : m.height <= n
               PROVE  T(n)[k] = T(Height)[k]
    BY Zenon, <1>5, <2>1, <2>2 DEF CollectedExact
  <2>3. CASE toPush = <<>>
    BY <1>2, <1>4, <2>3, CollectedKey, TouchedEmpty DEF Contents
  <2>4. CASE toPush # <<>>
    <3>1. DbHeight = Height \/ \E m \in Filled : m.height = Height
      BY Zenon, <1>1, <2>4 DEF Contents, SentIsThere
    <3>2. n = Height
      BY <1>5, <3>1
    <3> QED
      BY Zenon, <3>2
  <2> QED
    BY Zenon, <2>3, <2>4
<1>9. SentIsThere' /\ Twins'
  BY Zenon, <1>1 DEF SentIsThere, Twins, Contents
<1> QED
  BY Zenon, <1>6, <1>7, <1>8, <1>9 DEF Contents

\* An image that is sent holds what was collected.
LEMMA FlushSendContent ==
    ASSUME TypeInv, LineOK, BatchOK, Contents, NEW t \in {"batch", "stop"}, FlushSend(t)
    PROVE  Contents'
<1> DEFINE x == Sent(t)
<1>1. /\ UNCHANGED <<toPush, current, db, tree, seq>>
      /\ flusher[t].pc = "send" /\ flusher'[t].pc \in {"mark", "off"}
      /\ \A u \in {"batch", "stop"} : u # t => flusher'[u] = flusher[u]
  BY DEF FlushSend, cacheVars, seqVars, TypeInv, ThreadTypes, Flushers
<1>2. /\ current = <<>> /\ ~ Pending
      /\ toPush # <<>> => flusher[t].height = Height /\ PushHeight = Height
  BY Zenon, <1>1, SendFacts
<1>3. /\ flusher'[t].pc = "mark" /\ toPush # <<>> => Filled' = Filled \cup {x}
      /\ flusher'[t].pc # "mark" \/ toPush = <<>> => Filled' = Filled
  BY Zenon, FlushSendLine
<1>4. ~ Pending'
  BY Zenon, <1>1, <1>2 DEF Pending
<1>5. Settled(current) = <<>> /\ Settled(current)' = <<>>
  BY Zenon, <1>1, <1>2, <1>4 DEF Settled
<1>6. CASE flusher'[t].pc # "mark" \/ toPush = <<>>
  <2>1. \A u \in {"batch", "stop"} :
          flusher'[u].pc = "mark" => flusher[u].pc = "mark" \/ toPush = <<>>
    BY Zenon, <1>1, <1>6
  <2> QED
    BY <1>1, <1>3, <1>5, <1>6, <2>1, ContentFrame
<1>7. CASE flusher'[t].pc = "mark" /\ toPush # <<>>
  <2>1. x.height = Height /\ x.data = toPush /\ PushHeight = Height /\ PushHeight' = PushHeight
    BY Zenon, <1>1, <1>2, <1>7 DEF Sent, PushHeight
  <2>2. Filled' = Filled \cup {x}
    BY Zenon, <1>3, <1>7
  <2> HIDE DEF x
  <2>3. /\ DbHeight' = DbHeight /\ Height' = Height /\ \A n : T(n)' = T(n)
        /\ DbHeight \in Nat /\ Height \in Nat
        /\ \A m \in Filled : m.height \in Nat /\ m.height <= Height
    BY Zenon, <1>1, HeightTypes DEF DbHeight, Height, T, LineOK
  <2>4. db' = T(DbHeight)'
    BY Zenon, <1>1, <2>3 DEF Contents, T
  <2>5. \A n, h : Between(n, h)' => Between(n, h)
    BY Zenon, <2>2 DEF Between
  <2>6. \A m \in Filled : ImageExact(m)'
    BY Zenon, <2>3, <2>5 DEF ImageExact, Contents
  <2>7. ASSUME NEW y, y.height = Height, y.data = toPush
        PROVE  ImageExact(y)'
    <3>1. \A k \in DOMAIN toPush : toPush[k] = T(Height)[k]
      <4>1. DOMAIN toPush \subseteq AllKeys
        BY Zenon DEF TypeInv, DataTypes, Data
      <4> QED
        BY <1>2, <1>5, <4>1, CollectedKey, TouchedEmpty DEF Contents
    <3>2. ASSUME NEW k \in AllKeys \ DOMAIN toPush, NEW n \in DbHeight .. Height, Between(n, Height)
          PROVE  T(n)[k] = T(Height)[k]
      <4>1. CASE \A m \in Filled : m.height <= n
        BY <1>2, <1>5, <3>2, <4>1, CollectedKey, TouchedEmpty DEF Contents
      <4>2. ASSUME NEW m \in Filled, ~ (m.height <= n)
            PROVE  T(n)[k] = T(Height)[k]
        <5>1. m.height = Height
          BY <2>3, <3>2, <4>2 DEF Between
        <5>2. m.data = toPush
          BY Zenon, <1>7, <2>1, <5>1 DEF Contents, Twins
        <5> QED
          BY Zenon, <3>2, <5>1, <5>2 DEF Contents, ImageExact
      <4> QED
        BY Zenon, <4>1, <4>2
    <3> QED
      BY <2>3, <2>5, <2>7, <3>1, <3>2 DEF ImageExact
  <2>8. CollectedExact'
    <3>1. MergeAll(Settled(current))' = MergeAll(Settled(current))
      BY Zenon, <1>5 DEF MergeAll, Touched, Touching
    <3>2. T(Height)' = T(Height)
      BY Zenon, <1>1, <2>3 DEF T
    <3> QED
      BY <1>1, <2>2, <2>3, <3>1, <3>2 DEF CollectedExact, Contents
  <2>9. SentIsThere'
    BY Zenon, <2>1, <2>2, <2>3 DEF SentIsThere
  <2>10. Twins'
    <3>1. \A m \in Filled : m.height = Height => m.data = toPush
      BY Zenon, <1>7, <2>1 DEF Contents, Twins
    <3> QED
      BY <1>1, <2>1, <2>2, <3>1 DEF Contents, Twins
  <2>11. \A m \in Filled' : ImageExact(m)'
    BY Zenon, <2>1, <2>2, <2>6, <2>7
  <2> QED
    BY <2>4, <2>8, <2>9, <2>10, <2>11 DEF Contents
<1> QED
  BY Zenon, <1>1, <1>6, <1>7

\* The image with the lowest height takes the database from its block to the image's.
LEMMA FlushContent ==
    ASSUME InOrder, TypeInv, LineOK, Contents, NEW w \in Slots, Flush(w)
    PROVE  Contents'
<1> DEFINE image == worker[w].image
           h == image.height
<1>1. /\ db' = Merge(db, image.data) /\ UNCHANGED <<tree, toPush, current, seq, flusher>>
  BY Zenon DEF Flush, cacheVars, seqVars
<1>2. Settled(current)' = Settled(current)
  BY Zenon, <1>1 DEF Settled, Pending, AllButLast
<1>3. CASE image.data = <<>>
  <2>1. Filled' = Filled /\ db' = db
    BY Zenon, <1>3, FlushLine
  <2> QED
    BY Zenon, <1>1, <1>2, <2>1, ContentFrame
<1>4. CASE image.data # <<>>
  <2>1. /\ image \in Filled /\ Filled' \subseteq Filled /\ DbHeight' = h
        /\ \A m \in Filled : m \in Filled' \/ m = image
        /\ \A m \in Filled : h <= m.height
    BY Zenon, <1>4, FlushLine
  <2>2. /\ Height' = Height /\ \A n : T(n)' = T(n)
        /\ DbHeight \in Nat /\ Height \in Nat /\ h \in Nat /\ DbHeight <= h /\ h <= Height
        /\ \A m \in Filled : m.height \in Nat /\ m.height <= Height
    BY Zenon, <1>1, <2>1, HeightTypes DEF Height, T, LineOK
  <2>3. db' = T(h)
    <3>1. db \in Trees /\ image.data \in Data
      BY Zenon, <2>1, HeightTypes DEF TypeInv, DataTypes
    <3>2. T(h) \in Trees
      BY <2>2, TreeTypes
    <3>3. ASSUME NEW k \in AllKeys PROVE Merge(db, image.data)[k] = T(h)[k]
      <4>1. ImageExact(image)
        BY Zenon, <2>1 DEF Contents
      <4>2. CASE k \in DOMAIN image.data
        BY Zenon, <3>1, <4>1, <4>2, MergeTree DEF ImageExact
      <4>3. CASE k \notin DOMAIN image.data
        <5>1. Between(DbHeight, h)
          BY Zenon, <2>1, <2>2 DEF Between
        <5>2. DbHeight \in DbHeight .. h
          BY <2>2
        <5>3. T(DbHeight)[k] = T(h)[k]
          BY Zenon, <4>1, <4>3, <5>1, <5>2 DEF ImageExact
        <5>4. Merge(db, image.data)[k] = db[k]
          BY <3>1, <4>3, MergeTree
        <5> QED
          BY Zenon, <5>3, <5>4 DEF Contents
      <4> QED
        BY Zenon, <4>2, <4>3
    <3>4. Merge(db, image.data) \in Trees
      BY Zenon, <3>1, MergeTree
    <3> HIDE DEF h
    <3> QED
      BY <1>1, <3>2, <3>3, <3>4 DEF Trees
  <2>4. db' = T(DbHeight)'
    BY Zenon, <1>1, <2>1, <2>3 DEF T
  <2> HIDE DEF image, h
  <2>5. image.height = h
    BY Zenon DEF h
  <2>6. ASSUME NEW m \in Filled' PROVE ImageExact(m)'
    <3>1. m \in Filled /\ ImageExact(m)
      BY Zenon, <2>1 DEF Contents
    <3>2. ASSUME NEW n \in h .. m.height, Between(n, m.height)' PROVE Between(n, m.height)
      BY <2>1, <2>2, <2>5, <3>1, <3>2 DEF Between
    <3>3. \A n \in h .. m.height : n \in DbHeight .. m.height
      BY <2>2, <3>1
    <3> QED
      BY Zenon, <2>1, <2>2, <3>1, <3>2, <3>3 DEF ImageExact
  <2>7. CollectedExact'
    <3>1. MergeAll(Settled(current))' = MergeAll(Settled(current))
      BY Zenon, <1>2 DEF MergeAll, Touched, Touching
    <3>2. T(Height)' = T(Height)
      BY Zenon, <1>1, <2>2 DEF T
    <3>3. \A n \in h .. Height : n \in DbHeight .. Height /\ h <= n
      BY <2>2
    <3>4. \A n \in h .. Height : (\A m \in Filled' : m.height <= n) => \A m \in Filled : m.height <= n
      BY Zenon, <2>1, <2>5, <3>3
    <3> QED
      BY <1>1, <2>1, <2>2, <3>1, <3>2, <3>3, <3>4 DEF CollectedExact, Contents
  <2>8. SentIsThere'
    <3>1. DbHeight = Height => h = Height
      BY <2>2
    <3> QED
      BY Zenon, <1>1, <2>1, <2>2, <2>5, <3>1 DEF SentIsThere, Contents
  <2>9. Twins'
    BY Zenon, <1>1, <2>1 DEF Twins, Contents, PushHeight
  <2> QED
    BY Zenon, <2>4, <2>6, <2>7, <2>8, <2>9 DEF Contents
<1> QED
  BY Zenon, <1>3, <1>4

LEMMA InitContent == Init => ContentInv
<1> SUFFICES ASSUME Init PROVE ContentInv
  OBVIOUS
<1>1. OrderInv
  BY Zenon, InitOrder
<1>2. Filled = {}
  BY Zenon, InitLine
<1>3. Height = 0 /\ DbHeight = 0 /\ T(0) = db
  BY DEF Init, Height, DbHeight, T, AllKeys, None
<1>4. CollectedExact
  <2>1. Settled(current) = <<>> /\ DOMAIN toPush = {}
    BY DEF Init, Settled, Pending
  <2>2. DOMAIN MergeAll(Settled(current)) = {}
    BY <2>1 DEF MergeAll, Touched
  <2>3. \A n \in DbHeight .. Height : n = Height
    BY <1>3
  <2> QED
    BY Zenon, <2>1, <2>2, <2>3 DEF CollectedExact
<1>5. SentIsThere /\ Twins
  BY Zenon, <1>2 DEF Init, SentIsThere, Twins
<1> QED
  BY <1>1, <1>2, <1>3, <1>4, <1>5 DEF ContentInv, Contents

\* Every step keeps what the images hold.
LEMMA NextContents ==
    ASSUME InOrder, ContentInv, [Next]_vars, NoneSkipped'
    PROVE  Contents'
<1>1. /\ TypeInv /\ Sound /\ LineOK /\ BatchOK /\ Contents
      /\ ~ FailInCommit /\ \A w \in Slots : ~ FlushFails(w)
  BY Zenon, SoundBack DEF ContentInv, OrderInv
<1>2. CASE UNCHANGED vars
  <2>1. Filled' = Filled
    BY Zenon, <1>1, <1>2, LineSteps
  <2>2. UNCHANGED <<toPush, current, flusher, seq, tree, db>>
    BY Zenon, <1>2 DEF vars, cacheVars, seqVars
  <2>3. Settled(current)' = Settled(current)
    BY Zenon, <2>2 DEF Settled, Pending, AllButLast
  <2> QED
    BY Zenon, <1>1, <2>1, <2>2, <2>3, ContentFrame
<1>3. CASE Sequence \/ ResetCurrentBatch \/ Stop
  <2>1. Filled' = Filled
    BY <1>1, <1>3, LineSteps
  <2> QED
    BY Zenon, <1>1, <1>3, <2>1, SequenceContent, CommitContent DEF Sequence
<1>4. CASE Dispatching
  <2>1. Filled' = Filled
    BY Zenon, <1>1, <1>4, LineSteps, ReceiveLine, DispatchLine DEF Dispatching
  <2>2. UNCHANGED <<toPush, current, flusher, seq, tree, db>>
    BY Zenon, <1>4 DEF Dispatching, Receive, Dispatch, Drain, Done, cacheVars, seqVars
  <2>3. Settled(current)' = Settled(current)
    BY Zenon, <2>2 DEF Settled, Pending, AllButLast
  <2> QED
    BY Zenon, <1>1, <2>1, <2>2, <2>3, ContentFrame
<1>5. ASSUME NEW t \in {"batch", "stop"}, FlushCache(t) PROVE Contents'
  <2>1. CASE FlushMerge(t)
    BY Zenon, <1>1, <2>1, LineSteps, FlushMergeContent
  <2>2. CASE FlushSend(t)
    BY Zenon, <1>1, <2>2, FlushSendContent
  <2>3. CASE FlushMark(t)
    BY Zenon, <1>1, <2>3, LineSteps, FlushMarkContent
  <2> QED
    BY Zenon, <1>5, <2>1, <2>2, <2>3 DEF FlushCache
<1>6. ASSUME NEW w \in Slots, Work(w) PROVE Contents'
  <2>1. CASE Flush(w)
    BY Zenon, <1>1, <2>1, FlushContent
  <2>2. CASE ~ Flush(w)
    <3>1. Filled' = Filled /\ db' = db
      BY Zenon, <1>1, <1>6, <2>2, LineSteps DEF Work
    <3>2. UNCHANGED <<toPush, current, flusher, seq, tree>>
      BY Zenon, <1>6, <2>2 DEF Work, Confirm, ReadTop, CompareTop, PopConfirmed, PopPushed, DeleteSnapshots,
         cacheVars, seqVars
    <3>3. Settled(current)' = Settled(current)
      BY Zenon, <3>2 DEF Settled, Pending, AllButLast
    <3> QED
      BY Zenon, <1>1, <3>1, <3>2, <3>3, ContentFrame
  <2> QED
    BY Zenon, <2>1, <2>2
<1>7. Idle => UNCHANGED vars
  BY Zenon DEF Idle
<1> QED
  BY Zenon, <1>1, <1>2, <1>3, <1>4, <1>5, <1>6, <1>7 DEF Next

LEMMA NextContent == InOrder /\ ContentInv /\ [Next]_vars => ContentInv'
BY Zenon, NextOrder, NextContents DEF ContentInv

\* When images are written in the order they were sent, and no commit and no write
\* failed, the SMT database is the tree of exactly one block of the chain in every
\* state, the one its lastHeight names: what the alignment at the next start needs
\* after a crash at any point of FlushSmtCache, AsyncFlushSmtData or FlushDataToDB.
THEOREM SmtCacheDbIsOneBlock ==
    ASSUME InOrder PROVE Spec => []DbIsOneBlock
<1>1. ContentInv => DbIsOneBlock
  BY Zenon DEF ContentInv, OrderInv, Contents, DbIsOneBlock, NoneSkipped, Sound, LineOK, DbHeight, T
<1>2. ContentInv /\ [Next]_vars => ContentInv'
  BY Zenon, NextContent
<1> QED
  BY <1>1, <1>2, InitContent, PTL DEF Spec

-----------------------------------------------------------------------------
(* What a stop leaves behind.                                                      *)

LEMMA CountTypes ==
    ASSUME TypeInv
    PROVE  /\ Len(channel) \in Nat /\ Height \in Nat /\ Height <= MaxBlocks /\ MaxBlocks \in Nat
           /\ Owed("batch") \in {0, 1} /\ Owed("stop") \in {0, 1} /\ Begun \in {0, 1} /\ Stopped \in {0, 1}
<1>1. Len(channel) \in Nat
  BY DEF TypeInv, ThreadTypes
<1>2. Height \in Nat /\ Height <= MaxBlocks /\ MaxBlocks \in Nat
  BY Constants DEF TypeInv, DataTypes, Height
<1> QED
  BY Zenon, <1>1, <1>2 DEF Owed, Begun, Stopped

\* The steps that neither send nor owe an image.
LEMMA CountFrame ==
    ASSUME TypeInv, Counted, UNCHANGED <<tree, seq, committed, flusher>>,
           Len(channel') \in Nat, Len(channel') <= Len(channel)
    PROVE  Counted'
<1>1. /\ Owed("batch")' = Owed("batch") /\ Owed("stop")' = Owed("stop")
      /\ Begun' = Begun /\ Stopped' = Stopped /\ Height' = Height
  BY Zenon DEF Owed, Begun, Stopped, Height
<1> QED
  BY <1>1, CountTypes DEF Counted

LEMMA SequenceCounted ==
    ASSUME TypeInv, Counted, Sequence \/ Stop
    PROVE  Counted'
<1>1. channel' = channel
  BY Zenon DEF Sequence, StartStep, SetSmtCache, CommitBlock, EndStep, FailBeforeCommit, FailInCommit, Stop
<1>2. flusher["stop"].pc = "off" /\ seq \in {"between", "step", "recorded"}
      /\ (seq # "between" => flusher["batch"].pc = "off")
  BY Zenon DEF Sequence, StartStep, SetSmtCache, CommitBlock, EndStep, FailBeforeCommit, FailInCommit, Stop,
         TypeInv, Control
<1>3. CASE StartStep \/ SetSmtCache \/ FailBeforeCommit \/ FailInCommit
  <2>1. tree' = tree /\ flusher'["stop"].pc = "off" /\ seq' # "stopped" /\ seq # "stopped"
    BY <1>2, <1>3 DEF StartStep, SetSmtCache, FailBeforeCommit, FailInCommit, TypeInv, ThreadTypes, Flushers
  <2>2. flusher'["batch"].pc = flusher["batch"].pc \/ flusher'["batch"].pc = "reset"
    BY Zenon, <1>3 DEF StartStep, SetSmtCache, FailBeforeCommit, FailInCommit, TypeInv, ThreadTypes, Flushers
  <2>3. Begun' = 1 => Begun = 1
    BY <1>3 DEF StartStep, SetSmtCache, FailBeforeCommit, FailInCommit, Begun
  <2>4. Begun' \in {0, 1}
    BY Zenon DEF Begun
  <2>5. Owed("batch")' = Owed("batch") \/ Owed("batch")' = 0
    BY Zenon, <2>2 DEF Owed
  <2>6. Owed("stop")' = 0 /\ Owed("stop") = 0 /\ Stopped' = Stopped /\ Height' = Height
    BY Zenon, <1>2, <2>1 DEF Owed, Stopped, Height
  <2> QED
    BY <1>1, <2>3, <2>4, <2>5, <2>6, CountTypes DEF Counted
<1>4. CASE CommitBlock
  <2>1. flusher' = flusher /\ Stopped' = Stopped
    BY Zenon, <1>4 DEF CommitBlock, Stopped
  <2>2. Height' = Height + 1
    <3>1. Len(tree) \in Nat /\ Len(tree') = Len(tree) + 1
      BY <1>4 DEF CommitBlock, TypeInv, DataTypes
    <3> QED
      BY <3>1 DEF Height
  <2>3. Begun' \in {0, 1} /\ Owed("batch")' = Owed("batch") /\ Owed("stop")' = Owed("stop")
    BY Zenon, <2>1 DEF Begun, Owed
  <2> QED
    BY <1>1, <2>1, <2>2, <2>3, CountTypes DEF Counted
<1>5. CASE EndStep
  <2>1. Begun = 1 /\ Begun' = 0 /\ Stopped' = Stopped /\ Height' = Height
    BY Zenon, <1>5 DEF EndStep, Begun, Stopped, Height
  <2>2. Owed("batch") = 0 /\ Owed("batch")' = 1 /\ Owed("stop")' = Owed("stop")
    BY <1>2, <1>5 DEF EndStep, Owed, TypeInv, ThreadTypes, Flushers
  <2> QED
    BY <1>1, <2>1, <2>2, CountTypes DEF Counted
<1>6. CASE Stop
  <2>1. Begun' = 0 /\ Stopped = 0 /\ Stopped' = 1 /\ Height' = Height
    BY Zenon, <1>6 DEF Stop, Begun, Stopped, Height
  <2>2. Owed("batch")' = Owed("batch") /\ Owed("stop") = 0 /\ Owed("stop")' = 1
    BY <1>2, <1>6 DEF Stop, Owed, TypeInv, ThreadTypes, Flushers
  <2> QED
    BY <1>1, <2>1, <2>2, CountTypes DEF Counted
<1> QED
  BY Zenon, <1>3, <1>4, <1>5, <1>6 DEF Sequence

LEMMA FlushCacheCounted ==
    ASSUME TypeInv, Counted, NEW t \in {"batch", "stop"}, FlushCache(t)
    PROVE  Counted'
<1>1. /\ UNCHANGED <<tree, seq, committed>>
      /\ \A u \in {"batch", "stop"} : u # t => flusher'[u] = flusher[u]
  BY Zenon DEF FlushCache, FlushMerge, FlushSend, FlushMark, seqVars, TypeInv, ThreadTypes, Flushers
<1>2. Begun' = Begun /\ Stopped' = Stopped /\ Height' = Height
  BY Zenon, <1>1 DEF Begun, Stopped, Height
<1>3. \A u \in {"batch", "stop"} : u # t => Owed(u)' = Owed(u)
  BY Zenon, <1>1 DEF Owed
<1>4. Owed(t)' \in {0, 1}
  BY Zenon DEF Owed
<1>5. CASE FlushMerge(t) \/ FlushMark(t)
  <2>1. channel' = channel /\ (Owed(t)' = 1 => Owed(t) = 1)
    BY <1>5 DEF FlushMerge, FlushMark, Owed, TypeInv, ThreadTypes, Flushers
  <2> QED
    BY <1>2, <1>3, <1>4, <2>1, CountTypes DEF Counted
<1>6. CASE FlushSend(t)
  <2>1. Owed(t) = 1 /\ Owed(t)' = 0
    BY <1>6 DEF FlushSend, Owed, TypeInv, ThreadTypes, Flushers
  <2>2. Len(channel') \in Nat /\ Len(channel') <= Len(channel) + 1
    <3>1. CASE channel' = channel
      BY <3>1, CountTypes
    <3>2. CASE channel' = Append(channel, Sent(t))
      <4>1. Len(channel') = Len(channel) + 1
        BY <3>2 DEF TypeInv, ThreadTypes
      <4> QED
        BY <4>1, CountTypes
    <3> QED
      BY Zenon, <1>6, <3>1, <3>2 DEF FlushSend, Sent
  <2> QED
    BY <1>2, <1>3, <2>1, <2>2, CountTypes DEF Counted
<1> QED
  BY Zenon, <1>5, <1>6 DEF FlushCache

LEMMA NextCounted == TypeInv /\ Counted /\ [Next]_vars => Counted'
<1> SUFFICES ASSUME TypeInv, Counted, [Next]_vars PROVE Counted'
  OBVIOUS
<1>1. CASE UNCHANGED vars
  BY <1>1, CountFrame, CountTypes DEF vars, seqVars
<1>2. CASE ResetCurrentBatch
  <2>1. /\ UNCHANGED <<tree, seq, committed, channel>>
        /\ flusher["batch"].pc = "reset" /\ flusher'["batch"].pc = "off"
        /\ flusher'["stop"] = flusher["stop"]
    BY Zenon, <1>2 DEF ResetCurrentBatch, seqVars, TypeInv, ThreadTypes, Flushers
  <2>2. /\ Owed("batch")' = Owed("batch") /\ Owed("stop")' = Owed("stop")
        /\ Begun' = Begun /\ Stopped' = Stopped /\ Height' = Height
    BY Zenon, <2>1 DEF Owed, Begun, Stopped, Height
  <2> QED
    BY Zenon, <2>1, <2>2 DEF Counted
<1>3. CASE Dispatching
  <2>1. UNCHANGED <<tree, seq, committed, flusher>>
    BY Zenon, <1>3 DEF Dispatching, Receive, Dispatch, Drain, Done, seqVars
  <2>2. channel' = channel \/ (channel # <<>> /\ channel' = Tail(channel))
    BY Zenon, <1>3 DEF Dispatching, Receive, Dispatch, Drain, Done
  <2>3. Len(channel') \in Nat /\ Len(channel') <= Len(channel)
    BY <2>2 DEF TypeInv, ThreadTypes
  <2> QED
    BY Zenon, <2>1, <2>3, CountFrame
<1>4. CASE \E w \in Slots : Work(w) \/ FlushFails(w)
  <2>1. UNCHANGED <<tree, seq, committed, flusher, channel>>
    BY Zenon, <1>4 DEF Work, Flush, Confirm, ReadTop, CompareTop, PopConfirmed, PopPushed, DeleteSnapshots,
       FlushFails, seqVars
  <2> QED
    BY <2>1, CountFrame, CountTypes
<1>5. Idle => UNCHANGED vars
  BY Zenon DEF Idle
<1> QED
  BY Zenon, <1>1, <1>2, <1>3, <1>4, <1>5, SequenceCounted, FlushCacheCounted DEF Next

\* The channel has room for the image of the stop.
LEMMA SendRoom ==
    ASSUME TypeInv, Counted, ChannelSize > MaxBlocks, FlushSend("stop")
    PROVE  flusher'["stop"].pc = "mark"
<1>1. flusher["stop"].pc = "send" /\ Owed("stop") = 1
  BY Zenon DEF FlushSend, Owed
<1>2. Len(channel) + 1 <= Height + 1
  BY <1>1, CountTypes DEF Counted
<1>3. Len(channel) < ChannelSize
  BY <1>2, CountTypes, Constants
<1> QED
  BY <1>3 DEF FlushSend, TypeInv, ThreadTypes, Flushers

\* An image without data does not count.
LEMMA BlankSent ==
    ASSUME TypeInv, NEW t \in {"batch", "stop"}, FlushSend(t), toPush = <<>>, Filled = {}
    PROVE  Filled' = {}
<1>1. UNCHANGED <<worker, dispatcher>> /\ (channel' = channel \/ channel' = Append(channel, Sent(t)))
  BY Zenon DEF FlushSend, Sent
<1>2. Flushing' = Flushing
  BY Zenon, <1>1 DEF Flushing
<1>3. ASSUME NEW i \in DOMAIN channel' PROVE channel'[i] = Sent(t) \/ \E j \in DOMAIN channel : channel'[i] = channel[j]
  <2>1. CASE channel' = channel
    BY Zenon, <2>1
  <2>2. CASE channel' = Append(channel, Sent(t))
    <3> DEFINE n == Len(channel) + 1
    <3>1. Len(channel) \in Nat /\ DOMAIN channel = 1 .. Len(channel) /\ DOMAIN channel' = 1 .. n
      BY <2>2 DEF TypeInv, ThreadTypes
    <3>2. channel'[n] = Sent(t) /\ \A j \in DOMAIN channel : channel'[j] = channel[j]
      BY <2>2 DEF TypeInv, ThreadTypes
    <3>3. i \in DOMAIN channel \/ i = n
      BY <3>1
    <3> HIDE DEF n
    <3> QED
      BY Zenon, <3>2, <3>3
  <2> QED
    BY Zenon, <1>1, <2>1, <2>2
<1>4. Sent(t).data = <<>>
  BY Zenon DEF Sent
<1>5. \A m \in InFlight' : m \in InFlight \/ m.data = <<>>
  BY Zenon, <1>1, <1>2, <1>3, <1>4 DEF InFlight
<1> QED
  BY Zenon, <1>5 DEF Filled

LEMMA NextStopping ==
    ASSUME TypeInv, Counted, Stopping, ChannelSize > MaxBlocks, [Next]_vars
    PROVE  Stopping'
<1>1. CASE UNCHANGED vars
  <2>1. Filled' = Filled
    BY Zenon, <1>1, LineSteps
  <2> QED
    BY Zenon, <1>1, <2>1 DEF Stopping, vars, cacheVars, seqVars
<1>2. CASE Sequence
  <2>1. seq' # "stopped" /\ dispatcher' = dispatcher /\ seq # "stopped"
    BY Zenon, <1>2 DEF Sequence, StartStep, SetSmtCache, CommitBlock, EndStep, FailBeforeCommit, FailInCommit
  <2>2. dispatcher.pc = "loop"
    BY Zenon, <2>1 DEF TypeInv, Control
  <2> QED
    BY Zenon, <2>1, <2>2 DEF Stopping
<1>3. CASE ResetCurrentBatch
  <2>1. /\ Filled' = Filled
    BY Zenon, <1>3, LineSteps
  <2>2. /\ UNCHANGED <<seq, dispatcher, toPush>> /\ flusher'["stop"] = flusher["stop"]
        /\ current' = current \/ current' = DeleteTarget(current, Height + 1)
    BY Zenon, <1>3 DEF ResetCurrentBatch, cacheVars, seqVars, TypeInv, ThreadTypes, Flushers
  <2>3. current = <<>> => current' = <<>>
    BY <2>2 DEF DeleteTarget, Newest
  <2> QED
    BY Zenon, <2>1, <2>2, <2>3 DEF Stopping
<1>4. CASE Stop
  <2>1. flusher'["stop"].pc = "merge" /\ dispatcher'.pc = "flush"
    BY Zenon, <1>4 DEF Stop, TypeInv, ThreadTypes, Flushers, Dispatchers
  <2> QED
    BY Zenon, <2>1 DEF Stopping
<1>5. CASE Receive \/ Dispatch
  <2>1. /\ UNCHANGED <<seq, flusher, current, toPush>> /\ dispatcher'.pc = dispatcher.pc
    BY Zenon, <1>5 DEF Receive, Dispatch, cacheVars, seqVars, TypeInv, ThreadTypes, Dispatchers
  <2>2. Filled' = Filled
    BY Zenon, <1>5, ReceiveLine, DispatchLine
  <2> QED
    BY Zenon, <2>1, <2>2 DEF Stopping
<1>6. CASE Drain
  <2>1. UNCHANGED <<seq, flusher, current, toPush>> /\ dispatcher'.pc = "drain" /\ flusher["stop"].pc = "off"
    BY Zenon, <1>6 DEF Drain, cacheVars, seqVars, TypeInv, ThreadTypes, Dispatchers
  <2> QED
    BY Zenon, <2>1 DEF Stopping
<1>7. CASE Done
  <2>1. UNCHANGED <<seq, flusher, current, toPush>> /\ dispatcher'.pc = "done" /\ dispatcher.pc = "drain"
    BY Zenon, <1>7 DEF Done, cacheVars, seqVars, TypeInv, ThreadTypes, Dispatchers
  <2>2. Filled = {}
    BY <1>7 DEF Done, WorkersDone, Filled, InFlight, Flushing, NoImage
  <2>3. Filled' = Filled
    BY Zenon, <1>7, LineSteps
  <2> QED
    BY Zenon, <2>1, <2>2, <2>3 DEF Stopping
<1>8. ASSUME NEW t \in {"batch", "stop"}, FlushCache(t) PROVE Stopping'
  <2>1. UNCHANGED <<seq, dispatcher>> /\ flusher[t].pc # "off"
        /\ \A u \in {"batch", "stop"} : u # t => flusher'[u] = flusher[u]
    BY Zenon, <1>8 DEF FlushCache, FlushMerge, FlushSend, FlushMark, seqVars, TypeInv, ThreadTypes, Flushers
  <2>2. CASE FlushMerge(t)
    <3>1. Filled' = Filled
      BY Zenon, <2>2, LineSteps
    <3>2. current' = <<>> /\ toPush' = Collected /\ (current = <<>> => toPush' = toPush)
      BY Zenon, <2>2, CollectedFacts DEF FlushMerge, Collected
    <3>3. t = "stop" => flusher[t].pc = "merge" /\ flusher'[t].pc = "send"
      BY Zenon, <2>2 DEF FlushMerge, TypeInv, ThreadTypes
    <3>4. CASE t = "stop"
      BY <2>1, <3>1, <3>2, <3>3, <3>4 DEF Stopping
    <3>5. CASE t = "batch"
      BY <2>1, <3>1, <3>2, <3>5 DEF Stopping
    <3> QED
      BY Zenon, <3>4, <3>5
  <2>3. CASE FlushSend(t)
    <3>1. UNCHANGED <<current, toPush>> /\ flusher[t].pc = "send"
      BY Zenon, <2>3 DEF FlushSend, cacheVars
    <3>2. t = "stop" => flusher'[t].pc = "mark"
      BY Zenon, <2>3, SendRoom
    <3>3. dispatcher.pc = "done" => t = "batch" /\ seq = "stopped" /\ toPush = <<>>
      BY Zenon, <3>1 DEF Stopping, TypeInv, Control
    <3>4. dispatcher.pc = "done" => Filled' = {}
      BY Zenon, <2>3, <3>3, BlankSent DEF Stopping
    <3>5. CASE t = "stop"
      BY <2>1, <3>1, <3>2, <3>3, <3>5 DEF Stopping
    <3>6. CASE t = "batch"
      BY <2>1, <3>1, <3>4, <3>6 DEF Stopping
    <3> QED
      BY Zenon, <3>5, <3>6
  <2>4. CASE FlushMark(t)
    <3>1. Filled' = Filled
      BY Zenon, <2>4, LineSteps
    <3>2. toPush' = <<>> /\ current' = current /\ flusher[t].pc = "mark"
      BY Zenon, <2>4 DEF FlushMark
    <3>3. CASE t = "stop"
      BY Zenon, <2>1, <3>1, <3>2, <3>3 DEF Stopping
    <3>4. CASE t = "batch"
      BY Zenon, <2>1, <3>1, <3>2, <3>4 DEF Stopping
    <3> QED
      BY Zenon, <3>3, <3>4
  <2> QED
    BY <1>8, <2>2, <2>3, <2>4 DEF FlushCache
<1>9. ASSUME NEW w \in Slots, Work(w) \/ FlushFails(w) PROVE Stopping'
  <2>1. UNCHANGED <<seq, flusher, current, toPush, dispatcher>>
    BY Zenon, <1>9 DEF Work, Flush, Confirm, ReadTop, CompareTop, PopConfirmed, PopPushed, DeleteSnapshots,
       FlushFails, cacheVars, seqVars
  <2>2. Filled' \subseteq Filled
    <3>1. CASE Flush(w)
      BY Zenon, <3>1, LeaveLine DEF Flush
    <3>2. CASE FlushFails(w)
      BY Zenon, <3>2, FlushFailsLine
    <3>3. CASE ~ Flush(w) /\ ~ FlushFails(w)
      BY Zenon, <1>9, <3>3, LineSteps DEF Work
    <3> QED
      BY Zenon, <3>1, <3>2, <3>3
  <2> QED
    BY Zenon, <2>1, <2>2 DEF Stopping
<1>10. Idle => UNCHANGED vars
  BY Zenon DEF Idle
<1> QED
  BY <1>1, <1>2, <1>3, <1>4, <1>5, <1>6, <1>7, <1>8, <1>9, <1>10 DEF Next, Dispatching

LEMMA InitStop == Init => StopInv
<1> SUFFICES ASSUME Init PROVE StopInv
  OBVIOUS
<1>1. ContentInv
  BY Zenon, InitContent
<1>2. Counted
  <2>1. Len(channel) = 0 /\ Height = 0
    BY DEF Init, Height
  <2>2. Owed("batch") = 0 /\ Owed("stop") = 0 /\ Begun = 0 /\ Stopped = 0
    BY Zenon DEF Init, Owed, Begun, Stopped
  <2> QED
    BY <2>1, <2>2 DEF Counted
<1>3. Stopping
  BY Zenon DEF Init, Stopping
<1> QED
  BY <1>1, <1>2, <1>3 DEF StopInv

LEMMA StopDecides == StopInv => StopSavesAll
<1> SUFFICES ASSUME StopInv, dispatcher.pc = "done", NoneSkipped
             PROVE  db = tree[Len(tree)]
  BY Zenon DEF StopSavesAll
<1>1. TypeInv /\ LineOK /\ BatchOK /\ Contents
  BY Zenon DEF StopInv, ContentInv, OrderInv, NoneSkipped, Sound
<1>2. seq = "stopped" /\ Filled = {} /\ current = <<>> /\ toPush = <<>>
  BY Zenon, <1>1 DEF StopInv, Stopping, TypeInv, Control
<1>3. ~ Pending /\ Settled(current) = <<>>
  BY <1>1, <1>2 DEF BatchOK, Settled
<1>4. DbHeight \in Nat /\ Height \in Nat /\ DbHeight <= Height
  BY Zenon, <1>1, HeightTypes DEF LineOK
<1>5. DbHeight \in DbHeight .. Height
  BY <1>4
<1>6. ASSUME NEW k \in AllKeys PROVE T(DbHeight)[k] = T(Height)[k]
  <2>1. k \notin Touched(Settled(current)) /\ k \notin DOMAIN toPush
    BY <1>2, <1>3, TouchedEmpty
  <2> QED
    BY Zenon, <1>1, <1>2, <1>3, <1>5, <2>1, CollectedKey DEF Contents
<1>7. T(DbHeight) \in Trees /\ T(Height) \in Trees /\ T(Height) = tree[Len(tree)]
  BY <1>1, <1>4, TreeTypes
<1> QED
  BY <1>1, <1>6, <1>7 DEF Trees, Contents

\* A node that stops leaves the tree of its last block in the SMT database, whatever
\* the goroutine of the last batch, the shutdown, the dispatcher and the workers do in
\* between: when images are written in the order they were sent, the channel has
\* room for an image of every block, and nothing failed.
THEOREM SmtCacheStopSavesAll ==
    ASSUME InOrder, ChannelSize > MaxBlocks PROVE Spec => []StopSavesAll
<1>1. StopInv => StopSavesAll
  BY Zenon, StopDecides
<1>2. StopInv /\ [Next]_vars => StopInv'
  <2> SUFFICES ASSUME StopInv, [Next]_vars PROVE StopInv'
    OBVIOUS
  <2>1. TypeInv /\ Counted /\ Stopping /\ ContentInv
    BY Zenon DEF StopInv, ContentInv, OrderInv
  <2> QED
    BY Zenon, <2>1, NextContent, NextCounted, NextStopping DEF StopInv
<1> QED
  BY <1>1, <1>2, InitStop, PTL DEF Spec

-----------------------------------------------------------------------------
(* The last layer of the invariant: what the sequencer reads.                      *)

\* The committed part of the snapshots.
LEMMA ShotTypes ==
    ASSUME TypeInv, SnapshotsOK
    PROVE  /\ Settled(snapshots) \in Seq(Snapshots)
           /\ DOMAIN Settled(snapshots) \subseteq DOMAIN snapshots
           /\ \A i \in DOMAIN Settled(snapshots) :
                /\ Settled(snapshots)[i] = snapshots[i]
                /\ Settled(snapshots)[i].height \in Nat
           /\ Touched(Settled(snapshots)) \subseteq DOMAIN longLived
           /\ DOMAIN MergeAll(Settled(snapshots)) = Touched(Settled(snapshots))
           /\ Pending => Settled(snapshots) = AllButLast(snapshots)
           /\ ~ Pending => Settled(snapshots) = snapshots
<1>1. snapshots \in Seq(Snapshots) /\ (Pending => snapshots # <<>>)
  BY Zenon DEF TypeInv, DataTypes, SnapshotsOK
<1>2. /\ Pending => Settled(snapshots) = AllButLast(snapshots)
      /\ ~ Pending => Settled(snapshots) = snapshots
  BY Zenon DEF Settled
<1>3. /\ Settled(snapshots) \in Seq(Snapshots)
      /\ DOMAIN Settled(snapshots) \subseteq DOMAIN snapshots
      /\ \A i \in DOMAIN Settled(snapshots) : Settled(snapshots)[i] = snapshots[i]
  BY <1>1, <1>2, ListFront
<1>4. \A i \in DOMAIN Settled(snapshots) : Settled(snapshots)[i].height \in Nat
  BY Zenon, <1>3, HeightTypes
<1>5. Touched(Settled(snapshots)) \subseteq Touched(snapshots)
  BY Zenon, <1>3 DEF Touched
<1>6. Touched(snapshots) \subseteq DOMAIN longLived
  BY Zenon DEF TypeInv, Shapes
<1> QED
  BY <1>2, <1>3, <1>4, <1>5, <1>6, MergeAllFacts

\* What SnapshotsExact says of one key.
LEMMA ShotKey ==
    ASSUME TypeInv, SnapshotsOK, SnapshotsExact, NEW k \in AllKeys
    PROVE  /\ k \in Touched(Settled(snapshots)) => MergeAll(Settled(snapshots))[k] = T(Height)[k]
           /\ k \notin Touched(Settled(snapshots)) => db[k] = T(Height)[k]
BY Zenon, ShotTypes DEF SnapshotsExact

\* A step that moves no block, no image and no snapshot.
LEMMA ShotFrame ==
    ASSUME Witnessed, SnapshotsExact, UNCHANGED <<tree, toPush, db>>, Filled' = Filled,
           Settled(current)' = Settled(current), Settled(snapshots)' = Settled(snapshots),
           flusher["batch"].pc = "mark" => flusher'["batch"].pc = "mark"
    PROVE  Witnessed' /\ SnapshotsExact'
<1>1. Height' = Height /\ DbHeight' = DbHeight /\ PushHeight' = PushHeight
  BY Zenon DEF Height, DbHeight, PushHeight
<1>2. T(Height)' = T(Height)
  BY Zenon, <1>1 DEF T
<1>3. \A k, h : Witness(k, h)' <=> Witness(k, h)
  BY Zenon, <1>1 DEF Witness
<1>4. Witnessed'
  BY Zenon, <1>1, <1>3 DEF Witnessed
<1>5. MergeAll(Settled(snapshots))' = MergeAll(Settled(snapshots))
  BY Zenon DEF MergeAll, Touched, Touching
<1> QED
  BY Zenon, <1>2, <1>4, <1>5 DEF SnapshotsExact

\* A step that leaves the sequencer where it is and the database as it is.
LEMMA LongLivedFrame ==
    ASSUME LongLivedExact, UNCHANGED <<tree, db, seq, view, longLived, current>>,
           flusher["batch"].pc = "reset" => flusher'["batch"].pc = "reset"
    PROVE  LongLivedExact'
<1>1. T(Height)' = T(Height)
  BY Zenon DEF T, Height
<1>2. LatestTree' = LatestTree
  BY Zenon, <1>1 DEF LatestTree, Newly
<1> QED
  BY Zenon, <1>1, <1>2 DEF LongLivedExact

LEMMA ReadsFrame ==
    ASSUME Reads, UNCHANGED <<tree, db, seq, view, longLived, current, snapshots, toPush>>,
           Filled' = Filled,
           \/ flusher' = flusher
           \/ {flusher["batch"].pc, flusher'["batch"].pc} \cap {"mark", "reset"} = {}
    PROVE  Reads'
<1>1. Pending' <=> Pending
  BY Zenon DEF Pending
<1>2. Settled(current)' = Settled(current) /\ Settled(snapshots)' = Settled(snapshots)
  BY Zenon, <1>1 DEF Settled, AllButLast
<1> QED
  BY Zenon, <1>2, ShotFrame, LongLivedFrame DEF Reads
-----------------------------------------------------------------------------
(* The steps of the sequencer *)

LEMMA StartStepReads ==
    ASSUME TypeInv, Reads, StartStep, Filled' = Filled
    PROVE  Reads'
<1>1. /\ UNCHANGED <<tree, db, longLived, current, snapshots, toPush, flusher>>
      /\ view' = db /\ seq = "between" /\ seq' = "step" /\ flusher["batch"].pc = "off"
  BY Zenon DEF StartStep, cacheVars
<1>2. ~ Pending /\ ~ Pending'
  BY Zenon, <1>1 DEF Pending
<1>3. Settled(current)' = Settled(current) /\ Settled(snapshots)' = Settled(snapshots)
  BY Zenon, <1>1, <1>2 DEF Settled
<1>4. Witnessed' /\ SnapshotsExact'
  BY Zenon, <1>1, <1>3, ShotFrame DEF Reads
<1>5. T(Height)' = T(Height)
  BY Zenon, <1>1 DEF T, Height
<1>6. LatestTree' = T(Height) /\ LatestTree = T(Height)
  BY Zenon, <1>1, <1>5 DEF LatestTree
<1>7. LongLivedExact'
  BY Zenon, <1>1, <1>5, <1>6 DEF LongLivedExact, Reads
<1> QED
  BY Zenon, <1>4, <1>7 DEF Reads

LEMMA EndStepReads ==
    ASSUME TypeInv, Reads, EndStep \/ FailBeforeCommit, Filled' = Filled
    PROVE  Reads'
<1>1. /\ UNCHANGED <<tree, db, view, longLived, current, snapshots, toPush>>
      /\ seq' = "between" /\ flusher["batch"].pc = "off"
      /\ EndStep => seq = "step" /\ flusher'["batch"].pc = "merge"
      /\ FailBeforeCommit => seq = "recorded" /\ flusher'["batch"].pc = "reset"
  BY Zenon DEF EndStep, FailBeforeCommit, cacheVars, TypeInv, Control, ThreadTypes, Flushers
<1>2. Pending' <=> Pending
  BY Zenon, <1>1 DEF Pending
<1>3. Settled(current)' = Settled(current) /\ Settled(snapshots)' = Settled(snapshots)
  BY Zenon, <1>1, <1>2 DEF Settled, AllButLast
<1>4. Witnessed' /\ SnapshotsExact'
  BY Zenon, <1>1, <1>3, ShotFrame DEF Reads
<1>5. T(Height)' = T(Height)
  BY Zenon, <1>1 DEF T, Height
<1>6. EndStep => LatestTree' = T(Height) /\ LatestTree = T(Height)
  BY Zenon, <1>1, <1>5 DEF LatestTree
<1>7. LongLivedExact'
  BY Zenon, <1>1, <1>5, <1>6 DEF LongLivedExact, Reads
<1> QED
  BY Zenon, <1>4, <1>7 DEF Reads

LEMMA SetSmtCacheReads ==
    ASSUME TypeInv, Reads, SetSmtCache, Filled' = Filled
    PROVE  Reads'
<1>1. /\ UNCHANGED <<tree, db, view, toPush, flusher>>
      /\ seq = "step" /\ seq' = "recorded" /\ flusher["batch"].pc = "off"
  BY Zenon DEF SetSmtCache, TypeInv, Control
<1>2. PICK s \in Snapshots :
        /\ snapshots' = Append(snapshots, s) /\ current' = Append(current, s)
        /\ longLived' = Merge(longLived, s.data)
  BY Zenon, SetFacts
<1>3. ~ Pending /\ Pending'
  BY Zenon, <1>1 DEF Pending
<1>4. AllButLast(current') = current /\ AllButLast(snapshots') = snapshots /\ Newly(current') = s
  BY <1>2, ListAppend DEF TypeInv, DataTypes
<1>5. Settled(current)' = Settled(current) /\ Settled(snapshots)' = Settled(snapshots)
  <2>1. Settled(current)' = AllButLast(current') /\ Settled(snapshots)' = AllButLast(snapshots')
    BY Zenon, <1>3 DEF Settled, AllButLast
  <2> QED
    BY Zenon, <1>3, <1>4, <2>1 DEF Settled
<1>6. Witnessed' /\ SnapshotsExact'
  BY Zenon, <1>1, <1>5, ShotFrame DEF Reads
<1>7. T(Height)' = T(Height)
  BY Zenon, <1>1 DEF T, Height
<1>8. LatestTree' = Merge(T(Height), s.data) /\ LatestTree = T(Height)
  <2>1. Newly(current)' = s
    BY Zenon, <1>4 DEF Newly
  <2> QED
    BY Zenon, <1>1, <1>7, <2>1 DEF LatestTree, Merge
<1>9. LongLivedExact'
  <2>1. T(Height) \in Trees /\ s.data \in Data /\ longLived \in Data
    BY HeightTypes, TreeTypes DEF TypeInv, DataTypes, Snapshots
  <2> DEFINE l == Merge(longLived, s.data)
  <2>3. /\ DOMAIN l = DOMAIN longLived \cup DOMAIN s.data
        /\ \A k \in DOMAIN s.data : l[k] = s.data[k]
        /\ \A k \in DOMAIN longLived \ DOMAIN s.data : l[k] = longLived[k]
    BY Zenon, <2>1, MergeFacts
  <2>4. longLived' = l
    BY Zenon, <1>2
  <2> HIDE DEF l
  <2>2. ASSUME NEW k \in AllKeys
        PROVE  IF k \in DOMAIN longLived' THEN longLived'[k] = LatestTree'[k]
               ELSE db[k] = T(Height)[k] /\ view[k] = T(Height)[k]
    <3>1. CASE k \in DOMAIN s.data
      <4>1. LatestTree'[k] = s.data[k]
        BY Zenon, <1>8, <2>1, <3>1, MergeTree
      <4> QED
        BY Zenon, <2>3, <2>4, <3>1, <4>1
    <3>2. CASE k \notin DOMAIN s.data
      <4>1. LatestTree'[k] = LatestTree[k]
        BY <1>8, <2>1, <3>2, MergeTree
      <4>2. k \in DOMAIN longLived' <=> k \in DOMAIN longLived
        BY Zenon, <2>3, <2>4, <3>2
      <4>3. k \in DOMAIN longLived => longLived'[k] = longLived[k]
        BY Zenon, <2>3, <2>4, <3>2
      <4> QED
        BY Zenon, <1>1, <4>1, <4>2, <4>3 DEF Reads, LongLivedExact
    <3> QED
      BY Zenon, <3>1, <3>2
  <2> QED
    BY <1>1, <1>7, <2>2 DEF LongLivedExact
<1> QED
  BY Zenon, <1>6, <1>9 DEF Reads

\* The snapshot of the committed block joins the others.
LEMMA CommitReads ==
    ASSUME TypeInv, LineOK, BatchOK, SnapshotsOK, Reads, CommitBlock, Filled' = Filled
    PROVE  Reads'
<1> DEFINE s == Newly(current)
           front == AllButLast(snapshots)
           list == AllButLast(current)
<1>1. /\ UNCHANGED <<db, view, longLived, current, snapshots, toPush, flusher>>
      /\ seq = "recorded" /\ seq' = "step" /\ flusher["batch"].pc = "off"
      /\ PushHeight' = PushHeight /\ DbHeight' = DbHeight
  BY Zenon DEF CommitBlock, cacheVars, PushHeight, DbHeight, TypeInv, Control
<1>2. Pending /\ ~ Pending' /\ s \in Snapshots /\ s.data \in Data
      /\ Settled(current) = list /\ Settled(current)' = current
      /\ current = Append(list, s) /\ list \in Seq(Snapshots)
  BY Zenon, CommitFacts
<1>3. /\ Settled(snapshots) = front /\ Settled(snapshots)' = snapshots
  BY Zenon, <1>1, <1>2 DEF Settled
<1>4. snapshots = Append(front, s) /\ front \in Seq(Snapshots)
  <2>1. snapshots \in Seq(Snapshots) /\ snapshots # <<>> /\ Newly(snapshots) = s
    BY Zenon, <1>2 DEF TypeInv, DataTypes, SnapshotsOK
  <2> QED
    BY <2>1, FrontAppend, ListFront
<1>6. \A k \in DOMAIN s.data : T(Height)'[k] = s.data[k]
  BY Zenon, CommitFacts
<1>7. \A k \in AllKeys \ DOMAIN s.data : T(Height)'[k] = T(Height)[k]
  BY Zenon, CommitFacts
<1>8. LatestTree' = LatestTree /\ LatestTree' = T(Height)'
  <2>1. T(Height)' = Merge(T(Height), s.data)
    BY Zenon, CommitFacts
  <2> QED
    BY Zenon, <1>1, <2>1 DEF LatestTree
<1> HIDE DEF s, front, list
<1>5. /\ \A i \in DOMAIN front : i \in DOMAIN snapshots /\ snapshots[i] = front[i]
      /\ Len(front) + 1 \in DOMAIN snapshots /\ snapshots[Len(front) + 1] = s
  <2>1. Len(front) \in Nat /\ DOMAIN snapshots = 1 .. (Len(front) + 1)
    BY <1>2, <1>4, ListAppend
  <2>2. Len(front) + 1 \in DOMAIN snapshots
    BY <2>1
  <2> QED
    BY <1>2, <1>4, <2>2, ListAppend
<1>9. Touched(snapshots) = Touched(front) \cup DOMAIN s.data
  BY Zenon, <1>2, <1>4, MergeAppend
<1>10. /\ \A k \in DOMAIN s.data : MergeAll(snapshots)[k] = s.data[k]
       /\ \A k \in Touched(front) \ DOMAIN s.data : MergeAll(snapshots)[k] = MergeAll(front)[k]
  BY Zenon, <1>2, <1>4, MergeAppend
<1>11. Witnessed'
  <2>1. ASSUME NEW k, NEW h, Witness(k, h) PROVE Witness(k, h)'
    BY Zenon, <1>1, <1>3, <1>5, <2>1 DEF Witness
  <2>2. ASSUME NEW i \in DOMAIN current PROVE \E j \in DOMAIN snapshots : snapshots[j] = current[i]
    <3>1. (i \in DOMAIN list /\ current[i] = list[i]) \/ current[i] = s
      <4> DEFINE n == Len(list) + 1
      <4>1. DOMAIN current = 1 .. n /\ DOMAIN list = 1 .. Len(list) /\ Len(list) \in Nat
        BY <1>2, ListAppend
      <4>2. current[n] = s /\ \A j \in DOMAIN list : current[j] = list[j]
        BY <1>2, ListAppend
      <4>3. i \in DOMAIN list \/ i = n
        BY <4>1
      <4> HIDE DEF n
      <4> QED
        BY Zenon, <4>2, <4>3
    <3>2. CASE current[i] = s
      BY Zenon, <1>5, <3>2
    <3>3. CASE i \in DOMAIN list /\ current[i] = list[i]
      BY <1>2, <1>3, <1>5, <3>3 DEF Reads, Witnessed
    <3> QED
      BY Zenon, <3>1, <3>2, <3>3
  <2> QED
    BY <1>1, <1>2, <1>3, <2>1, <2>2 DEF Witnessed, Reads
<1>12. SnapshotsExact'
  <2>1. MergeAll(Settled(snapshots))' = MergeAll(snapshots)
    BY Zenon, <1>3 DEF MergeAll, Touched, Touching
  <2>2. DOMAIN MergeAll(snapshots) = Touched(snapshots)
    BY Zenon, MergeAllFacts DEF TypeInv, DataTypes
  <2>3. ASSUME NEW k \in AllKeys
        PROVE  IF k \in Touched(snapshots) THEN MergeAll(snapshots)[k] = T(Height)'[k]
               ELSE db[k] = T(Height)'[k]
    <3>1. CASE k \in DOMAIN s.data
      BY Zenon, <1>6, <1>9, <1>10, <3>1
    <3>2. CASE k \notin DOMAIN s.data
      <4>1. /\ k \in Touched(front) => MergeAll(front)[k] = T(Height)[k]
            /\ k \notin Touched(front) => db[k] = T(Height)[k]
        BY Zenon, <1>3, ShotKey DEF Reads
      <4> QED
        BY Zenon, <1>7, <1>9, <1>10, <3>2, <4>1
    <3> QED
      BY Zenon, <3>1, <3>2
  <2> QED
    BY Zenon, <1>1, <2>1, <2>2, <2>3 DEF SnapshotsExact
<1>13. LongLivedExact'
  <2>1. \A k \in AllKeys : k \notin DOMAIN longLived => T(Height)'[k] = T(Height)[k]
    BY <1>7, <1>9 DEF TypeInv, Shapes
  <2> QED
    BY <1>1, <1>8, <2>1 DEF LongLivedExact, Reads
<1> QED
  BY Zenon, <1>11, <1>12, <1>13 DEF Reads

\* The reset takes the snapshot of the failed block back.
LEMMA ResetReads ==
    ASSUME TypeInv, BatchOK, SnapshotsOK, Reads, seq # "stopped", ResetCurrentBatch, Filled' = Filled
    PROVE  Reads'
<1>1. UNCHANGED <<tree, db, view, seq, toPush>>
  BY Zenon DEF ResetCurrentBatch, cacheVars, seqVars
<1>2. /\ Pending /\ ~ Pending' /\ current' = AllButLast(current)
      /\ snapshots' = AllButLast(snapshots) /\ longLived' = MergeAll(snapshots')
  BY Zenon, ResetFacts, ResetSnapshotFacts
<1>3. /\ Settled(current)' = Settled(current) /\ Settled(snapshots)' = Settled(snapshots)
      /\ Settled(snapshots) = snapshots'
  BY Zenon, <1>2 DEF Settled
<1>4. flusher["batch"].pc = "reset" /\ seq = "between"
  BY Zenon DEF ResetCurrentBatch, TypeInv, Control, ThreadTypes
<1>5. Witnessed' /\ SnapshotsExact'
  BY <1>1, <1>3, <1>4, ShotFrame DEF Reads
<1>6. T(Height)' = T(Height)
  BY Zenon, <1>1 DEF T, Height
<1>7. LatestTree' = T(Height)
  BY Zenon, <1>1, <1>4, <1>6 DEF LatestTree
<1>8. DOMAIN longLived' = Touched(Settled(snapshots)) /\ longLived' = MergeAll(Settled(snapshots))
  BY Zenon, <1>2, <1>3, ShotTypes
<1>9. LongLivedExact'
  BY <1>1, <1>4, <1>6, <1>7, <1>8, ShotKey DEF LongLivedExact, Reads
<1> QED
  BY Zenon, <1>5, <1>9 DEF Reads
-----------------------------------------------------------------------------
(* The steps of FlushSmtCache *)

LEMMA FlushMergeReads ==
    ASSUME TypeInv, LineOK, BatchOK, SnapshotsOK, Reads, seq # "stopped", NEW t \in {"batch", "stop"},
           FlushMerge(t), Filled' = Filled
    PROVE  Reads'
<1>1. t = "batch" /\ Sound /\ flusher["batch"].pc = "merge"
  BY Zenon DEF FlushMerge, TypeInv, Control, Sound
<1>2. /\ ~ Pending /\ ~ Pending' /\ seq' = seq /\ seq = "between" /\ toPush' = Collected /\ current' = <<>>
      /\ toPush' # <<>> => PushHeight' = Height
      /\ flusher'["batch"].pc \in {"send", "off"} /\ UNCHANGED <<db, tree, snapshots>>
  BY Zenon, <1>1, FlushMergeFacts
<1>3. current # <<>> /\ Newly(current).height = Height
  BY Zenon, <1>1 DEF BatchOK
<1>4. view' = view /\ (longLived' = longLived \/ longLived' = MergeAll(snapshots))
  BY Zenon DEF FlushMerge, seqVars
<1>5. /\ Settled(current) = current /\ Settled(current)' = <<>>
      /\ Settled(snapshots) = snapshots /\ Settled(snapshots)' = snapshots
  BY Zenon, <1>2 DEF Settled
<1>6. /\ DbHeight' = DbHeight /\ Height' = Height /\ T(Height)' = T(Height)
      /\ DbHeight \in Nat /\ Height \in Nat
  BY Zenon, <1>2, HeightTypes DEF DbHeight, Height, T
<1>7. \A k, h : Witness(k, h)' <=> Witness(k, h)
  BY Zenon, <1>5, <1>6 DEF Witness
<1>8. DbHeight < Height /\ \A m \in Filled : m.height < Height
  <2>1. Len(current) \in DOMAIN current
    BY Zenon, <1>3, ListFront DEF TypeInv, DataTypes
  <2> QED
    BY <1>3, <2>1 DEF BatchOK, Newly
<1>9. ASSUME NEW k \in DOMAIN toPush' PROVE Witness(k, Height)
  <2>1. k \in DOMAIN toPush \/ k \in Touched(current)
    BY Zenon, <1>2, CollectedFacts
  <2>2. CASE k \in Touched(current)
    <3>1. PICK i \in DOMAIN current : k \in DOMAIN current[i].data
      BY Zenon, <2>2 DEF Touched
    <3>2. PICK j \in DOMAIN snapshots : snapshots[j] = current[i]
      BY Zenon, <1>5 DEF Reads, Witnessed
    <3>3. DbHeight < current[i].height /\ \A m \in Filled : m.height < current[i].height
      BY Zenon DEF BatchOK
    <3> QED
      BY Zenon, <1>5, <3>1, <3>2, <3>3 DEF Witness
  <2>3. CASE k \in DOMAIN toPush
    <3>1. toPush # <<>>
      BY <2>3
    <3>2. Witness(k, PushHeight) /\ \A m \in Filled : m.height < PushHeight
      BY Zenon, <1>1, <2>3, <3>1 DEF Reads, Witnessed
    <3> QED
      BY Zenon, <3>2 DEF Witness
  <2> QED
    BY Zenon, <2>1, <2>2, <2>3
<1>10. Witnessed'
  <2>1. \A m \in Filled : DbHeight < m.height => \A k \in DOMAIN m.data : Witness(k, m.height)
    BY Zenon DEF Reads, Witnessed
  <2> QED
    BY <1>2, <1>5, <1>6, <1>7, <1>8, <1>9, <2>1 DEF Witnessed
<1>11. SnapshotsExact'
  <2>1. MergeAll(Settled(snapshots))' = MergeAll(Settled(snapshots))
    BY Zenon, <1>5 DEF MergeAll, Touched, Touching
  <2> QED
    BY Zenon, <1>2, <1>6, <2>1 DEF Reads, SnapshotsExact
<1>12. LatestTree = T(Height) /\ LatestTree' = T(Height)
  BY Zenon, <1>2, <1>6 DEF LatestTree
<1>13. LongLivedExact'
  <2>1. CASE longLived' = longLived
    BY <1>1, <1>2, <1>6, <1>12, <2>1 DEF LongLivedExact, Reads
  <2>2. CASE longLived' = MergeAll(snapshots)
    <3>1. DOMAIN longLived' = Touched(Settled(snapshots)) /\ longLived' = MergeAll(Settled(snapshots))
      BY Zenon, <1>5, <2>2, ShotTypes
    <3> QED
      BY <1>2, <1>6, <1>12, <3>1, ShotKey DEF LongLivedExact, Reads
  <2> QED
    BY Zenon, <1>4, <2>1, <2>2
<1> QED
  BY Zenon, <1>10, <1>11, <1>13 DEF Reads

LEMMA FlushSendReads ==
    ASSUME TypeInv, LineOK, BatchOK, NoneBlank, SnapshotsOK, Reads, seq # "stopped",
           NEW t \in {"batch", "stop"}, FlushSend(t)
    PROVE  Reads'
<1> DEFINE x == Sent(t)
<1>1. t = "batch" /\ flusher[t].pc = "send"
  BY Zenon DEF FlushSend, TypeInv, Control
<1>2. /\ UNCHANGED <<tree, db, seq, view, longLived, current, snapshots, toPush>>
      /\ flusher'[t].pc \in {"mark", "off"}
  BY DEF FlushSend, cacheVars, seqVars, TypeInv, ThreadTypes, Flushers
<1>3. /\ current = <<>> /\ ~ Pending
      /\ toPush # <<>> => flusher[t].height = Height /\ PushHeight = Height
  BY Zenon, <1>1, SendFacts
<1>4. toPush # <<>>
  BY Zenon, <1>1 DEF NoneBlank
<1>5. /\ flusher'[t].pc = "mark" => Filled' = Filled \cup {x}
      /\ flusher'[t].pc # "mark" => Filled' = Filled
  BY Zenon, <1>4, FlushSendLine
<1>6. CASE flusher'[t].pc = "off"
  BY Zenon, <1>1, <1>2, <1>5, <1>6, ReadsFrame
<1>7. CASE flusher'[t].pc = "mark"
  <2>1. ~ Pending'
    BY Zenon, <1>1, <1>2, <1>3, <1>7 DEF Pending
  <2>2. /\ Settled(current) = <<>> /\ Settled(current)' = <<>>
        /\ Settled(snapshots) = snapshots /\ Settled(snapshots)' = snapshots
    BY Zenon, <1>2, <1>3, <2>1 DEF Settled
  <2>3. x.height = Height /\ x.data = toPush /\ PushHeight = Height
    BY Zenon, <1>3, <1>4 DEF Sent
  <2>4. Filled' = Filled \cup {x}
    BY Zenon, <1>5, <1>7
  <2> HIDE DEF x
  <2>5. /\ DbHeight' = DbHeight /\ Height' = Height /\ T(Height)' = T(Height)
        /\ DbHeight \in Nat /\ Height \in Nat
        /\ \A m \in Filled : m.height \in Nat /\ m.height <= Height
    BY Zenon, <1>2, HeightTypes DEF DbHeight, Height, T, LineOK
  <2>6. ASSUME NEW k, NEW h \in Nat, h <= Height, Witness(k, h) PROVE Witness(k, h)'
    BY <2>2, <2>3, <2>4, <2>5, <2>6 DEF Witness
  <2>7. \A m \in Filled : DbHeight < m.height => \A k \in DOMAIN m.data : Witness(k, m.height)'
    BY Zenon, <2>5, <2>6 DEF Reads, Witnessed
  <2>8. \A k \in DOMAIN toPush : Witness(k, Height)'
    <3>1. \A k \in DOMAIN toPush : Witness(k, Height)
      BY <1>1, <1>4, <2>3 DEF Reads, Witnessed
    <3> QED
      BY <2>5, <2>6, <3>1
  <2>9. Witnessed'
    <3>1. \A m \in Filled' : DbHeight' < m.height => \A k \in DOMAIN m.data : Witness(k, m.height)'
      BY <2>3, <2>4, <2>5, <2>7, <2>8
    <3> QED
      BY <1>1, <1>7, <2>2, <3>1 DEF Witnessed
  <2>10. SnapshotsExact'
    <3>1. MergeAll(Settled(snapshots))' = MergeAll(Settled(snapshots))
      BY Zenon, <2>2 DEF MergeAll, Touched, Touching
    <3> QED
      BY <1>2, <2>5, <3>1 DEF Reads, SnapshotsExact
  <2>11. LongLivedExact'
    BY Zenon, <1>1, <1>2, LongLivedFrame DEF Reads
  <2> QED
    BY Zenon, <2>9, <2>10, <2>11 DEF Reads
<1> QED
  BY Zenon, <1>2, <1>6, <1>7

LEMMA FlushMarkReads ==
    ASSUME TypeInv, BatchOK, Reads, seq # "stopped", NEW t \in {"batch", "stop"}, FlushMark(t),
           Filled' = Filled
    PROVE  Reads'
<1>1. /\ t = "batch" /\ flusher[t].pc = "mark" /\ toPush' = <<>> /\ flusher'["batch"].pc = "off"
      /\ UNCHANGED <<tree, db, seq, view, longLived, current, snapshots>>
  BY Zenon DEF FlushMark, seqVars, TypeInv, Control, ThreadTypes, Flushers
<1>2. current = <<>> /\ ~ Pending
  BY Zenon, <1>1, SendFacts
<1>3. ~ Pending'
  BY Zenon, <1>1, <1>2 DEF Pending
<1>4. /\ Settled(current) = <<>> /\ Settled(current)' = <<>>
      /\ Settled(snapshots) = snapshots /\ Settled(snapshots)' = snapshots
  BY Zenon, <1>1, <1>2, <1>3 DEF Settled
<1>5. DbHeight' = DbHeight /\ Height' = Height /\ T(Height)' = T(Height)
  BY Zenon, <1>1 DEF DbHeight, Height, T
<1>6. \A k, h : Witness(k, h)' <=> Witness(k, h)
  BY Zenon, <1>4, <1>5 DEF Witness
<1>7. Witnessed'
  BY <1>1, <1>4, <1>5, <1>6 DEF Reads, Witnessed
<1>8. SnapshotsExact'
  <2>1. MergeAll(Settled(snapshots))' = MergeAll(Settled(snapshots))
    BY Zenon, <1>4 DEF MergeAll, Touched, Touching
  <2> QED
    BY Zenon, <1>1, <1>5, <2>1 DEF Reads, SnapshotsExact
<1>9. LongLivedExact'
  BY Zenon, <1>1, LongLivedFrame DEF Reads
<1> QED
  BY Zenon, <1>7, <1>8, <1>9 DEF Reads
-----------------------------------------------------------------------------
(* The steps of FlushDataToDB *)

\* The write of an image adds nothing that the snapshots do not have.
LEMMA FlushReads ==
    ASSUME InOrder, TypeInv, LineOK, Contents, Contents', NoneBlank, SnapshotsOK, Reads,
           NEW w \in Slots, Flush(w)
    PROVE  Reads'
<1> DEFINE image == worker[w].image
           h == image.height
<1>1. /\ db' = Merge(db, image.data)
      /\ UNCHANGED <<tree, toPush, current, snapshots, longLived, seq, view, flusher>>
      /\ w \in Flushing
  BY Zenon DEF Flush, cacheVars, seqVars, Flushing
<1>2. image.data # <<>>
  BY Zenon, <1>1 DEF NoneBlank
<1>3. /\ image \in Filled /\ Filled' \subseteq Filled /\ DbHeight' = h
      /\ \A m \in Filled : h <= m.height
  BY Zenon, <1>2, FlushLine
<1>4. /\ Height' = Height /\ \A n : T(n)' = T(n)
      /\ DbHeight \in Nat /\ Height \in Nat /\ h \in Nat /\ DbHeight <= h /\ h <= Height
      /\ \A m \in Filled : m.height \in Nat
      /\ toPush # <<>> => PushHeight \in Nat
      /\ PushHeight' = PushHeight
  BY <1>1, <1>3, HeightTypes DEF Height, T, LineOK, PushHeight
<1>5. Settled(current)' = Settled(current) /\ Settled(snapshots)' = Settled(snapshots)
  BY Zenon, <1>1 DEF Settled, Pending, AllButLast
<1>6. T(Height)' = T(Height)
  BY <1>1, <1>4 DEF T
<1>7. db \in Trees /\ image.data \in Data
  BY <1>3, HeightTypes DEF TypeInv, DataTypes
<1>8. h = DbHeight => db' = db
  <2>1. db' = T(DbHeight)'
    BY Zenon DEF Contents
  <2>2. T(DbHeight)' = tree[h + 1]
    BY Zenon, <1>1, <1>3 DEF T
  <2> HIDE DEF h
  <2> QED
    BY Zenon, <2>1, <2>2 DEF Contents, T
<1>9. \A k \in AllKeys \ DOMAIN image.data : db'[k] = db[k]
  BY Zenon, <1>1, <1>7, MergeTree
<1> HIDE DEF image
<1>10. ASSUME NEW k, NEW g \in Nat, h < g, Witness(k, g) PROVE Witness(k, g)'
  BY Zenon, <1>3, <1>4, <1>5, <1>10, ShotTypes DEF Witness
<1>11. Witnessed'
  <2>1. ASSUME NEW m \in Filled', DbHeight' < m.height, NEW k \in DOMAIN m.data
        PROVE  Witness(k, m.height)'
    <3>1. m \in Filled /\ m.height \in Nat /\ h < m.height /\ DbHeight < m.height
      BY <1>3, <1>4, <2>1
    <3>2. Witness(k, m.height)
      BY Zenon, <2>1, <3>1 DEF Reads, Witnessed
    <3> QED
      BY Zenon, <1>10, <3>1, <3>2
  <2>2. ASSUME toPush # <<>>, flusher["batch"].pc # "mark"
        PROVE  /\ DbHeight' < PushHeight /\ \A m \in Filled' : m.height < PushHeight
               /\ \A k \in DOMAIN toPush : Witness(k, PushHeight)'
    <3>1. /\ \A m \in Filled : m.height < PushHeight
          /\ \A k \in DOMAIN toPush : Witness(k, PushHeight)
      BY Zenon, <2>2 DEF Reads, Witnessed
    <3> QED
      BY <1>3, <1>4, <1>10, <2>2, <3>1
  <2> QED
    BY <1>1, <1>4, <1>5, <2>1, <2>2 DEF Reads, Witnessed
<1>12. ASSUME NEW k \in AllKeys, k \notin Touched(Settled(snapshots))
       PROVE  db'[k] = T(Height)[k]
  <2>1. db[k] = T(Height)[k]
    BY Zenon, <1>12, ShotKey DEF Reads
  <2>2. CASE k \notin DOMAIN image.data
    BY <1>9, <2>1, <2>2
  <2>3. CASE k \in DOMAIN image.data
    <3>1. ~ Witness(k, h)
      BY Zenon, <1>12 DEF Witness, Touched
    <3>2. ~ (DbHeight < h)
      BY <1>3, <2>3, <3>1 DEF Reads, Witnessed
    <3> QED
      BY <1>4, <1>8, <2>1, <3>2
  <2> QED
    BY Zenon, <2>2, <2>3
<1>13. SnapshotsExact'
  <2>1. MergeAll(Settled(snapshots))' = MergeAll(Settled(snapshots))
    BY Zenon, <1>5 DEF MergeAll, Touched, Touching
  <2>2. DOMAIN MergeAll(Settled(snapshots)) = Touched(Settled(snapshots))
    BY Zenon, ShotTypes
  <2> QED
    BY <1>6, <1>12, <2>1, <2>2 DEF Reads, SnapshotsExact
<1>14. LongLivedExact'
  <2>1. LatestTree' = LatestTree
    BY Zenon, <1>1, <1>6 DEF LatestTree, Newly
  <2>2. \A k \in AllKeys : k \notin DOMAIN longLived => db'[k] = T(Height)[k]
    BY Zenon, <1>12, ShotTypes
  <2> QED
    BY <1>1, <1>6, <2>1, <2>2 DEF LongLivedExact, Reads
<1> QED
  BY <1>11, <1>13, <1>14 DEF Reads

\* A key that no image, no collected data and no block of the batch has is the same
\* in the database and in the last tree: it is the same at every image in between.
LEMMA Unwritten ==
    ASSUME TypeInv, LineOK, BatchOK, Contents, NEW k \in AllKeys,
           \A m \in Filled : DbHeight < m.height => k \notin DOMAIN m.data,
           k \notin DOMAIN toPush, k \notin Touched(Settled(current))
    PROVE  db[k] = T(Height)[k]
<1> DEFINE Same == {n \in DbHeight .. Height : T(n)[k] = T(DbHeight)[k]}
<1>1. /\ DbHeight \in Nat /\ Height \in Nat /\ DbHeight <= Height
      /\ \A m \in Filled : m.height \in Nat /\ m.height <= Height
  BY Zenon, HeightTypes DEF LineOK
<1>2. DbHeight \in Same /\ Same \in SUBSET (0 .. Height)
  BY <1>1
<1> DEFINE g == Max(Same)
<1>3. g \in Same /\ \A n \in Same : n <= g
  BY Zenon, <1>1, <1>2, GreatestOf
<1> HIDE DEF g
<1>4. g \in DbHeight .. Height /\ T(g)[k] = T(DbHeight)[k]
  BY Zenon, <1>3
<1>5. CASE \A m \in Filled : m.height <= g
  <2>1. T(g)[k] = T(Height)[k]
    BY Zenon, <1>4, <1>5, CollectedKey DEF BatchOK, Contents
  <2> QED
    BY Zenon, <1>4, <2>1 DEF Contents
<1>6. ASSUME NEW m \in Filled, ~ (m.height <= g) PROVE FALSE
  <2> DEFINE Above == {n \in Nat : n > g /\ \E x \in Filled : x.height = n}
             h == Min(Above)
  <2>1. m.height \in Above /\ Above \in SUBSET Nat
    BY <1>1, <1>4, <1>6
  <2>2. h \in Above /\ \A n \in Above : h <= n
    BY Zenon, <2>1, LeastOf
  <2> HIDE DEF h
  <2>3. PICK x \in Filled : x.height = h
    BY Zenon, <2>2
  <2>4. h > g /\ h \in Nat /\ h <= Height /\ h \in DbHeight .. Height /\ DbHeight < h
    BY <1>1, <1>4, <2>2, <2>3
  <2>5. Between(g, h)
    BY <1>1, <1>4, <2>2, <2>4 DEF Between
  <2>6. ImageExact(x) /\ k \notin DOMAIN x.data /\ g \in DbHeight .. h
    BY <1>1, <1>4, <2>3, <2>4 DEF Contents
  <2>7. T(g)[k] = T(h)[k]
    BY Zenon, <2>3, <2>5, <2>6 DEF ImageExact
  <2>8. h \in Same
    BY Zenon, <1>4, <2>4, <2>7
  <2> QED
    BY <1>1, <1>3, <1>4, <2>4, <2>8
<1> QED
  BY Zenon, <1>5, <1>6

\* The truncation drops the oldest committed snapshots, up to a height the database has.
LEMMA DeleteShotFacts ==
    ASSUME TypeInv, LineOK, BatchOK, SnapshotsOK, NEW w \in Slots, DeleteSnapshots(w),
           Reached(worker[w].top)
    PROVE  LET A == Settled(snapshots)
               B == Settled(snapshots)'
           IN  /\ B \in Seq(Snapshots)
               /\ \E n \in Nat :
                    /\ \A i \in DOMAIN A : i <= n => Reached(A[i].height)
                    /\ \A i \in DOMAIN B : n + i \in DOMAIN A /\ B[i] = A[n + i]
                    /\ \A i \in DOMAIN A : i > n => i - n \in DOMAIN B /\ B[i - n] = A[i]
<1> DEFINE A == Settled(snapshots)
           B == Settled(snapshots)'
           l == Len(snapshots)
<1>1. PICK n \in 0 .. l :
             /\ \A i \in DOMAIN snapshots : i <= n => Reached(snapshots[i].height)
             /\ DOMAIN snapshots' = 1 .. (l - n) /\ Len(snapshots') = l - n
             /\ \A i \in DOMAIN snapshots' : snapshots'[i] = snapshots[n + i] /\ n + i \in DOMAIN snapshots
             /\ \A i \in DOMAIN snapshots : i > n => i - n \in DOMAIN snapshots' /\ snapshots'[i - n] = snapshots[i]
  BY Zenon, DeleteSnapshotFacts
<1>2. snapshots \in Seq(Snapshots) /\ snapshots' \in Seq(Snapshots) /\ l \in Nat /\ DOMAIN snapshots = 1 .. l
  <2>1. snapshots \in Seq(Snapshots)
    BY Zenon DEF TypeInv, DataTypes
  <2>2. snapshots' \in Seq(Snapshots)
    BY Zenon, <2>1, CascadeFacts DEF DeleteSnapshots
  <2> QED
    BY <2>1, <2>2
<1>3. Pending' <=> Pending
  BY Zenon DEF DeleteSnapshots, Pending, seqVars
<1>4. CASE ~ Pending
  <2>1. A = snapshots /\ B = snapshots'
    BY Zenon, <1>3, <1>4 DEF Settled
  <2> QED
    BY <1>1, <1>2, <2>1
<1>5. CASE Pending
  <2>1. A = AllButLast(snapshots) /\ B = AllButLast(snapshots')
    BY <1>3, <1>5 DEF Settled, AllButLast
  <2>2. snapshots # <<>> /\ Newly(snapshots).height = Height + 1
    BY <1>5 DEF SnapshotsOK, BatchOK
  <2>3. l \in DOMAIN snapshots /\ snapshots[l].height = Height + 1
    BY <1>2, <2>2 DEF Newly
  <2>4. DbHeight \in Nat /\ Height \in Nat /\ DbHeight <= Height
    BY Zenon, HeightTypes DEF LineOK
  <2>5. ~ Reached(Height + 1)
    BY <2>4 DEF Reached
  <2>6. n < l
    BY <1>1, <1>2, <2>3, <2>5
  <2>7. DOMAIN A = 1 .. (l - 1) /\ \A i \in DOMAIN A : i \in DOMAIN snapshots /\ A[i] = snapshots[i]
    BY <1>2, <2>1, <2>2, ListFront
  <2> DEFINE e == Len(snapshots')
  <2>8. e = l - n
    BY Zenon, <1>1
  <2>9. snapshots' # <<>>
    BY <1>2, <2>6, <2>8
  <2>10. B \in Seq(Snapshots) /\ DOMAIN B = 1 .. (e - 1)
         /\ \A i \in DOMAIN B : i \in DOMAIN snapshots' /\ B[i] = snapshots'[i]
    BY <1>2, <2>1, <2>9, ListFront
  <2> HIDE DEF A, B, l, e
  <2>11. \A i \in DOMAIN A : i <= n => Reached(A[i].height)
    BY Zenon, <1>1, <2>7
  <2>12. ASSUME NEW i \in DOMAIN B PROVE n + i \in DOMAIN A /\ B[i] = A[n + i]
    <3>1. n + i \in DOMAIN A
      BY <1>2, <2>6, <2>7, <2>8, <2>10
    <3> QED
      BY Zenon, <1>1, <2>7, <2>10, <3>1
  <2>13. ASSUME NEW i \in DOMAIN A, i > n PROVE i - n \in DOMAIN B /\ B[i - n] = A[i]
    <3>1. i - n \in DOMAIN B
      BY <1>2, <2>6, <2>7, <2>8, <2>10, <2>13
    <3>2. snapshots'[i - n] = snapshots[i]
      BY Zenon, <1>1, <2>7, <2>13
    <3> QED
      BY Zenon, <2>7, <2>10, <3>1, <3>2
  <2>14. n \in Nat
    BY <1>2
  <2> QED
    BY Zenon, <2>10, <2>11, <2>12, <2>13, <2>14 DEF A, B
<1> QED
  BY Zenon, <1>4, <1>5

LEMMA DeleteReads ==
    ASSUME TypeInv, LineOK, BatchOK, Contents, SnapshotsOK, ConfirmedOK, Reads,
           NEW w \in Slots, DeleteSnapshots(w), Filled' = Filled
    PROVE  Reads'
<1> DEFINE A == Settled(snapshots)
           B == Settled(snapshots)'
<1>1. UNCHANGED <<tree, db, seq, view, longLived, current, toPush, flusher>>
  BY Zenon DEF DeleteSnapshots, seqVars
<1>2. Reached(worker[w].top)
  BY Zenon DEF DeleteSnapshots, ConfirmedOK
<1>3. A \in Seq(Snapshots) /\ \A i \in DOMAIN A : A[i].height \in Nat
  BY Zenon, ShotTypes
<1>4. B \in Seq(Snapshots)
  BY Zenon, <1>2, DeleteShotFacts
<1>5. PICK n \in Nat :
             /\ \A i \in DOMAIN A : i <= n => Reached(A[i].height)
             /\ \A i \in DOMAIN B : n + i \in DOMAIN A /\ B[i] = A[n + i]
             /\ \A i \in DOMAIN A : i > n => i - n \in DOMAIN B /\ B[i - n] = A[i]
  BY Zenon, <1>2, DeleteShotFacts
<1>6. /\ DbHeight' = DbHeight /\ Height' = Height /\ T(Height)' = T(Height) /\ PushHeight' = PushHeight
      /\ DbHeight \in Nat
  BY Zenon, <1>1, HeightTypes DEF DbHeight, Height, T, PushHeight
<1>7. Settled(current)' = Settled(current)
  BY Zenon, <1>1 DEF Settled, Pending, AllButLast
<1>8. ASSUME NEW i \in DOMAIN A, DbHeight < A[i].height
      PROVE  \E j \in DOMAIN B : B[j] = A[i]
  <2>1. i \in Nat
    BY <1>3
  <2>2. ~ (i <= n)
    BY <1>3, <1>5, <1>6, <1>8 DEF Reached
  <2>3. i > n
    BY <2>1, <2>2
  <2> QED
    BY Zenon, <1>5, <2>3
<1>9. ASSUME NEW k, NEW h, Witness(k, h) PROVE Witness(k, h)'
  <2>1. PICK i \in DOMAIN A : /\ k \in DOMAIN A[i].data /\ DbHeight < A[i].height
                              /\ \A m \in Filled : m.height < h => m.height < A[i].height
    BY Zenon, <1>9 DEF Witness
  <2>2. PICK j \in DOMAIN B : B[j] = A[i]
    BY Zenon, <1>8, <2>1
  <2> HIDE DEF A
  <2> QED
    BY Zenon, <1>6, <2>1, <2>2 DEF Witness
<1>10. ASSUME NEW i \in DOMAIN Settled(current)
       PROVE  \E j \in DOMAIN B : B[j] = Settled(current)[i]
  <2>1. PICK j \in DOMAIN A : A[j] = Settled(current)[i]
    BY Zenon DEF Reads, Witnessed
  <2>2. DbHeight < Settled(current)[i].height
    BY Zenon, SettledTypes DEF BatchOK
  <2> QED
    BY Zenon, <1>8, <2>1, <2>2
<1>11. Witnessed'
  BY <1>1, <1>6, <1>7, <1>9, <1>10 DEF Reads, Witnessed
<1>12. ASSUME NEW k \in AllKeys, k \in Touched(B)
       PROVE  MergeAll(B)[k] = T(Height)[k]
  <2>1. PICK i \in DOMAIN B : /\ k \in DOMAIN B[i].data /\ MergeAll(B)[k] = B[i].data[k]
                              /\ \A j \in DOMAIN B : k \in DOMAIN B[j].data => j <= i
    BY Zenon, <1>4, <1>12, MergeAllFacts
  <2> DEFINE a == n + i
  <2>2. a \in DOMAIN A /\ B[i] = A[a] /\ i \in Nat \ {0} /\ a = n + i
    BY <1>4, <1>5
  <2> HIDE DEF a, A, B
  <2>3. ASSUME NEW j \in DOMAIN A, k \in DOMAIN A[j].data PROVE j <= a
    <3>0. j \in Nat
      BY <1>3
    <3>1. CASE j > n
      <4>1. j - n \in DOMAIN B /\ B[j - n] = A[j]
        BY Zenon, <1>5, <3>1
      <4>2. j - n <= i
        BY <2>1, <2>3, <4>1
      <4> QED
        BY <2>2, <3>0, <4>2
    <3>2. CASE ~ (j > n)
      BY <2>2, <3>0, <3>2
    <3> QED
      BY Zenon, <3>1, <3>2
  <2>4. k \in DOMAIN A[a].data
    BY Zenon, <2>1, <2>2
  <2>5. k \in Touched(A) /\ MergeAll(A)[k] = A[a].data[k]
    BY <1>3, <2>2, <2>3, <2>4, LatestDecides
  <2>6. MergeAll(A)[k] = T(Height)[k]
    BY Zenon, <2>5, ShotKey DEF Reads, A
  <2> QED
    BY <2>1, <2>2, <2>5, <2>6
<1>13. ASSUME NEW k \in AllKeys, k \notin Touched(B)
       PROVE  db[k] = T(Height)[k]
  <2>1. \A h : ~ Witness(k, h)
    BY Zenon, <1>9, <1>13 DEF Witness, Touched
  <2>2. \A m \in Filled : DbHeight < m.height => k \notin DOMAIN m.data
    BY Zenon, <2>1 DEF Reads, Witnessed
  <2>3. k \notin Touched(Settled(current))
    BY Zenon, <1>10, <1>13 DEF Touched
  <2>4. CASE k \notin DOMAIN toPush
    BY <2>2, <2>3, <2>4, Unwritten
  <2>5. CASE k \in DOMAIN toPush
    <3>1. toPush # <<>>
      BY <2>5
    <3>2. flusher["batch"].pc = "mark"
      BY <2>1, <2>5, <3>1 DEF Reads, Witnessed
    <3>3. PushHeight = Height
      BY <3>1, <3>2, SendFacts
    <3>4. DbHeight = Height \/ \E m \in Filled : m.height = Height
      BY Zenon, <3>1, <3>2 DEF Contents, SentIsThere
    <3>5. CASE DbHeight = Height
      BY Zenon, <3>5 DEF Contents, T
    <3>6. ASSUME NEW m \in Filled, m.height = Height, DbHeight # Height PROVE FALSE
      <4>1. m.data = toPush
        BY Zenon, <3>1, <3>3, <3>6 DEF Contents, Twins
      <4>2. DbHeight < m.height
        BY <1>6, <3>6, HeightTypes DEF LineOK
      <4> QED
        BY <2>2, <2>5, <4>1, <4>2
    <3> QED
      BY <3>4, <3>5, <3>6
  <2> QED
    BY Zenon, <2>4, <2>5
<1>14. SnapshotsExact'
  <2>1. MergeAll(Settled(snapshots))' = MergeAll(B)
    BY Zenon DEF MergeAll, Touched, Touching
  <2>2. DOMAIN MergeAll(B) = Touched(B)
    BY Zenon, <1>4, MergeAllFacts
  <2> HIDE DEF B
  <2> QED
    BY <1>1, <1>6, <1>12, <1>13, <2>1, <2>2 DEF SnapshotsExact
<1>15. LongLivedExact'
  BY Zenon, <1>1, LongLivedFrame DEF Reads
<1> QED
  BY Zenon, <1>11, <1>14, <1>15 DEF Reads
-----------------------------------------------------------------------------
LEMMA InitReads == Init => ReadInv
<1> SUFFICES ASSUME Init PROVE ReadInv
  OBVIOUS
<1>1. ContentInv /\ TypeInv /\ LineOK
  BY Zenon, InitContent DEF ContentInv, OrderInv, Sound, Init
<1>2. Filled = {}
  BY Zenon, InitLine
<1>3. Height = 0 /\ T(Height) = db /\ LatestTree = T(Height)
  BY DEF Init, Height, T, LatestTree
<1>4. Settled(current) = <<>> /\ Settled(snapshots) = <<>> /\ DOMAIN longLived = {} /\ toPush = <<>>
  BY DEF Init, Settled, Pending
<1>5. Witnessed
  BY Zenon, <1>2, <1>4 DEF Witnessed
<1>6. DOMAIN MergeAll(Settled(snapshots)) = {}
  BY <1>4 DEF MergeAll, Touched
<1>7. SnapshotsExact
  BY Zenon, <1>3, <1>6 DEF SnapshotsExact
<1>8. LongLivedExact
  BY Zenon, <1>3, <1>4 DEF LongLivedExact, Init
<1> QED
  BY <1>1, <1>5, <1>7, <1>8 DEF ReadInv, Reads

\* Every step keeps what the sequencer reads.
LEMMA NextReadsHold ==
    ASSUME InOrder, ReadInv, [Next]_vars, NoneSkipped', seq' # "stopped"
    PROVE  Reads'
<1>1. /\ TypeInv /\ Sound /\ LineOK /\ BatchOK /\ Contents /\ seq # "stopped"
      /\ NoneBlank /\ SnapshotsOK /\ ConfirmedOK /\ Reads
      /\ ~ FailInCommit /\ \A w \in Slots : ~ FlushFails(w)
  <2>1. TypeInv
    BY Zenon DEF ReadInv, ContentInv, OrderInv
  <2>2. /\ NoneSkipped /\ Sound /\ seq # "stopped"
        /\ ~ FailInCommit /\ \A w \in Slots : ~ FlushFails(w)
    BY Zenon, <2>1, SoundBack, ErrorsGrow
  <2> QED
    BY Zenon, <2>2 DEF ReadInv, ContentInv, OrderInv
<1>2. CASE UNCHANGED vars
  <2>1. Filled' = Filled
    BY Zenon, <1>1, <1>2, LineSteps
  <2>2. UNCHANGED <<tree, db, seq, view, longLived, current, snapshots, toPush, flusher>>
    BY Zenon, <1>2 DEF vars, cacheVars, seqVars
  <2> QED
    BY Zenon, <1>1, <2>1, <2>2, ReadsFrame
<1>3. CASE Sequence \/ ResetCurrentBatch
  <2>1. Filled' = Filled
    BY <1>1, <1>3, LineSteps
  <2> QED
    BY <1>1, <1>3, <2>1, StartStepReads, SetSmtCacheReads, EndStepReads, CommitReads, ResetReads
       DEF Sequence
<1>4. CASE Dispatching
  <2>1. Filled' = Filled
    BY <1>1, <1>4, LineSteps, ReceiveLine, DispatchLine DEF Dispatching
  <2>2. UNCHANGED <<tree, db, seq, view, longLived, current, snapshots, toPush, flusher>>
    BY Zenon, <1>4 DEF Dispatching, Receive, Dispatch, Drain, Done, cacheVars, seqVars
  <2> QED
    BY Zenon, <1>1, <2>1, <2>2, ReadsFrame
<1>5. ASSUME NEW t \in {"batch", "stop"}, FlushCache(t) PROVE Reads'
  <2>1. CASE FlushMerge(t)
    BY <1>1, <2>1, LineSteps, FlushMergeReads
  <2>2. CASE FlushSend(t)
    BY Zenon, <1>1, <2>2, FlushSendReads
  <2>3. CASE FlushMark(t)
    BY <1>1, <2>3, LineSteps, FlushMarkReads
  <2> QED
    BY Zenon, <1>5, <2>1, <2>2, <2>3 DEF FlushCache
<1>6. ASSUME NEW w \in Slots, Work(w) PROVE Reads'
  <2>1. CASE Flush(w)
    <3>1. Contents'
      BY Zenon, NextContents DEF ReadInv
    <3> QED
      BY <1>1, <2>1, <3>1, FlushReads
  <2>2. CASE DeleteSnapshots(w)
    BY Zenon, <1>1, <2>2, LineSteps, DeleteReads
  <2>3. CASE ~ Flush(w) /\ ~ DeleteSnapshots(w)
    <3>1. Filled' = Filled /\ db' = db
      BY Zenon, <1>1, <1>6, <2>3, LineSteps DEF Work
    <3>2. UNCHANGED <<tree, seq, view, longLived, current, snapshots, toPush, flusher>>
      BY Zenon, <1>6, <2>3 DEF Work, Confirm, ReadTop, CompareTop, PopConfirmed, PopPushed, cacheVars, seqVars
    <3> QED
      BY <1>1, <3>1, <3>2, ReadsFrame
  <2> QED
    BY Zenon, <2>1, <2>2, <2>3
<1>7. ~ Stop /\ (Idle => UNCHANGED vars)
  BY Zenon DEF Stop, Idle
<1> QED
  BY Zenon, <1>1, <1>2, <1>3, <1>4, <1>5, <1>6, <1>7 DEF Next

LEMMA NextReads == InOrder /\ ReadInv /\ [Next]_vars => ReadInv'
BY Zenon, NextContent, NextReadsHold DEF ReadInv

LEMMA ReadsDecide == ReadInv => ReadsLatest
<1> SUFFICES ASSUME ReadInv, seq = "step", NoneSkipped
             PROVE  Read(view, longLived) = tree[Len(tree)]
  BY Zenon DEF ReadsLatest
<1>1. TypeInv /\ LongLivedExact
  BY Zenon DEF ReadInv, ContentInv, OrderInv, Reads
<1>2. T(Height) \in Trees /\ T(Height) = tree[Len(tree)]
  BY <1>1, TreeTypes, HeightTypes
<1>3. LatestTree = T(Height) /\ flusher["batch"].pc # "reset"
  BY Zenon, <1>1 DEF LatestTree, TypeInv, Control
<1>4. view \in Trees /\ longLived \in Data
  BY Zenon, <1>1 DEF TypeInv, DataTypes
<1>5. ASSUME NEW k \in AllKeys PROVE Merge(view, longLived)[k] = T(Height)[k]
  <2>1. CASE k \in DOMAIN longLived
    BY <1>1, <1>3, <1>4, <2>1, MergeTree DEF LongLivedExact
  <2>2. CASE k \notin DOMAIN longLived
    BY <1>1, <1>3, <1>4, <2>2, MergeTree DEF LongLivedExact
  <2> QED
    BY Zenon, <2>1, <2>2
<1> QED
  BY Zenon, <1>2, <1>5 DEF Read, Trees

\* When images are written in the order they were sent, every block is built on the
\* tree of the block before it, for any numbers of blocks, keys, workers and pool
\* slots and any flush periods, as long as no commit and no write failed: what
\* LongLivedSmtCache lacks, the step's view of the SMT database has.
THEOREM SmtCacheReadsLatest ==
    ASSUME InOrder PROVE Spec => []ReadsLatest
<1>1. ReadInv => ReadsLatest
  BY Zenon, ReadsDecide
<1>2. ReadInv /\ [Next]_vars => ReadInv'
  BY Zenon, NextReads
<1> QED
  BY <1>1, <1>2, InitReads, PTL DEF Spec

=============================================================================
