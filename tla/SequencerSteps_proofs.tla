------------------------ MODULE SequencerSteps_proofs ------------------------
(* What the steps of the sequencer do to SyncInv in sync-commit mode.              *)
EXTENDS SequencerInv, DataStream_proofs

-----------------------------------------------------------------------------
(* What the stream's numbers and the stored state do when an entry is added, and   *)
(* the steps that touch neither the chain nor the stream.                          *)

\* What one more entry does to the numbers read from the file.
LEMMA HighestOfAppend ==
    ASSUME WellOrdered, NEW f \in Seq(Entry), NEW e \in Entry
    PROVE  /\ Append(f, e) \in Seq(Entry)
           /\ HighestBlockInFile(Append(f, e)) =
                IF e.type = "block" THEN e.num ELSE HighestBlockInFile(f)
           /\ HighestBatchInFile(Append(f, e)) =
                IF e.type = "start" THEN e.batch ELSE HighestBatchInFile(f)
           /\ HighestClosedInFile(Append(f, e)) =
                IF e.type = "end" THEN e.batch ELSE HighestClosedInFile(f)
<1> DEFINE g == Append(f, e)
<1>1. g \in Seq(Entry) /\ Len(g) = Len(f) + 1 /\ g[Len(f) + 1] = e
        /\ \A j \in 1 .. Len(f) : g[j] = f[j]
  BY AppendFacts
<1>2. \A t : LastOfType(g, t) = IF e.type = t THEN Len(f) + 1 ELSE LastOfType(f, t)
  BY Zenon, LastOfAppend
<1>3. \A t : LastOfType(f, t) \in 0 .. Len(f)
  BY Zenon, LastExists DEF IsLast
<1> QED
  BY <1>1, <1>2, <1>3 DEF HighestBlockInFile, HighestBatchInFile, HighestClosedInFile

\* The numbers read from a file are natural numbers.
LEMMA HighestType ==
    ASSUME WellOrdered, NEW f \in Seq(Entry)
    PROVE  /\ HighestBlockInFile(f) \in Nat
           /\ HighestBatchInFile(f) \in Nat
           /\ HighestClosedInFile(f) \in Nat
<1>1. \A t : IsLast(f, t, LastOfType(f, t))
  BY Zenon, LastExists
<1>2. \A i \in 1 .. Len(f) : f[i] \in Entry
  OBVIOUS
<1>3. \A e \in Entry : /\ e.type = "block" => e.num \in Nat
                       /\ e.batch \in Nat
  BY Zenon DEF Entry
<1> QED
  BY <1>1, <1>2, <1>3 DEF IsLast, HighestBlockInFile, HighestBatchInFile, HighestClosedInFile

\* An empty stream has no block, no batch and no closed batch.
LEMMA HighestOfEmpty ==
    ASSUME WellOrdered
    PROVE  /\ HighestBlockInFile(<<>>) = 0
           /\ HighestBatchInFile(<<>>) = 0
           /\ HighestClosedInFile(<<>>) = 0
<1>1. <<>> \in Seq(Entry) /\ Len(<<>>) = 0
  OBVIOUS
<1>2. ASSUME NEW t PROVE LastOfType(<<>>, t) = 0
  <2>1. IsLast(<<>>, t, LastOfType(<<>>, t))
    BY Zenon, <1>1, LastExists
  <2>2. LastOfType(<<>>, t) \in 0 .. Len(<<>>)
    BY Zenon, <2>1 DEF IsLast
  <2> QED
    BY <1>1, <2>2
<1> QED
  BY Zenon, <1>2 DEF HighestBlockInFile, HighestBatchInFile, HighestClosedInFile

-----------------------------------------------------------------------------
\* Steps that touch neither the chain nor the stream keep what relates them.
LEMMA StoredFrame ==
    ASSUME Stored, pc # "injectCommit", UNCHANGED <<chain, ds, published>>
    PROVE  Stored'
BY DEF Stored, Exact, StreamEnd, BatchesGrow, StreamWellFormed, BatchEndRoot,
       StreamMatchesChain, PublishedOnChain, Top, Open, Closed, LastEntry, Height

\* The chain's height and batches are natural numbers.
LEMMA ChainType ==
    ASSUME TypeOK
    PROVE  /\ Height \in Nat /\ LastBatch \in Nat
           /\ \A n \in 1 .. Height : chain[n] \in Block /\ chain[n].batch \in Nat
<1>1. chain \in Seq(Block) /\ Height \in Nat
  BY DEF TypeOK, Height
<1>2. \A n \in 1 .. Height : chain[n] \in Block
  BY <1>1 DEF Height
<1>3. \A b \in Block : b.batch \in Nat
  BY Zenon DEF Block
<1> QED
  BY <1>1, <1>2, <1>3 DEF LastBatch

\* What the server answers is what its file says.
LEMMA ExactReads ==
    ASSUME NEW d, Exact(d)
    PROVE  /\ GetHighestBlockNumber(d) = HighestBlockInFile(d.file)
           /\ GetHighestBatchNumber(d) = HighestBatchInFile(d.file)
           /\ GetHighestClosedBatch(d) = HighestClosedInFile(d.file)
BY Zenon DEF Exact, GetHighestBlockNumber, GetHighestBatchNumber, GetHighestClosedBatch

\* Reading leaves the file alone and caches the truth.
LEMMA ExactCaches ==
    ASSUME WellOrdered, NEW d, Exact(d)
    PROVE  /\ Exact(CacheBatch(d)) /\ CacheBatch(d).file = d.file
           /\ Exact(CacheClosed(d)) /\ CacheClosed(d).file = d.file
<1>1. d.file \in Seq(Entry) /\ HighestBatchInFile(d.file) \in Nat
        /\ HighestClosedInFile(d.file) \in Nat
  BY Zenon, HighestType DEF Exact
<1> QED
  BY Zenon, <1>1, ExactReads DEF Exact, CacheBatch, CacheClosed

\* Closing a batch appends one entry and caches its number.
LEMMA ExactEnd ==
    ASSUME WellOrdered, NEW d, Exact(d), NEW b \in Nat, NEW r \in Root
    PROVE  /\ Exact(WriteBatchEnd(d, b, r))
           /\ WriteBatchEnd(d, b, r).file = Append(d.file, BatchEnd(b, r))
<1>1. d.file \in Seq(Entry)
  BY Zenon DEF Exact
<1>2. BatchEnd(b, r) \in Entry /\ BatchEnd(b, r).type = "end" /\ BatchEnd(b, r).batch = b
  BY Zenon DEF BatchEnd, Entry
<1> HIDE DEF Entry
<1>3. LET f == Append(d.file, BatchEnd(b, r))
      IN  /\ f \in Seq(Entry)
          /\ HighestBlockInFile(f) = HighestBlockInFile(d.file)
          /\ HighestBatchInFile(f) = HighestBatchInFile(d.file)
          /\ HighestClosedInFile(f) = b
  BY Zenon, <1>1, <1>2, HighestOfAppend
<1> QED
  BY Zenon, <1>1, <1>3 DEF Exact, WriteBatchEnd

\* The steps that touch neither the chain nor the stream.
ThreadStep ==
    \/ StepAhead \/ Begin \/ UnwindSmt \/ UnwindSmtDb \/ UnwindFinish \/ Finish \/ StepNoAlign \/ Build
    \/ CommitSmt \/ Remove \/ Notify \/ NextBlock \/ EndBatch
    \/ StepFails \/ CommitSmtFails \/ UnwindFails

\* They keep every variable in its type.
LEMMA ThreadType == ASSUME SyncMode, SyncInv, ThreadStep PROVE TypeOK'
<1> USE DEF durable, process, SyncInv, TypeOK, Labels, UnwindLabels
<1>1. CASE Begin
  BY Zenon, <1>1 DEF Begin
<1>2. CASE UnwindSmt
  BY Zenon, <1>2 DEF UnwindSmt, UnwindPoint
<1>3. CASE UnwindSmtDb
  BY Zenon, <1>3 DEF UnwindSmtDb, Unwound, Smt, Root
<1>4. CASE UnwindFinish
  BY Zenon, <1>4 DEF UnwindFinish, UnwindPoint
<1>5. CASE Finish
  BY Zenon, <1>5, ChainType DEF Finish
<1>6. CASE StepNoAlign
  <2>1. blk' = [batch |-> LastBatch + 1, tx |-> Empty, root |-> {}]
    BY Zenon, <1>6 DEF StepNoAlign, NewBatch
  <2>2. LastBatch + 1 \in Nat /\ Empty \in Payload /\ {} \in Root
    BY ChainType DEF Root, Payload
  <2>3. blk' \in Block
    BY Zenon, <2>1, <2>2 DEF Block
  <2> QED
    BY Zenon, <1>6, <2>3 DEF StepNoAlign, SmtChecked
<1>7. CASE Build
  <2>1. PICK tx \in NextTx : blk' = [batch |-> Batch, tx |-> tx, root |-> RootWith(Height + 1, tx)]
    BY Zenon, <1>7 DEF Build
  <2>2. tx \in Payload
    BY Zenon, <2>1 DEF NextTx, Payload, Quiet
  <2>3. RootWith(Height + 1, tx) \in Root
    BY <2>2, ChainType DEF RootWith, Smt, Root
  <2>4. blk' \in Block
    BY Zenon, <2>1, <2>2, <2>3 DEF Block, Batch
  <2> QED
    BY Zenon, <1>7, <2>4 DEF Build, SyncMode
<1>8. CASE CommitSmt
  BY <1>8, ChainType DEF CommitSmt, Block
<1>9. CASE Remove
  BY Zenon, <1>9 DEF Remove
<1>10. CASE Notify
  BY Zenon, <1>10 DEF Notify
<1>11. CASE NextBlock
  BY Zenon, <1>11 DEF NextBlock, Quiet
<1>12. CASE EndBatch
  BY Zenon, <1>12 DEF EndBatch, SyncMode
<1>13. CASE StepFails
  BY <1>13 DEF StepFails, StepError
<1>14. CASE CommitSmtFails
  BY <1>14 DEF CommitSmtFails
<1>15. CASE UnwindFails
  BY <1>15 DEF UnwindFails
<1>16. CASE StepAhead
  BY Zenon, <1>16 DEF StepAhead
<1> QED
  BY Zenon, <1>1, <1>2, <1>3, <1>4, <1>5, <1>6, <1>7, <1>8, <1>9, <1>10, <1>11, <1>12, <1>13, <1>14, <1>15, <1>16 DEF ThreadStep

\* They do nothing of the async mode.
LEMMA ThreadQuiet == ASSUME SyncMode, SyncInv, ThreadStep PROVE Quiet'
<1> USE DEF durable, process, SyncInv, Quiet
<1>1. CASE Begin
  BY Zenon, <1>1 DEF Begin
<1>2. CASE UnwindSmt
  BY Zenon, <1>2 DEF UnwindSmt
<1>3. CASE UnwindSmtDb
  BY Zenon, <1>3 DEF UnwindSmtDb
<1>4. CASE UnwindFinish
  BY Zenon, <1>4 DEF UnwindFinish
<1>5. CASE Finish
  BY Zenon, <1>5 DEF Finish
<1>6. CASE StepNoAlign
  BY Zenon, <1>6 DEF StepNoAlign, SmtChecked
<1>7. CASE Build
  BY Zenon, <1>7 DEF Build, SyncMode
<1>8. CASE CommitSmt
  BY Zenon, <1>8 DEF CommitSmt
<1>9. CASE Remove
  BY Zenon, <1>9 DEF Remove
<1>10. CASE Notify
  BY Zenon, <1>10 DEF Notify
<1>11. CASE NextBlock
  BY Zenon, <1>11 DEF NextBlock
<1>12. CASE EndBatch
  BY Zenon, <1>12 DEF EndBatch, SyncMode
<1>13. CASE StepFails
  BY Zenon, <1>13 DEF StepFails, StepError
<1>14. CASE CommitSmtFails
  BY Zenon, <1>14 DEF CommitSmtFails
<1>15. CASE UnwindFails
  BY Zenon, <1>15 DEF UnwindFails
<1>16. CASE StepAhead
  BY Zenon, <1>16 DEF StepAhead
<1> QED
  BY Zenon, <1>1, <1>2, <1>3, <1>4, <1>5, <1>6, <1>7, <1>8, <1>9, <1>10, <1>11, <1>12, <1>13, <1>14, <1>15, <1>16 DEF ThreadStep

\* They leave the chain, the stream and its readers alone, outside the
\* injected batch's window.
LEMMA ThreadFrame ==
    ASSUME SyncMode, SyncInv, ThreadStep
    PROVE  pc # "injectCommit" /\ pc' # "injectCommit" /\ UNCHANGED <<chain, ds, published>>
<1> USE DEF durable, process
<1>1. CASE Begin
  BY Zenon, <1>1 DEF Begin
<1>2. CASE UnwindSmt
  BY Zenon, <1>2 DEF UnwindSmt
<1>3. CASE UnwindSmtDb
  BY Zenon, <1>3 DEF UnwindSmtDb
<1>4. CASE UnwindFinish
  BY Zenon, <1>4 DEF UnwindFinish
<1>5. CASE Finish
  BY Zenon, <1>5 DEF Finish
<1>6. CASE StepNoAlign
  BY Zenon, <1>6 DEF StepNoAlign, StepReady
<1>7. CASE Build
  BY Zenon, <1>7 DEF Build
<1>8. CASE CommitSmt
  BY Zenon, <1>8 DEF CommitSmt
<1>9. CASE Remove
  BY Zenon, <1>9 DEF Remove
<1>10. CASE Notify
  BY Zenon, <1>10 DEF Notify
<1>11. CASE NextBlock
  BY Zenon, <1>11 DEF NextBlock
<1>12. CASE EndBatch
  BY Zenon, <1>12 DEF EndBatch
<1>13. CASE StepFails
  BY Zenon, <1>13 DEF StepFails, StepError, SyncMode
<1>14. CASE CommitSmtFails
  BY Zenon, <1>14 DEF CommitSmtFails
<1>15. CASE UnwindFails
  BY Zenon, <1>15 DEF UnwindFails, UnwindLabels
<1>16. CASE StepAhead
  BY Zenon, <1>16 DEF StepAhead
<1> QED
  BY Zenon, <1>1, <1>2, <1>3, <1>4, <1>5, <1>6, <1>7, <1>8, <1>9, <1>10, <1>11, <1>12, <1>13, <1>14, <1>15, <1>16 DEF ThreadStep

\* They move the thread along without breaking the distances.
LEMMA ThreadControl ==
    ASSUME SyncMode, SyncInv, ThreadStep PROVE Distance' /\ UnwindPoint' /\ InHand'
<1>a. UNCHANGED <<chain, ds>> /\ pc # "injectCommit" /\ pc' # "injectCommit"
  BY Zenon, ThreadFrame
<1>b. Top' = Top /\ Height' = Height /\ LastBatch' = LastBatch /\ LastEntry' = LastEntry
  BY Zenon, <1>a DEF Top, Height, LastBatch, LastEntry
<1>c. TypeOK /\ Quiet /\ Distance /\ UnwindPoint /\ InHand
  BY Zenon, <1>a DEF SyncInv
<1> USE <1>a, <1>b, <1>c DEF durable, process, Distance, UnwindPoint, InHand, UnwindLabels
<1>1. CASE Begin
  BY Zenon, <1>1 DEF Begin
<1>2. CASE UnwindSmt
  BY Zenon, <1>2 DEF UnwindSmt
<1>3. CASE UnwindSmtDb
  BY Zenon, <1>3 DEF UnwindSmtDb
<1>4. CASE UnwindFinish
  BY Zenon, <1>4 DEF UnwindFinish
<1>5. CASE Finish
  BY Zenon, <1>5 DEF Finish
<1>6. CASE StepNoAlign
  BY <1>6, ChainType DEF StepNoAlign, StepReady, NewBatch, Quiet
<1>7. CASE Build
  <2>1. /\ pc = "build" /\ pc' = "commit" /\ blk'.batch = blk.batch
        /\ UNCHANGED <<smtDb, checkDs, unwindTo>>
    <3> HIDE <1>b, <1>c DEF Distance, UnwindPoint, InHand
    <3> QED
      BY <1>7 DEF Build, Batch
  <2>2. Distance' /\ UnwindPoint'
    BY Zenon, <2>1
  <2> QED
    BY Zenon, <2>1, <2>2
<1>8. CASE CommitSmt
  <2>1. /\ \/ pc = "commitSmt" /\ pc' = "remove"
           \/ pc = "injectSmt" /\ pc' = "injected"
        /\ smtDb'.height = Height /\ UNCHANGED <<blk, checkDs, unwindTo>>
    <3> HIDE <1>b, <1>c DEF Distance, UnwindPoint, InHand
    <3> QED
      BY Zenon, <1>8 DEF CommitSmt
  <2>2. Height \in Nat
    BY Zenon, ChainType
  <2>3. Distance'
    BY <2>1, <2>2
  <2> QED
    BY Zenon, <2>1, <2>3
<1>9. CASE Remove
  BY Zenon, <1>9 DEF Remove
<1>10. CASE Notify
  BY Zenon, <1>10 DEF Notify
<1>11. CASE NextBlock
  <2>1. pc = "more" /\ pc' = "build" /\ UNCHANGED <<smtDb, blk, checkDs, unwindTo>>
    <3> HIDE <1>b, <1>c DEF Distance, UnwindPoint, InHand
    <3> QED
      BY Zenon, <1>11 DEF NextBlock
  <2>2. blk.batch = LastBatch /\ Height > 0 /\ LastEntry.type # "end"
    BY <2>1 DEF LastBatch
  <2>3. Distance' /\ UnwindPoint'
    BY Zenon, <2>1
  <2> QED
    BY Zenon, <2>1, <2>2, <2>3
<1>12. CASE EndBatch
  BY Zenon, <1>12 DEF EndBatch
<1>13. CASE StepFails
  <2>1. pc' = "begin" /\ checkDs' /\ unwindTo' = unwindTo /\ smtDb' = smtDb
    <3> HIDE <1>a, <1>b, <1>c DEF Distance, UnwindPoint, InHand
    <3>1. ~ErrorPanics
      BY Zenon DEF ErrorPanics, SyncMode
    <3> QED
      BY <1>13, <3>1, Zenon DEF StepFails, StepError
  <2>2. pc # "injectSmt"
    BY Zenon, <1>13 DEF StepFails, SyncMode
  <2>3. Distance'
    BY Zenon, <2>1, <2>2
  <2> QED
    BY Zenon, <2>1, <2>3
<1>14. CASE CommitSmtFails
  BY Zenon, <1>14 DEF CommitSmtFails
<1>15. CASE UnwindFails
  BY Zenon, <1>15 DEF UnwindFails
<1>16. CASE StepAhead
  BY Zenon, <1>16 DEF StepAhead
<1> QED
  BY Zenon, <1>1, <1>2, <1>3, <1>4, <1>5, <1>6, <1>7, <1>8, <1>9, <1>10, <1>11, <1>12, <1>13, <1>14, <1>15, <1>16 DEF ThreadStep

-----------------------------------------------------------------------------
\* A file that is left alone only grows.
LEMMA SameFileGrows ==
    ASSUME TypeOK, ds'.file = ds.file PROVE StreamGrows
<1>1. ds.file \in Seq(Entry)
  BY Zenon DEF TypeOK
<1> QED
  BY <1>1, WholePrefix DEF StreamGrows

\* ... and so does one that gets more entries.
LEMMA AppendedGrows ==
    ASSUME TypeOK, NEW g \in Seq(Entry), Len(g) > Len(ds.file),
           \A i \in 1 .. Len(ds.file) : g[i] = ds.file[i], ds'.file = g
    PROVE  StreamGrows
<1>1. ds.file \in Seq(Entry) /\ Len(ds.file) \in Nat /\ Len(g) \in Nat
  BY DEF TypeOK
<1>2. \A i \in 1 .. Len(ds.file) : g[i] \in Entry
  BY <1>1
<1>3. /\ SubSeq(g, 1, Len(ds.file)) \in Seq(Entry)
      /\ Len(SubSeq(g, 1, Len(ds.file))) = Len(ds.file)
      /\ \A i \in 1 .. Len(ds.file) : SubSeq(g, 1, Len(ds.file))[i] = g[i]
  BY <1>1, <1>2, PrefixFacts
<1>4. SubSeq(g, 1, Len(ds.file)) = ds.file
  BY <1>1, <1>3, SameEntries
<1> QED
  BY <1>1, <1>4 DEF StreamGrows

\* Together: the invariant is kept and the stream is left alone.
LEMMA ThreadInv == ASSUME SyncMode, SyncInv, ThreadStep PROVE SyncInv' /\ StreamGrows
BY Zenon, ThreadType, ThreadQuiet, ThreadFrame, ThreadControl, StoredFrame, SameFileGrows DEF SyncInv

\* The server's caches may change; the file, the chain and the readers do not.
LEMMA StoredSameFile ==
    ASSUME Stored, pc # "injectCommit", UNCHANGED <<chain, published>>,
           ds'.file = ds.file, Exact(ds)'
    PROVE  Stored'
<1>1. Top' = Top /\ Open' = Open /\ Closed' = Closed /\ LastEntry' = LastEntry /\ Height' = Height
  BY Zenon DEF Top, Open, Closed, LastEntry, Height
<1>2. StreamEnd' /\ BatchesGrow'
  BY Zenon, <1>1 DEF Stored, StreamEnd, BatchesGrow
<1>3. StreamWellFormed' /\ BatchEndRoot'
  BY Zenon DEF Stored, StreamWellFormed, BatchEndRoot
<1>4. StreamMatchesChain' /\ PublishedOnChain'
  BY Zenon, <1>1 DEF Stored, StreamMatchesChain, PublishedOnChain
<1> QED
  BY Zenon, <1>1, <1>2, <1>3, <1>4 DEF Stored

\* Ending the open batch with the root of its last block.
LEMMA StoredEnd ==
    ASSUME WellOrdered, TypeOK, Stored, pc # "injectCommit", Height >= Top, Top > 0,
           LastEntry.type # "end", UNCHANGED <<chain, published>>, Exact(ds)',
           ds'.file = Append(ds.file, BatchEnd(Open, chain[Top].root))
    PROVE  Stored' /\ LastEntry'.type = "end" /\ Top' = Top /\ StreamGrows
<1> DEFINE e == BatchEnd(Open, chain[Top].root)
           f == ds.file
           g == Append(f, e)
           L == Len(f)
<1>1. f \in Seq(Entry) /\ Top \in Nat /\ Open \in Nat /\ chain[Top] \in Block
        /\ Len(f) \in Nat /\ Len(f) > 0
  <2>1. f \in Seq(Entry) /\ f # <<>>
    BY Zenon DEF TypeOK, Stored, StreamEnd
  <2>2. Top \in Nat /\ Open \in Nat
    BY Zenon, <2>1, HighestType DEF Top, Open
  <2>3. chain[Top] \in Block
    BY <2>2, ChainType
  <2> QED
    BY <2>1, <2>2, <2>3
<1>2. e \in Entry /\ e.type = "end" /\ e.batch = Open /\ e.root = chain[Top].root
  BY Zenon, <1>1 DEF BatchEnd, Entry, Block
<1>0. ds'.file = g
  OBVIOUS
<1> HIDE DEF e
<1>3. g \in Seq(Entry) /\ Len(g) = L + 1 /\ g[L + 1] = e /\ \A i \in 1 .. L : g[i] = f[i]
  BY <1>1, <1>2, AppendFacts
<1>4. Top' = Top /\ Open' = Open /\ Closed' = Open
  BY Zenon, <1>0, <1>1, <1>2, HighestOfAppend DEF Top, Open, Closed
<1>5. LastEntry' = e /\ ds'.file = g
  BY Zenon, <1>0, <1>3 DEF LastEntry
<1> HIDE DEF g
<1>6. LastEntry.batch = Open /\ LastEntry.type = "block" /\ LastEntry.root = chain[Top].root
        /\ LastEntry = f[L]
  BY Zenon DEF Stored, StreamEnd, LastEntry
<1>7. StreamEnd' /\ BatchesGrow'
  BY <1>1, <1>2, <1>3, <1>4, <1>5 DEF Stored, StreamEnd, BatchesGrow, Height
<1>8. StreamWellFormed'
  <2>1. WellFormed(f)
    BY Zenon DEF Stored, StreamWellFormed
  <2> QED
    BY Zenon, <2>1, <1>1, <1>2, <1>5, <1>6, WellFormedAppend DEF StreamWellFormed, g
<1>9. BatchEndRoot'
  <2> SUFFICES ASSUME NEW i \in 1 .. (L + 1), g[i].type = "end" PROVE g[i].root = g[i - 1].root
    BY Zenon, <1>3, <1>5 DEF BatchEndRoot
  <2>1. CASE i = L + 1
    BY <2>1, <1>1, <1>2, <1>3, <1>6
  <2>2. CASE i \in 1 .. L
    <3>1. WellFormed(f) /\ BatchEndRoot /\ f[i].type = "end"
      BY Zenon, <2>2, <1>3 DEF Stored, StreamWellFormed
    <3>2. i - 1 \in 1 .. L
      BY <1>1, <2>2, <3>1 DEF WellFormed
    <3>3. f[i].root = f[i - 1].root
      BY Zenon, <2>2, <3>1 DEF BatchEndRoot
    <3> QED
      BY Zenon, <1>3, <2>2, <3>2, <3>3
  <2> QED
    BY <1>1, <2>1, <2>2
<1>10. StreamMatchesChain'
  <2>1. ASSUME NEW i \in 1 .. Len(g), g[i].type = "block" PROVE i \in 1 .. L /\ g[i] = f[i]
    <3>1. i # L + 1
      BY Zenon, <1>2, <1>3, <2>1
    <3>2. i \in 1 .. L
      BY <1>1, <1>3, <3>1
    <3> QED
      BY Zenon, <1>3, <3>2
  <2>2. \A i \in 1 .. L : i \in 1 .. Len(g) /\ g[i] = f[i]
    BY <1>1, <1>3
  <2> QED
    BY Zenon, <2>1, <2>2, <1>4, <1>5 DEF Stored, StreamMatchesChain, Height, Top
<1>11. PublishedOnChain' /\ \A p \in published' : p[1] <= Top'
  BY Zenon, <1>4 DEF Stored, PublishedOnChain, Height
<1>12. StreamGrows
  BY <1>1, <1>3, <1>5, AppendedGrows
<1> QED
  BY Zenon, <1>2, <1>4, <1>5, <1>7, <1>8, <1>9, <1>10, <1>11, <1>12 DEF Stored

\* The last block of the stream has the highest number in it.
LEMMA NumAtMostTop ==
    ASSUME WellOrdered, TypeOK, Stored, pc # "injectCommit", NEW i \in 1 .. Len(ds.file),
           ds.file[i].type = "block"
    PROVE  ds.file[i].num \in 1 .. Top
<1> DEFINE f == ds.file
           k == LastOfType(f, "block")
<1>1. f \in Seq(Entry) /\ Height \in Nat
  BY Zenon, ChainType DEF TypeOK
<1>2. IsLast(f, "block", k)
  BY Zenon, <1>1, LastExists
<1>3. k \in 1 .. Len(f) /\ i <= k /\ f[k].type = "block" /\ Top = f[k].num
  BY <1>1, <1>2 DEF IsLast, Top, HighestBlockInFile
<1> HIDE DEF k
<1>4. f[i].num \in 1 .. Height /\ f[k].num \in 1 .. Height /\ (i < k => f[i].num < f[k].num)
  BY Zenon, <1>3 DEF Stored, StreamMatchesChain
<1> QED
  BY <1>1, <1>3, <1>4

-----------------------------------------------------------------------------
(* A start, a restart, both alignments, the batch end, the unwind of the execution *)
(* stage and the chain commit.                                                     *)

\* The stage starts: without batches to resequence it only reads the stream.
LEMMA SpawnInv == ASSUME WellOrdered, SyncMode, SyncInv, Spawn PROVE SyncInv' /\ StreamGrows
<1> USE DEF durable
<1>1. pc = "spawn" /\ pc' \in {"begin", "step"} /\ ds' = CacheBatch(ds)
        /\ UNCHANGED <<chain, hashed, finish, smtDb, poolDb, blk, longLived, queue, pushed,
                       smtState, checkDs, unwindTo, job, reseqFlag, pool, deleted, acc,
                       faults, published>>
  BY Zenon DEF SyncInv, Quiet, Spawn
<1>2. Exact(ds)' /\ ds'.file = ds.file
  BY Zenon, <1>1, ExactCaches DEF SyncInv, Stored, Exact
<1>3. TypeOK' /\ Quiet'
  BY Zenon, <1>1, <1>2 DEF SyncInv, TypeOK, Quiet, Exact, Labels
<1>4. Stored'
  BY Zenon, <1>1, <1>2, StoredSameFile DEF SyncInv
<1>5. Distance' /\ UnwindPoint' /\ InHand'
  BY Zenon, <1>1, <1>2 DEF SyncInv, Distance, UnwindPoint, InHand, Top, Height, UnwindLabels
<1>6. StreamGrows
  BY Zenon, <1>2, SameFileGrows DEF SyncInv
<1> QED
  BY Zenon, <1>6, <1>1, <1>3, <1>4, <1>5 DEF SyncInv

\* A process that dies loses what it had in memory and nothing else.
LEMMA RestartInv ==
    ASSUME SyncMode, SyncInv, pc # "injectCommit", pc # "injectSmt", Restart,
           faults' \in Nat
    PROVE  SyncInv' /\ StreamGrows
<1> USE DEF durable
<1>1. ds' = Opened(ds.file) /\ Exact(ds)' /\ ds'.file = ds.file
  <2>1. ds.file \in Seq(Entry)
    BY Zenon DEF SyncInv, TypeOK
  <2> QED
    BY Zenon, <2>1 DEF Restart, Opened, Exact, Nil
<1>2. NoBlock \in Block
  BY Zenon DEF NoBlock, Block, Root, Payload
<1>3. {} \in Root /\ <<>> \in Seq([delta : Root, height : Nat]) /\ <<>> \in Seq(Seq(Entry))
  BY DEF Root
<1>4. TypeOK'
  BY Zenon, <1>1, <1>2, <1>3 DEF SyncInv, TypeOK, Restart, SyncMode, Labels, Exact
<1>5. Quiet'
  BY Zenon DEF Restart, Quiet, SyncMode
<1>6. Stored'
  BY Zenon, <1>1, StoredSameFile DEF SyncInv, Restart
<1>7. Distance' /\ UnwindPoint' /\ InHand'
  BY Zenon, <1>1 DEF SyncInv, Restart, Distance, UnwindPoint, InHand, Top, Height, UnwindLabels
<1>8. StreamGrows
  BY Zenon, <1>1, SameFileGrows DEF SyncInv
<1> QED
  BY Zenon, <1>8, <1>4, <1>5, <1>6, <1>7 DEF SyncInv, Restart

\* The alignment closes the batch the stream left open, and asks for the block
\* the stream lacks to be unwound.
LEMMA StepAlignInv == ASSUME WellOrdered, SyncMode, SyncInv, StepAlign PROVE SyncInv' /\ StreamGrows /\ Top' = Top
<1> USE DEF durable
<1> DEFINE d == CacheClosed(CacheBatch(ds))
<1>1. pc = "step" /\ Height > 0 /\ Stored /\ Distance /\ TypeOK
  BY Zenon DEF SyncInv, StepAlign, StepReady
<1>2. Exact(d) /\ d.file = ds.file
  <2>1. Exact(ds)
    BY Zenon, <1>1 DEF Stored
  <2>2. Exact(CacheBatch(ds)) /\ CacheBatch(ds).file = ds.file
    BY Zenon, <2>1, ExactCaches
  <2> QED
    BY Zenon, <2>2, ExactCaches
<1>3. /\ GetHighestBlockNumber(d) = Top
      /\ GetHighestBatchNumber(d) = Open
      /\ GetHighestClosedBatch(d) = Closed
  BY Zenon, <1>2, ExactReads DEF Top, Open, Closed
<1>4. IsLastEntryBatchEnd(d) <=> LastEntry.type = "end"
  BY Zenon, <1>1, <1>2 DEF IsLastEntryBatchEnd, LastEntry, Stored, StreamEnd, Distance
<1>5. Top \in Nat /\ Open \in Nat /\ Top > 0 /\ Top <= Height /\ chain[Top] \in Block
        /\ chain[Top].root \in Root
  <2>1. Top \in Nat /\ Open \in Nat /\ Height \in Nat
    BY Zenon, <1>1, HighestType, ChainType DEF TypeOK, Top, Open
  <2>2. Top > 0 /\ Top <= Height
    BY <1>1, <2>1 DEF Distance
  <2>3. chain[Top] \in Block
    BY <1>1, <2>1, <2>2, ChainType
  <2> QED
    BY Zenon, <2>1, <2>2, <2>3 DEF Block
<1>6. /\ ds' = IF Open # Closed /\ LastEntry.type # "end"
                THEN WriteBatchEnd(d, Open, chain[Top].root) ELSE d
      /\ checkDs' = (Height > Top)
      /\ unwindTo' = IF Height > Top THEN Top ELSE Nil
      /\ pc' = IF Height > Top THEN "unwindSmt" ELSE "build"
      /\ blk' = [batch |-> LastBatch + 1, tx |-> Empty, root |-> {}]
      /\ smtState' \in {smtState, "terminated"}
      /\ UNCHANGED <<durable, longLived, queue, pushed, job, reseqFlag, pool, deleted,
                     acc, faults, published>>
  BY Zenon, <1>3, <1>4 DEF StepAlign, ExecutionAhead, AlignPoint, SmtChecked, NewBatch
<1> HIDE DEF d
<1>7. Stored' /\ Exact(ds)' /\ Top' = Top /\ StreamGrows
  <2>1. CASE Open # Closed /\ LastEntry.type # "end"
    <3>1. ds' = WriteBatchEnd(d, Open, chain[Top].root)
      BY Zenon, <1>6, <2>1
    <3>2. Exact(ds)' /\ ds'.file = Append(ds.file, BatchEnd(Open, chain[Top].root))
      <4>1. /\ Exact(WriteBatchEnd(d, Open, chain[Top].root))
            /\ WriteBatchEnd(d, Open, chain[Top].root).file
                 = Append(d.file, BatchEnd(Open, chain[Top].root))
        <5> DEFINE root == chain[Top].root
        <5>1. root \in Root
          BY Zenon, <1>5
        <5> HIDE DEF root
        <5>2. /\ Exact(WriteBatchEnd(d, Open, root))
              /\ WriteBatchEnd(d, Open, root).file = Append(d.file, BatchEnd(Open, root))
          BY Zenon, <1>2, <1>5, <5>1, ExactEnd
        <5> QED
          BY Zenon, <5>2 DEF root
      <4> QED
        BY Zenon, <1>2, <3>1, <4>1 DEF Exact
    <3> QED
      BY Zenon, <1>1, <1>5, <1>6, <2>1, <3>2, StoredEnd
  <2>2. CASE ~ (Open # Closed /\ LastEntry.type # "end")
    <3>1. ds' = d
      BY Zenon, <1>6, <2>2
    <3>2. Exact(ds)' /\ ds'.file = ds.file
      BY Zenon, <1>2, <3>1 DEF Exact
    <3> QED
      BY Zenon, <1>1, <1>6, <3>2, StoredSameFile, SameFileGrows DEF Top
  <2> QED
    BY Zenon, <2>1, <2>2
<1>8. blk' \in Block
  BY <1>1, <1>6, ChainType DEF Block, Root, Payload
<1>9. TypeOK' /\ Quiet'
  BY <1>1, <1>5, <1>6, <1>7, <1>8 DEF TypeOK, Quiet, SyncInv, Exact, Labels, UnwindLabels
<1>10. Distance' /\ UnwindPoint'
  <2>1. Height' = Height /\ smtDb' = smtDb /\ Height \in Nat
    BY Zenon, <1>1, <1>6, ChainType DEF Height
  <2>2. Distance'
    BY <1>1, <1>5, <1>6, <1>7, <2>1 DEF Distance
  <2>3. UnwindPoint'
    <3>1. CASE Height > Top
      <4>1. unwindTo' = Top' /\ Top # Nil /\ pc' = "unwindSmt"
        BY <1>5, <1>6, <1>7, <3>1 DEF Nil
      <4>2. checkDs'
        BY <1>6, <3>1, Zenon
      <4> QED
        BY Zenon, <1>7, <4>1, <4>2 DEF UnwindPoint, UnwindLabels
    <3>2. CASE ~ (Height > Top)
      BY Zenon, <1>6, <3>2 DEF UnwindPoint, UnwindLabels
    <3> QED
      BY Zenon, <3>1, <3>2
  <2> QED
    BY Zenon, <2>2, <2>3
<1>11. InHand'
  BY <1>1, <1>6, ChainType DEF InHand, Height, LastBatch
<1> QED
  BY Zenon, <1>6, <1>7, <1>9, <1>10, <1>11 DEF SyncInv

\* The batch of the block in hand starts with it if it is not the batch before.
LEMMA FirstIsHeight ==
    ASSUME TypeOK, BatchesGrow, Height > 1, blk = chain[Height],
           blk.batch = chain[Height - 1].batch + 1
    PROVE  FirstOfBatch = Height
<1>1. Height \in Nat /\ \A n \in 1 .. Height : chain[n].batch \in Nat
  BY Zenon, ChainType
<1>2. \A n \in 1 .. (Height - 1) : chain[n].batch <= chain[Height - 1].batch
  BY <1>1 DEF BatchesGrow
<1>3. \A n \in 1 .. (Height - 1) : chain[n].batch # Batch
  BY <1>1, <1>2 DEF Batch
<1>4. \A n \in 1 .. Height :
        chain[n].batch = Batch /\ (\A m \in 1 .. (n - 1) : chain[m].batch # Batch) <=> n = Height
  BY <1>1, <1>3 DEF Batch
<1> QED
  BY <1>1, <1>4 DEF FirstOfBatch

\* A block that starts a batch ends the one before it, once.
LEMMA CloseInv == ASSUME WellOrdered, SyncMode, SyncInv, Close PROVE SyncInv' /\ StreamGrows /\ Top' = Top
<1> USE DEF durable, process
<1> DEFINE d == CacheBatch(CacheClosed(ds))
<1>1. /\ pc = "close" /\ pc' = "publish" /\ Stored /\ Distance /\ TypeOK
      /\ Height = Top + 1 /\ Height > 1 /\ blk = chain[Height]
      /\ blk.batch \in {chain[Height - 1].batch, chain[Height - 1].batch + 1}
      /\ blk.batch = chain[Height - 1].batch => LastEntry.type # "end"
  BY Zenon DEF SyncInv, Close, Distance, InHand
<1>2. Exact(d) /\ d.file = ds.file
  <2>1. Exact(ds)
    BY Zenon, <1>1 DEF Stored
  <2>2. Exact(CacheClosed(ds)) /\ CacheClosed(ds).file = ds.file
    BY Zenon, <2>1, ExactCaches
  <2> QED
    BY Zenon, <2>2, ExactCaches
<1>3. GetHighestBatchNumber(d) = Open /\ GetHighestClosedBatch(d) = Closed
  BY Zenon, <1>2, ExactReads DEF Open, Closed
<1>4. /\ Top \in Nat /\ Top > 0 /\ Open \in Nat /\ Height \in Nat
      /\ Height - 1 = Top /\ chain[Top] \in Block /\ chain[Top].batch \in Nat
  <2>1. ds.file \in Seq(Entry)
    BY Zenon, <1>1 DEF TypeOK
  <2>2. Top \in Nat /\ Open \in Nat
    BY Zenon, <2>1, HighestType DEF Top, Open
  <2>3. Height \in Nat /\ \A n \in 1 .. Height : chain[n] \in Block /\ chain[n].batch \in Nat
    BY Zenon, <1>1, ChainType
  <2>4. Top > 0 /\ Height - 1 = Top /\ Top \in 1 .. Height
    BY <1>1, <2>2, <2>3
  <2> QED
    BY Zenon, <2>2, <2>3, <2>4
<1>5. /\ Open = chain[Top].batch
      /\ LastEntry.type = "end" <=> Closed = Open
  BY Zenon, <1>1, <1>4 DEF Stored, StreamEnd
<1>6. MustClose(d) <=> blk.batch = Open + 1 /\ LastEntry.type # "end"
  BY <1>1, <1>3, <1>4, <1>5 DEF MustClose, Batch
<1>7. /\ ds' = IF MustClose(d) THEN WriteBatchEnd(d, Open, ClosingRoot) ELSE d
      /\ UNCHANGED <<chain, hashed, finish, smtDb, poolDb, process, faults, published>>
  BY Zenon, <1>3 DEF Close
<1> HIDE DEF d
<1>8. /\ Stored' /\ Exact(ds)' /\ Top' = Top /\ StreamGrows
      /\ LastEntry'.type = "end" <=> blk.batch = Open + 1
  <2>1. CASE MustClose(d)
    <3> DEFINE root == chain[Top].root
    <3>1. ClosingRoot = root /\ root \in Root
      BY Zenon, <1>1, <1>4, <1>5, <1>6, <2>1, FirstIsHeight DEF ClosingRoot, Stored, Block
    <3>2. ds' = WriteBatchEnd(d, Open, root)
      BY Zenon, <1>7, <2>1, <3>1
    <3> HIDE DEF root
    <3>3. /\ Exact(WriteBatchEnd(d, Open, root))
          /\ WriteBatchEnd(d, Open, root).file = Append(d.file, BatchEnd(Open, root))
      BY Zenon, <1>2, <1>4, <3>1, ExactEnd
    <3>4. Exact(ds)' /\ ds'.file = Append(ds.file, BatchEnd(Open, root))
      BY Zenon, <1>2, <3>2, <3>3 DEF Exact
    <3>5. Stored' /\ LastEntry'.type = "end" /\ Top' = Top /\ StreamGrows
      BY <1>1, <1>4, <1>6, <1>7, <2>1, <3>4, StoredEnd DEF root
    <3> QED
      BY Zenon, <1>6, <2>1, <3>4, <3>5
  <2>2. CASE ~ MustClose(d)
    <3>1. Exact(ds)' /\ ds'.file = ds.file
      BY Zenon, <1>2, <1>7, <2>2 DEF Exact
    <3>2. Stored' /\ Top' = Top /\ LastEntry' = LastEntry /\ StreamGrows
      BY Zenon, <1>1, <1>7, <3>1, StoredSameFile, SameFileGrows DEF Top, LastEntry
    <3> QED
      BY Zenon, <1>1, <1>4, <1>5, <1>6, <2>2, <3>1, <3>2
  <2> QED
    BY Zenon, <2>1, <2>2
<1>9. TypeOK' /\ Quiet'
  BY Zenon, <1>1, <1>7, <1>8 DEF TypeOK, Quiet, SyncInv, Exact, Labels
<1>10. Distance' /\ UnwindPoint'
  BY Zenon, <1>1, <1>7, <1>8 DEF SyncInv, Distance, UnwindPoint, Height, UnwindLabels
<1>11. InHand'
  <2>1. Height' = Height /\ blk' = blk /\ chain' = chain
    BY Zenon, <1>7 DEF Height
  <2> QED
    BY <1>1, <1>4, <1>5, <1>8, <2>1 DEF InHand
<1> QED
  BY Zenon, <1>1, <1>8, <1>9, <1>10, <1>11 DEF SyncInv

\* Unwinding the execution drops the blocks the stream does not have.
LEMMA UnwindExecInv == ASSUME WellOrdered, SyncMode, SyncInv, UnwindExec PROVE SyncInv' /\ StreamGrows
<1>1. /\ pc = "unwindExec" /\ pc' = "unwindFinish" /\ Stored /\ Distance /\ TypeOK
      /\ unwindTo = Top /\ checkDs /\ chain' = SubSeq(chain, 1, Top)
      /\ UNCHANGED <<hashed, finish, smtDb, poolDb, ds, blk, longLived, queue, pushed,
                     smtState, checkDs, unwindTo, job, reseqFlag, pool, deleted,
                     faults, published>>
  BY Zenon DEF SyncInv, UnwindExec, UnwindPoint, UnwindLabels
<1>2. Top \in Nat /\ Height \in Nat /\ Top <= Height /\ chain \in Seq(Block) /\ Height = Len(chain)
  BY <1>1, HighestType, ChainType DEF TypeOK, Top, Distance, Height
<1>3. /\ chain' \in Seq(Block) /\ Height' = Top
      /\ \A n \in 1 .. Top : chain'[n] = chain[n]
  BY <1>1, <1>2, PrefixFacts DEF Height
<1>4. acc' \subseteq Txs
  BY Zenon, <1>1 DEF UnwindExec, UnwoundTxs, TypeOK
<1>5. TypeOK' /\ Quiet'
  BY Zenon, <1>1, <1>3, <1>4 DEF SyncInv, TypeOK, Quiet, Labels, UnwindLabels
<1>6. Top' = Top /\ Open' = Open /\ Closed' = Closed /\ LastEntry' = LastEntry /\ ds' = ds
  BY Zenon, <1>1 DEF Top, Open, Closed, LastEntry
<1>7. Exact(ds)' /\ StreamEnd' /\ BatchesGrow' /\ StreamWellFormed' /\ BatchEndRoot'
  <2>1. Exact(ds)' /\ StreamWellFormed' /\ BatchEndRoot'
    BY Zenon, <1>1, <1>6 DEF Stored, Exact, StreamWellFormed, BatchEndRoot
  <2>2. StreamEnd'
    BY <1>1, <1>2, <1>3, <1>6 DEF Stored, StreamEnd
  <2>3. BatchesGrow'
    BY <1>1, <1>2, <1>3 DEF Stored, BatchesGrow
  <2> QED
    BY Zenon, <2>1, <2>2, <2>3
<1>8. StreamMatchesChain'
  <2>1. \A i \in 1 .. Len(ds.file) :
          ds.file[i].type = "block" => /\ ds.file[i].num \in 1 .. Top
                                       /\ ds.file[i].num \in 1 .. Height
    <3> SUFFICES ASSUME NEW i \in 1 .. Len(ds.file), ds.file[i].type = "block"
                 PROVE  ds.file[i].num \in 1 .. Top /\ ds.file[i].num \in 1 .. Height
      OBVIOUS
    <3>1. pc # "injectCommit"
      BY Zenon, <1>1
    <3>2. ds.file[i].num \in 1 .. Top
      BY Zenon, <1>1, <3>1, NumAtMostTop
    <3> QED
      BY <1>2, <3>2
  <2> QED
    BY Zenon, <1>1, <1>2, <1>3, <1>6, <2>1 DEF Stored, StreamMatchesChain, Top
<1>9. PublishedOnChain' /\ \A q \in published' : q[1] <= Top'
  BY <1>1, <1>2, <1>3, <1>6 DEF Stored, PublishedOnChain
<1>10. Distance' /\ UnwindPoint' /\ InHand'
  BY <1>1, <1>2, <1>3, <1>6 DEF SyncInv, Distance, UnwindPoint, InHand, UnwindLabels
<1>11. StreamGrows
  BY Zenon, <1>1, <1>6, SameFileGrows DEF SyncInv
<1> QED
  BY Zenon, <1>11, <1>1, <1>5, <1>7, <1>8, <1>9, <1>10 DEF SyncInv, Stored

\* A block is committed to the chain when the chain is level with the stream.
LEMMA CommitInv == ASSUME WellOrdered, SyncMode, SyncInv, Commit, pc = "commit" PROVE SyncInv' /\ StreamGrows
<1> USE DEF process
<1>1. /\ pc' = "commitSmt" /\ Stored /\ Distance /\ InHand /\ TypeOK
      /\ chain' = Append(chain, blk) /\ hashed' = Height + 1
      /\ UNCHANGED <<finish, smtDb, poolDb, ds, process, faults, published>>
  BY Zenon DEF SyncInv, Commit, SyncMode
<1>2. Top \in Nat /\ Height \in Nat /\ Height = Top /\ Height > 0
        /\ chain \in Seq(Block) /\ blk \in Block /\ Height = Len(chain)
  BY Zenon, <1>1, HighestType, ChainType DEF TypeOK, Top, Distance, InHand, Height
<1>3. /\ chain' \in Seq(Block) /\ Height' = Height + 1 /\ chain'[Height + 1] = blk
      /\ \A n \in 1 .. Height : chain'[n] = chain[n]
  BY <1>1, <1>2, AppendFacts DEF Height
<1>4. TypeOK' /\ Quiet'
  <2>1. hashed' \in Nat /\ pc' \in Labels
    BY <1>1, <1>2 DEF Labels
  <2>2. TypeOK'
    BY Zenon, <1>1, <1>3, <2>1 DEF TypeOK
  <2>3. Quiet'
    BY Zenon, <1>1 DEF SyncInv, Quiet
  <2> QED
    BY Zenon, <2>2, <2>3
<1>5. Top' = Top /\ Open' = Open /\ Closed' = Closed /\ LastEntry' = LastEntry /\ ds' = ds
  BY Zenon, <1>1 DEF Top, Open, Closed, LastEntry
<1>6. Exact(ds)' /\ StreamWellFormed' /\ BatchEndRoot'
  BY Zenon, <1>1 DEF Stored, Exact, StreamWellFormed, BatchEndRoot
<1>7. StreamEnd'
  <2>1. chain'[Top] = chain[Top]
    BY <1>2, <1>3
  <2> QED
    BY Zenon, <1>1, <1>5, <2>1 DEF Stored, StreamEnd
<1>8. BatchesGrow'
  <2>1. \A n \in 1 .. Height : chain[n].batch \in Nat /\ chain[n].batch <= LastBatch
    <3>1. LastBatch = chain[Height].batch /\ Height \in 1 .. Height
      BY <1>2 DEF LastBatch
    <3>2. \A n \in 1 .. Height : n <= Height /\ chain[n].batch \in Nat
      BY <1>1, <1>2, ChainType
    <3>3. BatchesGrow
      BY Zenon, <1>1 DEF Stored
    <3> QED
      BY Zenon, <3>1, <3>2, <3>3 DEF BatchesGrow
  <2>2. blk.batch \in Nat /\ LastBatch \in Nat /\ LastBatch <= blk.batch
    BY <1>1, <1>2, ChainType DEF InHand, Block
  <2>3. \A n \in 1 .. Height : chain[n].batch <= blk.batch
    BY <2>1, <2>2
  <2> QED
    BY <1>1, <1>2, <1>3, <2>2, <2>3 DEF Stored, BatchesGrow
<1>9. StreamMatchesChain'
  <2>1. StreamMatchesChain /\ pc # "injectCommit"
    BY Zenon, <1>1 DEF Stored
  <2>2. \A n \in 1 .. Height : n \in 1 .. Height' /\ chain'[n] = chain[n]
    BY <1>2, <1>3
  <2> QED
    BY Zenon, <1>5, <2>1, <2>2 DEF StreamMatchesChain
<1>10. PublishedOnChain' /\ \A q \in published' : q[1] <= Top'
  <2>1. \A q \in published : q[1] \in 1 .. Height
    BY Zenon, <1>1 DEF Stored, PublishedOnChain
  <2>2. \A n \in 1 .. Height : n \in 1 .. Height' /\ chain'[n] = chain[n]
    BY <1>2, <1>3
  <2> QED
    BY Zenon, <1>1, <1>5, <2>1, <2>2 DEF Stored, PublishedOnChain
<1>11. Distance' /\ UnwindPoint'
  <2>1. Height' \in Top .. (Top + 1) /\ Height' = Top + 1 /\ Top > 0
    BY <1>2, <1>3
  <2>2. Distance'
    BY Zenon, <1>1, <1>5, <2>1 DEF Distance
  <2> QED
    BY Zenon, <1>1, <1>5, <2>2 DEF SyncInv, UnwindPoint, UnwindLabels
<1>12. InHand'
  BY <1>1, <1>2, <1>3, <1>5 DEF InHand, LastBatch
<1>13. StreamGrows
  BY Zenon, <1>1, <1>5, SameFileGrows DEF SyncInv
<1> QED
  BY Zenon, <1>13, <1>1, <1>4, <1>6, <1>7, <1>8, <1>9, <1>10, <1>11, <1>12 DEF SyncInv, Stored

-----------------------------------------------------------------------------
(* The two places at which a block reaches the stream: the injected batch and      *)
(* Publish.                                                                        *)

\* What the injected batch looks like in the stream.
LEMMA WholeBatch ==
    ASSUME NEW d, d.file = <<>>, GetHighestBlockNumber(d) = 0, NEW b \in Block, b.batch = 1
    PROVE  /\ BatchStart(1) \in Entry /\ L2Block(1, b) \in Entry
           /\ BatchEnd(1, b.root) \in Entry
           /\ WriteWholeBatch(d, 1, b, 0) =
                 [file |-> <<BatchStart(1), L2Block(1, b), BatchEnd(1, b.root)>>,
                  block |-> 1, batch |-> 1, closed |-> 1]
<1>1. BatchStart(1) \in Entry /\ L2Block(1, b) \in Entry /\ BatchEnd(1, b.root) \in Entry
  BY Zenon DEF BatchStart, L2Block, BatchEnd, Entry, Block
<1> DEFINE f == <<BatchStart(1), L2Block(1, b), BatchEnd(1, b.root)>>
<1>2. f \in Seq(Entry)
  BY <1>1
<1>3. UnwindIfNecessary(d, 1, 0, b.batch) = d
  BY DEF UnwindIfNecessary
<1> HIDE DEF f
<1>4. d.file \o f = f
  BY Zenon, <1>2, ConcatEmpty
<1>5. WriteWholeBatch(d, 1, b, 0) = [file |-> d.file \o f, block |-> 1, batch |-> 1, closed |-> 1]
  BY <1>3, Zenon DEF WriteWholeBatch, f
<1> QED
  BY Zenon, <1>1, <1>4, <1>5 DEF f

\* The injected batch is written to an empty stream.
LEMMA StepInjectedInv == ASSUME WellOrdered, SyncMode, SyncInv, StepInjected PROVE SyncInv' /\ StreamGrows
<1> USE DEF durable
<1> DEFINE b == [batch |-> 1, tx |-> Injected, root |-> RootWith(1, Injected)]
<1>1. /\ pc = "step" /\ pc' = "injectCommit" /\ Height = 0 /\ blk' = b
      /\ ds' = WriteWholeBatch(ds, 1, b, 0)
      /\ published' = published \cup {<<1, b.tx, b.root>>}
      /\ UNCHANGED <<durable, longLived, queue, pushed, smtState, checkDs, unwindTo, job,
                     reseqFlag, pool, deleted, acc, faults>>
      /\ Stored /\ Distance /\ UnwindPoint /\ TypeOK
  BY Zenon DEF SyncInv, StepInjected, StepReady, SyncMode, LastBatch
<1>2. b \in Block
  <2>1. RootWith(1, Injected) \in Root /\ Injected \in Payload
    BY <1>1 DEF RootWith, Smt, TypeOK, Root, Payload
  <2> QED
    BY Zenon, <2>1 DEF Block
<1>3. b.batch = 1 /\ b.tx \in Payload /\ b.root \in Root
  BY Zenon, <1>2 DEF Block
<1> HIDE DEF b
<1>4. Top = 0 /\ ds.file = <<>> /\ chain = <<>> /\ published = {} /\ unwindTo = Nil
  <2>1. Top = 0 /\ chain = <<>>
    BY <1>1, HighestType DEF Distance, Top, Height, TypeOK
  <2>2. published = {}
    BY <1>1 DEF Stored, PublishedOnChain
  <2> QED
    BY Zenon, <1>1, <2>1, <2>2 DEF Stored, StreamEnd, UnwindPoint, UnwindLabels
<1>5. GetHighestBlockNumber(ds) = 0
  BY Zenon, <1>1, <1>4, ExactReads DEF Stored, Top
<1>6. /\ BatchStart(1) \in Entry /\ L2Block(1, b) \in Entry /\ BatchEnd(1, b.root) \in Entry
      /\ ds' = [file |-> <<BatchStart(1), L2Block(1, b), BatchEnd(1, b.root)>>,
                block |-> 1, batch |-> 1, closed |-> 1]
  BY Zenon, <1>1, <1>2, <1>3, <1>4, <1>5, WholeBatch
<1>7. InjectWindow'
  BY Zenon, <1>1, <1>3, <1>4, <1>6 DEF InjectWindow
<1>8. ds' \in [file : Seq(Entry), block : Nat \cup {Nil}, batch : Nat \cup {Nil},
               closed : Nat \cup {Nil}]
  BY <1>6
<1>9. TypeOK' /\ Quiet'
  BY <1>1, <1>2, <1>3, <1>8 DEF SyncInv, TypeOK, Quiet, Labels
<1>10. StreamGrows
  <2>1. ds'.file \in Seq(Entry) /\ Len(ds.file) = 0 /\ Len(ds'.file) \in Nat
    BY <1>4, <1>8
  <2>2. SubSeq(ds'.file, 1, 0) = <<>>
    BY Zenon, <2>1, WholePrefix
  <2> QED
    BY <1>4, <2>1, <2>2 DEF StreamGrows
<1> QED
  BY Zenon, <1>10, <1>1, <1>7, <1>9 DEF SyncInv

\* Committing the injected batch makes the chain level with the stream.
LEMMA InjectCommitInv == ASSUME WellOrdered, SyncMode, SyncInv, Commit, pc = "injectCommit" PROVE SyncInv' /\ StreamGrows
<1> USE DEF process
<1>1. /\ pc' = "injectSmt" /\ InjectWindow /\ TypeOK
      /\ chain' = Append(chain, blk) /\ hashed' = Height + 1
      /\ UNCHANGED <<finish, smtDb, poolDb, ds, process, faults, published>>
  BY Zenon DEF SyncInv, Commit, SyncMode
<1>2. chain = <<>> /\ blk \in Block /\ blk.batch = 1 /\ blk.root \in Root /\ blk.tx \in Payload
  BY Zenon, <1>1 DEF TypeOK, InjectWindow, Block
<1>3. chain' \in Seq(Block) /\ Height' = 1 /\ chain'[1] = blk /\ hashed' \in Nat
  <2>1. chain' = <<blk>> /\ Height = 0
    BY <1>1, <1>2 DEF Height
  <2>2. <<blk>> \in Seq(Block) /\ Len(<<blk>>) = 1 /\ <<blk>>[1] = blk
    BY <1>2
  <2> QED
    BY <1>1, <2>1, <2>2 DEF Height
<1>4. TypeOK' /\ Quiet'
  BY Zenon, <1>1, <1>3 DEF SyncInv, TypeOK, Quiet, Labels
<1> DEFINE s1 == BatchStart(1)
           s2 == L2Block(1, blk)
           s3 == BatchEnd(1, blk.root)
           f == <<s1, s2, s3>>
<1>5. s1 \in Entry /\ s2 \in Entry /\ s3 \in Entry
  <2>1. s1 \in Entry
    BY Zenon DEF BatchStart, Entry
  <2>2. s2 \in Entry
    BY <1>2 DEF L2Block, Entry
  <2>3. s3 \in Entry
    BY Zenon, <1>2 DEF BatchEnd, Entry
  <2> QED
    BY Zenon, <2>1, <2>2, <2>3
<1>6. /\ s1.type = "start" /\ s1.batch = 1
      /\ s2.type = "block" /\ s2.batch = 1 /\ s2.num = 1 /\ s2.root = blk.root
      /\ s3.type = "end" /\ s3.batch = 1 /\ s3.root = blk.root
  BY Zenon, <1>2 DEF BatchStart, L2Block, BatchEnd
<1>7. /\ ds.file = f /\ ds.block = 1 /\ ds.batch = 1 /\ ds.closed = 1 /\ ds' = ds
  BY Zenon, <1>1 DEF InjectWindow
<1> HIDE DEF s1, s2, s3
<1>8. f = Append(Append(Append(<<>>, s1), s2), s3)
  BY <1>5
<1>9. HighestBlockInFile(f) = 1 /\ HighestBatchInFile(f) = 1 /\ HighestClosedInFile(f) = 1
  <2> DEFINE f1 == Append(<<>>, s1)
             f2 == Append(f1, s2)
             f3 == Append(f2, s3)
  <2>0. <<>> \in Seq(Entry)
    OBVIOUS
  <2>1. f1 \in Seq(Entry) /\ HighestBatchInFile(f1) = 1
    BY Zenon, <1>5, <1>6, <2>0, HighestOfAppend
  <2> HIDE DEF f1
  <2>2. f2 \in Seq(Entry) /\ HighestBatchInFile(f2) = 1 /\ HighestBlockInFile(f2) = 1
    BY Zenon, <1>5, <1>6, <2>1, HighestOfAppend
  <2> HIDE DEF f2
  <2>3. HighestBatchInFile(f3) = 1 /\ HighestBlockInFile(f3) = 1 /\ HighestClosedInFile(f3) = 1
    BY Zenon, <1>5, <1>6, <2>2, HighestOfAppend
  <2> QED
    BY Zenon, <1>8, <2>3 DEF f1, f2
<1>10. Len(f) = 3 /\ f[1] = s1 /\ f[2] = s2 /\ f[3] = s3 /\ f # <<>>
  OBVIOUS
<1> HIDE DEF f
<1>11. /\ Exact(ds)'
       /\ Top' = 1 /\ Open' = 1 /\ Closed' = 1 /\ LastEntry' = s3
  BY Zenon, <1>1, <1>7, <1>9, <1>10 DEF TypeOK, Exact, Top, Open, Closed, LastEntry
<1>12. StreamEnd' /\ BatchesGrow'
  <2>1. ds'.file # <<>>
    BY Zenon, <1>7, <1>10
  <2>2. BatchesGrow'
    BY <1>2, <1>3 DEF BatchesGrow
  <2> QED
    BY <1>2, <1>3, <1>6, <1>11, <2>1, <2>2 DEF StreamEnd
<1>13. StreamWellFormed' /\ BatchEndRoot'
  <2>1. \A i \in 1 .. 3 : i = 1 \/ i = 2 \/ i = 3
    OBVIOUS
  <2>2. WellFormed(f)
    BY <1>6, <1>10, <2>1 DEF WellFormed
  <2>3. BatchEndRoot'
    BY <1>6, <1>7, <1>10, <2>1 DEF BatchEndRoot
  <2> QED
    BY Zenon, <1>7, <2>2, <2>3 DEF StreamWellFormed
<1>14. StreamMatchesChain'
  <2>1. s2 = L2Block(s2.num, chain'[s2.num])
    BY Zenon, <1>3, <1>6 DEF s2
  <2>2. \A i \in 1 .. Len(f) : f[i].type = "block" <=> i = 2
    BY <1>6, <1>10
  <2>3. \A i \in 1 .. Len(f) : f[i].type = "block" =>
          f[i].num \in 1 .. Height' /\ f[i] = L2Block(f[i].num, chain'[f[i].num])
    BY <1>3, <1>6, <1>10, <2>1, <2>2
  <2>4. \A i, j \in 1 .. Len(f) : f[i].type = "block" /\ f[j].type = "block" => i = j
    BY Zenon, <2>2
  <2>5. \A n \in 1 .. HighestBlockInFile(f) : f[2].num = n
    BY <1>6, <1>9, <1>10
  <2>6. 2 \in 1 .. Len(f) /\ f[2].type = "block"
    BY <1>6, <1>10
  <2>7. \A i, j \in 1 .. Len(f) :
          f[i].type = "block" /\ f[j].type = "block" /\ i < j => f[i].num < f[j].num
    BY <1>10, <2>4
  <2> QED
    BY Zenon, <1>7, <2>3, <2>5, <2>6, <2>7 DEF StreamMatchesChain
<1>15. PublishedOnChain' /\ \A q \in published' : q[1] <= Top'
  BY <1>1, <1>3, <1>11 DEF InjectWindow, PublishedOnChain
<1>16. Distance' /\ UnwindPoint' /\ InHand'
  BY <1>1, <1>3, <1>11 DEF InjectWindow, Distance, UnwindPoint, InHand, UnwindLabels
<1>17. StreamGrows
  BY Zenon, <1>1, <1>7, SameFileGrows DEF SyncInv
<1> QED
  BY Zenon, <1>17, <1>1, <1>4, <1>11, <1>12, <1>13, <1>14, <1>15, <1>16 DEF SyncInv, Stored

\* A batch that follows the previous one directly opens with its start alone.
LEMMA OneBatchStart ==
    ASSUME NEW n \in Nat, NEW r
    PROVE  BatchStartEntries(n, n + 1, r) = <<BatchStart(n + 1)>>
BY DEF BatchStartEntries

\* Publishing: the stream gets the one block it lacks, and nothing is cut.
LEMMA PublishInv == ASSUME WellOrdered, SyncMode, SyncInv, Publish PROVE SyncInv' /\ StreamGrows /\ Top' = Height
<1> USE DEF durable, process
<1>1. /\ pc = "publish" /\ pc' = "notify" /\ Stored /\ Distance /\ TypeOK
      /\ Height = Top + 1 /\ Height > 1 /\ blk = chain[Height]
      /\ blk.batch \in {chain[Height - 1].batch, chain[Height - 1].batch + 1}
      /\ blk.batch = chain[Height - 1].batch => LastEntry.type # "end"
      /\ blk.batch # chain[Height - 1].batch => LastEntry.type = "end"
      /\ Height <= smtDb.height
  BY Zenon DEF SyncInv, Publish, Distance, InHand
<1>2. /\ Top \in Nat /\ Top > 0 /\ Open \in Nat /\ Closed \in Nat /\ Height \in Nat
      /\ Height - 1 = Top /\ Height = Top + 1 /\ chain[Top].batch \in Nat
      /\ blk \in Block /\ blk.batch \in Nat
      /\ ds.file \in Seq(Entry)
  <2>1. Top \in Nat /\ Open \in Nat /\ Closed \in Nat /\ Height \in Nat /\ ds.file \in Seq(Entry)
    BY Zenon, <1>1, HighestType, ChainType DEF TypeOK, Top, Open, Closed
  <2>2. Top > 0 /\ Height - 1 = Top /\ Top \in 1 .. Height
    BY <1>1, <2>1
  <2>3. \A b \in Block : b.batch \in Nat
    BY Zenon DEF Block
  <2> QED
    BY Zenon, <1>1, <2>1, <2>2, <2>3, ChainType DEF TypeOK
<1>3. /\ ds.file # <<>> /\ LastEntry.batch = Open /\ Open = chain[Top].batch
      /\ LastEntry.type = "end" <=> Closed = Open
      /\ LastEntry.type # "end" => LastEntry.type = "block"
  BY Zenon, <1>1, <1>2 DEF Stored, StreamEnd
<1> DEFINE f == ds.file
           s == BatchStart(blk.batch)
           x == L2Block(Height, blk)
           same == blk.batch = Open
           f0 == IF same THEN f ELSE Append(f, s)
           g == Append(f0, x)
<1>4. /\ x \in Entry /\ x.type = "block" /\ x.num = Height /\ x.batch = blk.batch
      /\ x.root = blk.root
      /\ s \in Entry /\ s.type = "start" /\ s.batch = blk.batch
  BY Zenon, <1>2 DEF L2Block, BatchStart, Entry, Block
<1>5. ds' = [file |-> g, block |-> Height, batch |-> blk.batch, closed |-> ds.closed]
  <2>1. GetHighestBlockNumber(ds) = Top
    BY Zenon, <1>1, ExactReads DEF Stored, Top
  <2>2. UnwindIfNecessary(ds, Height, chain[Height - 1].batch, blk.batch) = ds
    BY <1>2, <2>1 DEF UnwindIfNecessary
  <2> DEFINE start == IF chain[Height - 1].batch = blk.batch THEN <<>>
                      ELSE BatchStartEntries(chain[Height - 1].batch, blk.batch, blk.root)
  <2>3. ds' = [file |-> (f \o start) \o <<x>>, block |-> Height, batch |-> blk.batch,
               closed |-> ds.closed]
    BY <2>2, Zenon DEF Publish, WriteBlockWithBatchStart
  <2>4. start = IF same THEN <<>> ELSE <<s>>
    BY Zenon, <1>1, <1>2, <1>3, OneBatchStart
  <2> HIDE DEF start, x, s
  <2>5. f \o start = f0
    BY Zenon, <1>2, <1>4, <2>4, ConcatEmpty, AppendConcat
  <2>6. f0 \in Seq(Entry)
    BY <1>2, <1>4
  <2>7. f0 \o <<x>> = g
    BY Zenon, <1>4, <2>6, AppendConcat
  <2> QED
    BY Zenon, <2>3, <2>5, <2>7
<1>6. published' = published \cup {<<Height, blk.tx, blk.root>>}
        /\ UNCHANGED <<chain, hashed, finish, smtDb, poolDb, process, faults>>
  BY Zenon DEF Publish
<1> HIDE DEF s, x
<1>7. /\ f0 \in Seq(Entry) /\ Len(f0) \in Nat /\ Len(f) \in 1 .. Len(f0)
      /\ \A i \in 1 .. Len(f) : f0[i] = f[i]
      /\ ~ same => Len(f0) = Len(f) + 1 /\ f0[Len(f0)] = s
      /\ same => f0 = f
  <2>1. Len(f) \in Nat /\ Len(f) > 0
    BY <1>2, <1>3
  <2> QED
    BY <1>2, <1>4, <2>1, AppendFacts
<1>8. /\ HighestBlockInFile(f0) = Top /\ HighestBatchInFile(f0) = blk.batch
      /\ HighestClosedInFile(f0) = Closed
  BY Zenon, <1>2, <1>4, HighestOfAppend DEF Top, Open, Closed
<1>9. f0[Len(f0)].type # "end" /\ f0[Len(f0)].batch = blk.batch
  BY Zenon, <1>1, <1>2, <1>3, <1>4, <1>7 DEF LastEntry
<1>10. WellFormed(f0)
  BY Zenon, <1>1, <1>2, <1>3, <1>4, WellFormedAppend DEF Stored, StreamWellFormed, LastEntry
<1> HIDE DEF f0
<1>11. /\ g \in Seq(Entry) /\ Len(g) = Len(f0) + 1 /\ g[Len(f0) + 1] = x
       /\ \A i \in 1 .. Len(f0) : g[i] = f0[i]
  BY <1>4, <1>7, AppendFacts
<1>12. /\ HighestBlockInFile(g) = Height /\ HighestBatchInFile(g) = blk.batch
       /\ HighestClosedInFile(g) = Closed
  BY Zenon, <1>4, <1>7, <1>8, HighestOfAppend
<1>13. WellFormed(g)
  BY <1>4, <1>7, <1>9, <1>10, WellFormedAppend
<1> HIDE DEF g
<1>14. /\ ds'.file = g /\ Top' = Height /\ Open' = blk.batch /\ Closed' = Closed
       /\ LastEntry' = x /\ Height' = Height
  BY Zenon, <1>5, <1>6, <1>7, <1>11, <1>12 DEF Top, Open, Closed, LastEntry, Height
<1>15. Exact(ds)' /\ TypeOK' /\ Quiet'
  <2>1. ds' \in [file : Seq(Entry), block : Nat \cup {Nil}, batch : Nat \cup {Nil},
                 closed : Nat \cup {Nil}]
    BY Zenon, <1>1, <1>2, <1>5, <1>11 DEF TypeOK
  <2>2. Exact(ds)'
    BY Zenon, <1>1, <1>5, <1>12, <2>1 DEF Stored, Exact, Closed
  <2>3. <<Height, blk.tx, blk.root>> \in Nat \X Payload \X Root
    BY Zenon, <1>2 DEF Block
  <2> QED
    BY <1>1, <1>6, <2>1, <2>2, <2>3 DEF SyncInv, TypeOK, Quiet, Labels
<1>16. StreamEnd' /\ BatchesGrow' /\ StreamWellFormed'
  <2>1. ds'.file # <<>>
    <3>1. Len(g) > 0
      BY <1>7, <1>11
    <3> QED
      BY <1>14, <3>1
  <2>2. Closed # blk.batch
    BY Zenon, <1>1, <1>2, <1>3
  <2>3. StreamEnd'
    <3>1. Top' > 0 /\ Top' = Height /\ chain'[Top'] = blk
      BY <1>1, <1>2, <1>6, <1>14
    <3>2. LastEntry'.batch = Open' /\ Open' = blk.batch
      BY Zenon, <1>4, <1>14
    <3>3. LastEntry'.type = "block" /\ LastEntry'.root = blk.root
      BY Zenon, <1>4, <1>14
    <3>4. Closed' # Open'
      BY Zenon, <1>14, <2>2
    <3> QED
      BY <2>1, <3>1, <3>2, <3>3, <3>4 DEF StreamEnd
  <2> QED
    BY Zenon, <1>1, <1>6, <1>13, <1>14, <2>3 DEF Stored, BatchesGrow, StreamWellFormed
<1>17. BatchEndRoot'
  <2> SUFFICES ASSUME NEW i \in 1 .. Len(g), g[i].type = "end" PROVE g[i].root = g[i - 1].root
    BY Zenon, <1>14 DEF BatchEndRoot
  <2>1. i \in 1 .. Len(f)
    BY <1>4, <1>7, <1>9, <1>11
  <2>2. i - 1 \in 1 .. Len(f)
    BY <1>1, <1>7, <1>11, <2>1 DEF Stored, StreamWellFormed, WellFormed
  <2>3. g[i] = f[i] /\ g[i - 1] = f[i - 1]
    <3>1. \A k \in 1 .. Len(f) : k \in 1 .. Len(f0)
      BY <1>7
    <3>2. \A k \in 1 .. Len(f) : g[k] = f[k]
      BY Zenon, <1>7, <1>11, <3>1
    <3> QED
      BY Zenon, <2>1, <2>2, <3>2
  <2> QED
    BY Zenon, <1>1, <2>1, <2>3 DEF Stored, BatchEndRoot
<1>18. StreamMatchesChain'
  <2>1. \A i \in 1 .. Len(g) : g[i].type = "block" =>
          \/ i \in 1 .. Len(f) /\ g[i] = f[i] /\ i # Len(g)
          \/ i = Len(g) /\ g[i] = x
    <3> SUFFICES ASSUME NEW i \in 1 .. Len(g), g[i].type = "block"
                 PROVE  \/ i \in 1 .. Len(f) /\ g[i] = f[i] /\ i # Len(g)
                        \/ i = Len(g) /\ g[i] = x
      OBVIOUS
    <3>1. CASE i = Len(g)
      BY Zenon, <1>7, <1>11, <3>1
    <3>2. CASE i # Len(g)
      <4>1. i \in 1 .. Len(f0) /\ g[i] = f0[i]
        BY <1>7, <1>11, <3>2
      <4>2. i \in 1 .. Len(f)
        BY <1>4, <1>7, <4>1
      <4> QED
        BY Zenon, <1>7, <3>2, <4>1, <4>2
    <3> QED
      BY Zenon, <3>1, <3>2
  <2>2. \A i \in 1 .. Len(f) : i \in 1 .. Len(g) /\ g[i] = f[i] /\ i < Len(g)
    BY <1>7, <1>11
  <2>3. Len(g) \in 1 .. Len(g) /\ g[Len(g)] = x
    BY <1>7, <1>11
  <2>4. \A i \in 1 .. Len(f) : f[i].type = "block" => f[i].num \in 1 .. Top
    BY Zenon, <1>1, NumAtMostTop
  <2>5. x = L2Block(x.num, chain[x.num])
    BY Zenon, <1>1, <1>4 DEF x
  <2>6. \A i \in 1 .. Len(g) : g[i].type = "block" =>
          g[i].num \in 1 .. Height /\ g[i] = L2Block(g[i].num, chain[g[i].num])
    <3> SUFFICES ASSUME NEW i \in 1 .. Len(g), g[i].type = "block"
                 PROVE  g[i].num \in 1 .. Height /\ g[i] = L2Block(g[i].num, chain[g[i].num])
      OBVIOUS
    <3>1. CASE i \in 1 .. Len(f) /\ g[i] = f[i]
      BY Zenon, <1>1, <3>1 DEF Stored, StreamMatchesChain
    <3>2. CASE g[i] = x
      BY <1>2, <1>4, <2>5, <3>2
    <3> QED
      BY Zenon, <2>1, <3>1, <3>2
  <2>7. \A i, j \in 1 .. Len(g) :
          g[i].type = "block" /\ g[j].type = "block" /\ i < j => g[i].num < g[j].num
    <3> SUFFICES ASSUME NEW i \in 1 .. Len(g), NEW j \in 1 .. Len(g), i < j,
                        g[i].type = "block", g[j].type = "block"
                 PROVE  g[i].num < g[j].num
      OBVIOUS
    <3>1. i \in 1 .. Len(f) /\ g[i] = f[i]
      BY <2>1, <1>7, <1>11
    <3>2. CASE j = Len(g)
      BY <1>2, <1>4, <2>3, <2>4, <3>1, <3>2
    <3>3. CASE j # Len(g)
      BY Zenon, <1>1, <2>1, <3>1, <3>3 DEF Stored, StreamMatchesChain
    <3> QED
      BY Zenon, <3>2, <3>3
  <2>8. \A n \in 1 .. Height : \E i \in 1 .. Len(g) : g[i].type = "block" /\ g[i].num = n
    <3> SUFFICES ASSUME NEW n \in 1 .. Height
                 PROVE  \E i \in 1 .. Len(g) : g[i].type = "block" /\ g[i].num = n
      OBVIOUS
    <3>1. CASE n = Height
      BY Zenon, <1>4, <2>3, <3>1
    <3>2. CASE n \in 1 .. Top
      BY <1>1, <2>2, <3>2 DEF Stored, StreamMatchesChain, Top
    <3> QED
      BY <1>2, <3>1, <3>2
  <2> QED
    BY Zenon, <1>6, <1>12, <1>14, <2>6, <2>7, <2>8 DEF StreamMatchesChain
<1>19. PublishedOnChain' /\ \A q \in published' : q[1] <= Top'
  <2>1. \A q \in published : q[1] \in 1 .. Height /\ q[1] <= Height
    BY <1>1, <1>2 DEF Stored, PublishedOnChain
  <2> QED
    BY <1>1, <1>2, <1>6, <1>14, <2>1 DEF Stored, PublishedOnChain
<1>20. Distance' /\ UnwindPoint' /\ InHand'
  <2>1. Distance'
    BY <1>1, <1>2, <1>6, <1>14 DEF Distance
  <2>2. UnwindPoint'
    <3>1. unwindTo = Nil /\ unwindTo' = Nil
      BY Zenon, <1>1, <1>6 DEF SyncInv, UnwindPoint, UnwindLabels
    <3> QED
      BY Zenon, <1>1, <3>1 DEF UnwindPoint, UnwindLabels
  <2>3. InHand'
    <3>1. chain' = chain /\ blk' = blk /\ LastEntry'.type = "block" /\ Height' > 0
      BY <1>1, <1>2, <1>4, <1>6, <1>14
    <3> QED
      BY Zenon, <1>1, <1>14, <3>1 DEF InHand
  <2> QED
    BY Zenon, <2>1, <2>2, <2>3
<1>21. StreamGrows
  <2>1. Len(g) > Len(ds.file) /\ \A i \in 1 .. Len(ds.file) : g[i] = ds.file[i]
    BY <1>7, <1>11
  <2> QED
    BY Zenon, <1>1, <1>11, <1>14, <2>1, AppendedGrows
<1> QED
  BY Zenon, <1>14, <1>21, <1>1, <1>15, <1>16, <1>17, <1>18, <1>19, <1>20 DEF SyncInv, Stored

=============================================================================
