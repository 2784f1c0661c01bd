-------------------------- MODULE Sequencer_proofs ---------------------------
(* The sequencer in sync-commit mode, for every pool, every bound and every choice *)
(* of the points at which crashes and errors may strike outside the windows that   *)
(* SyncMode and SmtMode exclude.                                                   *)
EXTENDS SequencerSteps_proofs, SequencerLog, WellFoundedInduction

\* Every non-empty set of naturals has a least element.
LEMMA LeastNat == WellOrdered
<1> SUFFICES ASSUME NEW T \in SUBSET Nat, T # {}
             PROVE  \E x \in T : \A y \in T : x <= y
  BY Zenon DEF WellOrdered
<1> DEFINE R == OpToRel(<, Nat)
<1>1. PICK x \in T : \A y \in T : ~ (<<y, x>> \in R)
  BY Zenon, NatLessThanWellFounded, WFMin
<1>2. ASSUME NEW y \in T PROVE x <= y
  <2>1. ~ (y < x)
    BY Zenon, <1>1 DEF OpToRel
  <2> QED
    BY <2>1
<1> QED
  BY Zenon, <1>2

-----------------------------------------------------------------------------
(* Chain and stream: SyncInv is inductive.                                         *)

\* The pool's flush may come at any time, the injected batch's window included.
LEMMA FlushPoolInv == ASSUME SyncMode, SyncInv, FlushPool PROVE SyncInv' /\ StreamGrows
<1>1. UNCHANGED <<chain, hashed, finish, smtDb, ds, blk, longLived, queue, pushed,
                  smtState, checkDs, unwindTo, job, reseqFlag, pool, acc, pc, faults,
                  published>>
  BY Zenon DEF FlushPool
<1>2. TypeOK'
  BY Zenon, <1>1 DEF SyncInv, TypeOK, FlushPool
<1>3. Quiet' /\ StreamGrows
  BY Zenon, <1>1, SameFileGrows DEF SyncInv, Quiet
<1>4. CASE pc = "injectCommit"
  BY Zenon, <1>1, <1>2, <1>3, <1>4 DEF SyncInv, InjectWindow
<1>5. CASE pc # "injectCommit"
  <2>1. Stored'
    BY Zenon, <1>1, <1>5, StoredFrame DEF SyncInv
  <2>2. Distance' /\ UnwindPoint' /\ InHand'
    BY Zenon, <1>1, <1>5 DEF SyncInv, Distance, UnwindPoint, InHand, Top, Height, LastBatch, LastEntry
  <2> QED
    BY Zenon, <1>1, <1>2, <1>3, <1>5, <2>1, <2>2 DEF SyncInv
<1> QED
  BY Zenon, <1>4, <1>5

\* A stuttering step.
LEMMA StutterInv == ASSUME SyncInv, UNCHANGED vars PROVE SyncInv' /\ StreamGrows
<1>1. UNCHANGED <<chain, hashed, finish, smtDb, poolDb, ds, blk, longLived, queue, pushed,
                  smtState, checkDs, unwindTo, job, reseqFlag, pool, deleted, acc, pc,
                  faults, published>>
  BY Zenon DEF vars, durable, process
<1>2. TypeOK' /\ Quiet' /\ StreamGrows
  BY Zenon, <1>1, SameFileGrows DEF SyncInv, TypeOK, Quiet
<1>3. CASE pc = "injectCommit"
  BY Zenon, <1>1, <1>2, <1>3 DEF SyncInv, InjectWindow
<1>4. CASE pc # "injectCommit"
  <2>1. Stored'
    BY Zenon, <1>1, <1>4, StoredFrame DEF SyncInv
  <2>2. Distance' /\ UnwindPoint' /\ InHand'
    BY Zenon, <1>1, <1>4 DEF SyncInv, Distance, UnwindPoint, InHand, Top, Height, LastBatch, LastEntry
  <2> QED
    BY Zenon, <1>1, <1>2, <1>4, <2>1, <2>2 DEF SyncInv
<1> QED
  BY Zenon, <1>3, <1>4

\* The steps of the async mode and of resequencing never happen: there is no
\* job, and the SMT database is never more than one block behind.
LEMMA NeverAsync ==
    ASSUME SyncMode, SyncInv
    PROVE  ~ (StepUnwindToSmt \/ EndJobBatch \/ ExitOnMismatch \/ StrictError \/ FlushSmt)
<1>1. ~ (EndJobBatch \/ ExitOnMismatch \/ StrictError \/ FlushSmt)
  BY Zenon DEF SyncInv, Quiet, EndJobBatch, ExitOnMismatch, RootMismatch, StrictError, FlushSmt
<1>2. ASSUME StepUnwindToSmt PROVE FALSE
  <2>1. pc = "step" /\ smtDb.height + 1 < Height /\ Distance /\ TypeOK
    BY Zenon, <1>2 DEF SyncInv, StepUnwindToSmt, StepReady, SmtGap
  <2>2. Top \in Nat /\ Height \in Nat /\ smtDb.height \in Nat
    BY Zenon, <2>1, HighestType, LeastNat, ChainType DEF TypeOK, Top
  <2> QED
    BY <2>1, <2>2 DEF Distance
<1> QED
  BY Zenon, <1>1, <1>2

\* The initial state satisfies the invariant.
LEMMA InitInv == Init => SyncInv
<1> SUFFICES ASSUME Init PROVE SyncInv
  OBVIOUS
<1>1. TypeOK
  <2>1. NoBlock \in Block /\ {} \in Root
    BY Zenon DEF NoBlock, Block, Root, Payload
  <2> QED
    <3>1. /\ <<>> \in Seq(Block) /\ <<>> \in Seq([delta : Root, height : Nat])
          /\ <<>> \in Seq(Seq(Entry)) /\ <<>> \in Seq(Entry)
      OBVIOUS
    <3>2. ds \in [file : Seq(Entry), block : Nat \cup {Nil}, batch : Nat \cup {Nil},
                  closed : Nat \cup {Nil}]
      BY Zenon, <3>1 DEF Init, Opened
    <3> QED
      BY Zenon, <2>1, <3>1, <3>2 DEF Init, TypeOK, Labels
<1>2. Quiet
  BY Zenon DEF Init, Quiet
<1>3. /\ ds.file = <<>> /\ Len(ds.file) = 0 /\ chain = <<>> /\ Height = 0
      /\ published = {} /\ pc = "begin" /\ unwindTo = Nil /\ checkDs /\ smtDb.height = 0
  BY Zenon DEF Init, Opened, Height
<1>4. Top = 0 /\ Open = 0 /\ Closed = 0
  BY Zenon, <1>3, HighestOfEmpty, LeastNat DEF Top, Open, Closed
<1>5. Exact(ds)
  BY Zenon, <1>1 DEF Init, Opened, Exact, TypeOK
<1>6. Stored
  BY <1>3, <1>4, <1>5 DEF Stored, StreamEnd, BatchesGrow, StreamWellFormed, WellFormed,
                          BatchEndRoot, StreamMatchesChain, PublishedOnChain, Top
<1>7. Distance /\ UnwindPoint /\ InHand
  BY <1>3, <1>4 DEF Distance, UnwindPoint, InHand, UnwindLabels
<1> QED
  BY Zenon, <1>2, <1>1, <1>3, <1>6, <1>7 DEF SyncInv

\* Every step keeps the invariant and only appends to the stream.
LEMMA NextInv == ASSUME SyncMode, SyncInv, [Next]_vars PROVE SyncInv' /\ StreamGrows
<1>1. CASE ThreadStep
  BY Zenon, <1>1, ThreadInv
<1>2. CASE Spawn
  BY Zenon, <1>2, SpawnInv, LeastNat
<1>3. CASE StepInjected
  BY Zenon, <1>3, StepInjectedInv, LeastNat
<1>4. CASE StepAlign
  BY Zenon, <1>4, StepAlignInv, LeastNat
<1>5. CASE Commit
  BY Zenon, <1>5, CommitInv, InjectCommitInv, LeastNat DEF Commit
<1>6. CASE Close
  BY Zenon, <1>6, CloseInv, LeastNat
<1>7. CASE Publish
  BY Zenon, <1>7, PublishInv, LeastNat
<1>8. CASE UnwindExec
  BY Zenon, <1>8, UnwindExecInv, LeastNat
<1>9. CASE FlushPool
  BY Zenon, <1>9, FlushPoolInv
<1>10. CASE Crash
  <2>1. pc # "injectCommit" /\ pc # "injectSmt" /\ faults' \in Nat
    BY <1>10 DEF Crash, SyncMode, SyncInv, TypeOK
  <2> QED
    BY Zenon, <1>10, <2>1, RestartInv DEF Crash
<1>11. CASE Full \/ UNCHANGED vars
  BY Zenon, <1>11, StutterInv DEF Full
<1> QED
  BY <1>1, <1>2, <1>3, <1>4, <1>5, <1>6, <1>7, <1>8, <1>9, <1>10, <1>11, NeverAsync
  DEF Next, Sequence, ThreadStep

-----------------------------------------------------------------------------
\* The invariant holds in every reachable state.
THEOREM SyncInvariant == ASSUME SyncMode PROVE Spec => []SyncInv
<1>1. SyncInv /\ [Next]_vars => SyncInv'
  BY Zenon, NextInv
<1> QED
  BY <1>1, InitInv, PTL DEF Spec

\* Every variable keeps its type, whatever crashes and errors strike.
THEOREM SyncTypes == ASSUME SyncMode PROVE Spec => []TypeOK
<1>1. SyncInv => TypeOK
  BY Zenon DEF SyncInv
<1> QED
  BY <1>1, SyncInvariant, PTL

\* A block sent to a stream reader is never unwound or replaced: alignment
\* (alignExecutionToDatastream) only ever drops a block nobody has seen.
THEOREM SyncPublished == ASSUME SyncMode PROVE Spec => []PublishedOnChain
<1>1. SyncInv => PublishedOnChain
  BY Zenon DEF SyncInv, Stored, PublishedOnChain
<1> QED
  BY <1>1, SyncInvariant, PTL

\* No reader is ever sent two blocks with one number.
THEOREM SyncNoFork == ASSUME SyncMode PROVE Spec => []NoFork
<1>1. SyncInv => NoFork
  <2> SUFFICES ASSUME SyncInv, NEW p \in published, NEW q \in published, p[1] = q[1]
               PROVE  p = q
    BY Zenon DEF NoFork
  <2>1. CASE pc = "injectCommit"
    BY Zenon, <2>1 DEF SyncInv, InjectWindow
  <2>2. CASE pc # "injectCommit"
    BY Zenon, <2>2 DEF SyncInv, Stored, PublishedOnChain
  <2> QED
    BY Zenon, <2>1, <2>2
<1> QED
  BY <1>1, SyncInvariant, PTL

\* The stream has exactly the chain's blocks, in order, up to the chain's last
\* or last but one.
THEOREM SyncStreamMatches == ASSUME SyncMode PROVE Spec => []StreamMatchesChain
<1>1. SyncInv => StreamMatchesChain
  BY Zenon DEF SyncInv, Stored, StreamMatchesChain
<1> QED
  BY <1>1, SyncInvariant, PTL

\* In the injected batch's window the stream is that batch.
LEMMA WindowStream ==
    ASSUME InjectWindow PROVE StreamWellFormed /\ BatchEndRoot
<1> DEFINE s1 == BatchStart(1)
           s2 == L2Block(1, blk)
           s3 == BatchEnd(1, blk.root)
           f == <<s1, s2, s3>>
<1>1. /\ s1.type = "start" /\ s1.batch = 1
      /\ s2.type = "block" /\ s2.batch = 1 /\ s2.root = blk.root
      /\ s3.type = "end" /\ s3.batch = 1 /\ s3.root = blk.root
  BY Zenon DEF BatchStart, L2Block, BatchEnd, InjectWindow
<1>2. ds.file = f
  BY Zenon DEF InjectWindow
<1> HIDE DEF s1, s2, s3
<1>3. Len(f) = 3 /\ f[1] = s1 /\ f[2] = s2 /\ f[3] = s3
  OBVIOUS
<1> HIDE DEF f
<1>4. \A i \in 1 .. 3 : i = 1 \/ i = 2 \/ i = 3
  OBVIOUS
<1>5. WellFormed(f)
  BY <1>1, <1>3, <1>4 DEF WellFormed
<1>6. BatchEndRoot
  BY <1>1, <1>2, <1>3, <1>4 DEF BatchEndRoot
<1> QED
  BY Zenon, <1>2, <1>5, <1>6 DEF StreamWellFormed

\* The stream stays in its grammar, across every crash and every error.
THEOREM SyncWellFormed == ASSUME SyncMode PROVE Spec => []StreamWellFormed
<1>1. SyncInv => StreamWellFormed
  BY Zenon, WindowStream DEF SyncInv, Stored
<1> QED
  BY <1>1, SyncInvariant, PTL

\* Every batch end carries the root of its batch's last block, whichever of the
\* three writers wrote it.
THEOREM SyncBatchEndRoot == ASSUME SyncMode PROVE Spec => []BatchEndRoot
<1>1. SyncInv => BatchEndRoot
  BY Zenon, WindowStream DEF SyncInv, Stored
<1> QED
  BY <1>1, SyncInvariant, PTL

\* The stream is append-only: WriteBlockWithBatchStartToStream never finds a
\* reason to unwind it.
THEOREM SyncAppendOnly == ASSUME SyncMode PROVE Spec => StreamAppendOnly
<1>1. SyncInv /\ [Next]_vars => SyncInv' /\ [StreamGrows]_vars
  BY Zenon, NextInv
<1> QED
  BY <1>1, InitInv, PTL DEF Spec, StreamAppendOnly, StreamGrows
-----------------------------------------------------------------------------
(* The sequencer implements StreamLog, and the numbers its server caches are the     *)
(* file's whenever they decide what is written.                                      *)

\* The blocks of a stream that is the start of the chain are numbered in order.
LEMMA MatchNumbered ==
    ASSUME SyncInv, pc # "injectCommit" PROVE Log!Numbered(ds.file)
<1> DEFINE f == ds.file
<1>1. TypeOK /\ Stored
  BY Zenon DEF SyncInv
<1>2. f \in Seq(Entry) /\ Len(f) \in Nat
  BY <1>1 DEF TypeOK
<1>3. \A i \in 1 .. Len(f) : f[i].type = "block" => f[i].num \in 1 .. Top
  BY Zenon, <1>1, NumAtMostTop, LeastNat
<1>4. \A i, j \in 1 .. Len(f) :
        f[i].type = "block" /\ f[j].type = "block" /\ i < j => f[i].num < f[j].num
  BY Zenon, <1>1 DEF Stored, StreamMatchesChain
<1>5. \A n \in 1 .. Top : \E j \in 1 .. Len(f) : f[j].type = "block" /\ f[j].num = n
  BY Zenon, <1>1 DEF Stored, StreamMatchesChain, Top
<1>6. Top \in Nat
  BY Zenon, <1>2, HighestType, LeastNat DEF Top
<1> HIDE DEF f
<1>7. ASSUME NEW i \in 1 .. Len(f), f[i].type = "block", NEW n \in 1 .. f[i].num
      PROVE  \E j \in 1 .. i : f[j].type = "block" /\ f[j].num = n
  <2>1. f[i].num \in 1 .. Top
    BY Zenon, <1>3, <1>7
  <2>2. n \in 1 .. Top /\ n <= f[i].num /\ f[i].num \in Nat
    BY <1>6, <2>1
  <2>3. PICK j \in 1 .. Len(f) : f[j].type = "block" /\ f[j].num = n
    BY Zenon, <1>5, <2>2
  <2>4. ~(i < j)
    <3> SUFFICES ASSUME i < j PROVE FALSE
      OBVIOUS
    <3>1. f[i].num < n
      BY Zenon, <1>4, <1>7, <2>3
    <3> QED
      BY <2>2, <3>1
  <2>5. j \in 1 .. i
    BY <1>2, <2>4
  <2> QED
    BY Zenon, <2>3, <2>5
<1>8. Log!Numbered(f)
  BY <1>2, <1>4, <1>7 DEF Log!Numbered, Log!IsBlock
<1> QED
  BY Zenon, <1>8 DEF f

\* So is the one block of the injected batch.
LEMMA WindowNumbered == ASSUME InjectWindow PROVE Log!Numbered(ds.file)
<1> DEFINE s1 == BatchStart(1)
           s2 == L2Block(1, blk)
           s3 == BatchEnd(1, blk.root)
           f == <<s1, s2, s3>>
<1>1. s1.type = "start" /\ s2.type = "block" /\ s2.num = 1 /\ s3.type = "end"
  BY Zenon DEF BatchStart, L2Block, BatchEnd
<1>2. ds.file = f
  BY Zenon DEF InjectWindow
<1> HIDE DEF s1, s2, s3
<1>3. Len(f) = 3 /\ f[1] = s1 /\ f[2] = s2 /\ f[3] = s3
  OBVIOUS
<1> HIDE DEF f
<1>4. \A i \in 1 .. Len(f) : Log!IsBlock(f, i) => i = 2
  BY <1>1, <1>3 DEF Log!IsBlock
<1>5. Log!IsBlock(f, 2) /\ f[2].num = 1 /\ 2 \in 1 .. 2
  BY <1>1, <1>3 DEF Log!IsBlock
<1>6. \A n \in 1 .. 1 : n = 1
  OBVIOUS
<1>7. Log!Numbered(f)
  BY <1>3, <1>4, <1>5, <1>6 DEF Log!Numbered
<1> QED
  BY Zenon, <1>2, <1>7

LogState == Log!WellFormed(ds.file) /\ Log!Numbered(ds.file) /\ ds.file \in Seq(Entry)

\* In every reachable state the file is one the log may have.
LEMMA FileIsLog == ASSUME SyncInv PROVE LogState
<1>1. StreamWellFormed
  BY Zenon, WindowStream DEF SyncInv, Stored
<1>2. Log!WellFormed(ds.file)
  BY Zenon, <1>1 DEF StreamWellFormed, WellFormed, Log!WellFormed
<1>3. Log!Numbered(ds.file)
  BY Zenon, MatchNumbered, WindowNumbered DEF SyncInv
<1>4. ds.file \in Seq(Entry)
  BY Zenon DEF SyncInv, TypeOK
<1> QED
  BY Zenon, <1>2, <1>3, <1>4 DEF LogState

\* A step that only appends extends the log or leaves it alone.
LEMMA GrowthExtends ==
    ASSUME LogState, LogState', StreamGrows PROVE [Log!Extend]_(ds.file)
<1> DEFINE f == ds.file
           g == ds'.file
<1>1. f \in Seq(Entry) /\ g \in Seq(Entry)
  BY Zenon DEF LogState
<1>2. Log!WellFormed(ds'.file) /\ Log!Numbered(ds'.file)
  BY Zenon DEF LogState
<1>3. Len(f) <= Len(g) /\ SubSeq(g, 1, Len(f)) = f
  BY Zenon DEF StreamGrows
<1>4. CASE Len(f) = Len(g)
  <2>1. SubSeq(g, 1, Len(g)) = g
    BY <1>1
  <2> QED
    BY Zenon, <1>3, <1>4, <2>1
<1>5. CASE Len(f) # Len(g)
  <2>1. Len(g) > Len(f)
    BY <1>1, <1>3, <1>5
  <2> QED
    BY Zenon, <1>2, <1>3, <2>1 DEF Log!Extend
<1> QED
  BY Zenon, <1>4, <1>5

\* The sequencer implements StreamLog, for any number of blocks, transactions,
\* crashes and errors: a reader of the stream sees the blocks 1, 2, 3, ... once
\* each, in batches that open and close in order, and never anything taken back.
THEOREM SyncRefinesLog == ASSUME SyncMode PROVE Spec => RefinesStreamLog
<1>1. Init => Log!Init
  BY DEF Init, Opened, Log!Init
<1>2. SyncInv /\ [Next]_vars => SyncInv' /\ StreamGrows
  BY Zenon, NextInv
<1>3. SyncInv => LogState
  BY Zenon, FileIsLog
<1>4. LogState /\ LogState' /\ StreamGrows => [Log!Extend]_(ds.file)
  BY Zenon, GrowthExtends
<1> QED
  BY <1>1, <1>2, <1>3, <1>4, InitInv, PTL DEF Spec, RefinesStreamLog, Log!Spec

\* When a batch is closed or a block published, the numbers the server has cached
\* (highest block, batch and closed batch) are those of the file.
THEOREM SyncCacheCoherent == ASSUME SyncMode PROVE Spec => []CacheCoherent
<1>1. SyncInv => CacheCoherent
  BY Zenon DEF SyncInv, Stored, Exact, CacheCoherent
<1> QED
  BY <1>1, SyncInvariant, PTL

-----------------------------------------------------------------------------
(* State roots: SmtInv is inductive beside SyncInv, so every block's root is the   *)
(* root of the blocks up to it, through every unwind, crash and error.             *)

\* Steps that leave the chain, the SMT database, the stage's progress and the
\* top of the stream alone keep SmtInv if the thread moves to a point that asks
\* no more of them.
LEMMA RootsFrame ==
    ASSUME SmtInv, UNCHANGED <<chain, smtDb, hashed>>, Top' = Top,
           pc \notin {"injectCommit", "injectSmt", "unwindSmtDb"},
           pc' \notin {"commit", "injectCommit", "injectSmt", "unwindExec", "commitSmt", "remove"},
           pc' = "close" => pc \in {"remove", "close"},
           pc' = "publish" => pc \in {"close", "publish"},
           pc' = "unwindFinish" => pc \in {"unwindExec", "unwindFinish"}
    PROVE  SmtInv'
BY DEF SmtInv, SmtContent, RootsCorrect, SmtOf, Height

\* Steps of the thread that only move it along.
LEMMA RootsThread ==
    ASSUME SmtMode, SyncInv, SmtInv,
           \/ Begin \/ UnwindFinish \/ Finish \/ StepNoAlign \/ Remove \/ Notify \/ NextBlock
           \/ EndBatch \/ StepFails \/ CommitSmtFails \/ UnwindFails \/ StepAhead
    PROVE  SmtInv'
<1>1. ThreadStep
  BY Zenon DEF ThreadStep
<1>2. UNCHANGED <<chain, ds>> /\ Top' = Top
  BY Zenon, <1>1, ThreadFrame DEF SmtMode, Top
<1> USE RootsFrame, <1>2 DEF durable, process
<1>3. CASE Begin
  BY Zenon, <1>3 DEF Begin
<1>4. CASE UnwindFinish
  BY Zenon, <1>4 DEF UnwindFinish
<1>5. CASE Finish
  BY Zenon, <1>5 DEF Finish
<1>6. CASE StepNoAlign
  BY Zenon, <1>6 DEF StepNoAlign, StepReady
<1>7. CASE Remove
  BY Zenon, <1>7 DEF Remove
<1>8. CASE Notify
  BY Zenon, <1>8 DEF Notify
<1>9. CASE NextBlock
  BY Zenon, <1>9 DEF NextBlock
<1>10. CASE EndBatch
  BY Zenon, <1>10 DEF EndBatch
<1>11. CASE StepFails
  BY Zenon, <1>11 DEF StepFails, StepError, SmtMode, SyncMode
<1>12. CASE CommitSmtFails
  BY Zenon, <1>12 DEF CommitSmtFails
<1>13. CASE UnwindFails
  BY Zenon, <1>13 DEF UnwindFails, UnwindLabels, SmtMode
<1>14. CASE StepAhead
  BY Zenon, <1>14 DEF StepAhead
<1> QED
  BY Zenon, <1>3, <1>4, <1>5, <1>6, <1>7, <1>8, <1>9, <1>10, <1>11, <1>12, <1>13, <1>14

\* Steps of the thread that touch the stream, and a restart.
LEMMA RootsStream ==
    ASSUME SmtMode, SyncInv, SmtInv, Spawn \/ StepAlign \/ Close \/ Crash
    PROVE  SmtInv'
<1> USE RootsFrame DEF durable, process
<1>1. SyncMode
  BY Zenon DEF SmtMode
<1>2. CASE Spawn
  <2>1. ds' = CacheBatch(ds) /\ pc = "spawn" /\ pc' \in {"begin", "step"}
          /\ UNCHANGED <<chain, smtDb, hashed>>
    BY Zenon, <1>2 DEF SyncInv, Quiet, Spawn
  <2>2. Top' = Top
    BY Zenon, <2>1, ExactCaches, LeastNat DEF SyncInv, Stored, Top
  <2> QED
    BY Zenon, <2>1, <2>2
<1>3. CASE StepAlign
  BY Zenon, <1>1, <1>3, StepAlignInv, LeastNat DEF StepAlign, StepReady
<1>4. CASE Close
  BY Zenon, <1>1, <1>4, CloseInv, LeastNat DEF Close
<1>5. CASE Crash
  <2>1. Top' = Top
    BY Zenon, <1>5 DEF Crash, Restart, Opened, Top
  <2> QED
    BY Zenon, <1>5, <2>1 DEF Crash, Restart, SmtMode, SyncMode
<1> QED
  BY Zenon, <1>2, <1>3, <1>4, <1>5

\* Publishing makes the stream's tree the chain's.
LEMMA RootsPublish == ASSUME SmtMode, SyncInv, SmtInv, Publish PROVE SmtInv'
<1> USE DEF durable, process
<1>1. Top' = Height /\ UNCHANGED <<chain, smtDb, hashed, blk>> /\ pc = "publish" /\ pc' = "notify"
  BY Zenon, PublishInv, LeastNat DEF Publish, SmtMode
<1>2. smtDb.content = SmtOf(Height)
  BY Zenon, <1>1 DEF SmtInv, SmtContent
<1> QED
  BY <1>1, <1>2 DEF SmtInv, SmtContent, RootsCorrect, SmtOf, Height

\* The pool's flush and stuttering change nothing SmtInv is about.
LEMMA RootsSame ==
    ASSUME SmtInv, UNCHANGED <<chain, smtDb, hashed, ds, blk, pc>> PROVE SmtInv'
BY DEF SmtInv, SmtContent, RootsCorrect, SmtOf, Height, Top

-----------------------------------------------------------------------------
\* A block is built on a tree that is the chain's.
LEMMA RootsBuild == ASSUME SmtMode, SyncInv, SmtInv, Build PROVE SmtInv'
<1> USE DEF durable
<1>1. pc = "build" /\ pc' = "commit" /\ UNCHANGED <<chain, ds, smtDb, hashed>>
  BY Zenon DEF Build
<1>2. Height = Top /\ longLived = {}
  BY Zenon, <1>1 DEF SyncInv, Distance, Quiet
<1>3. Smt = SmtOf(Height)
  BY Zenon, <1>1, <1>2 DEF SmtInv, SmtContent, Smt
<1>4. blk'.root = SmtOf(Height) \cup {<<Height + 1, blk'.tx>>}
  BY <1>3 DEF Build, RootWith
<1> QED
  BY <1>1, <1>4 DEF SmtInv, SmtContent, RootsCorrect, SmtOf, Height, Top

\* One more block on the chain extends the chain's tree by that block.
LEMMA SmtOfAppend ==
    ASSUME TypeOK, chain' = Append(chain, blk)
    PROVE  /\ Height \in Nat /\ Height' = Height + 1 /\ chain'[Height + 1] = blk
           /\ \A n \in 1 .. Height : chain'[n] = chain[n]
           /\ \A n \in 0 .. Height : {<<i, chain'[i].tx>> : i \in 1 .. n} = SmtOf(n)
           /\ {<<i, chain'[i].tx>> : i \in 1 .. Height'} = SmtOf(Height) \cup {<<Height + 1, blk.tx>>}
<1>1. /\ Height \in Nat /\ Height' = Height + 1 /\ chain'[Height + 1] = blk
      /\ \A n \in 1 .. Height : chain'[n] = chain[n]
  BY AppendFacts, ChainType DEF TypeOK, Height
<1>2. \A n \in 0 .. Height : {<<i, chain'[i].tx>> : i \in 1 .. n} = SmtOf(n)
  <2> SUFFICES ASSUME NEW n \in 0 .. Height
               PROVE  {<<i, chain'[i].tx>> : i \in 1 .. n} = {<<i, chain[i].tx>> : i \in 1 .. n}
    BY Zenon DEF SmtOf
  <2>1. \A i \in 1 .. n : i \in 1 .. Height
    BY <1>1
  <2>2. \A i \in 1 .. n : chain'[i] = chain[i]
    BY Zenon, <1>1, <2>1
  <2> QED
    BY Zenon, <2>2
<1>3. {<<i, chain'[i].tx>> : i \in 1 .. Height'} = SmtOf(Height) \cup {<<Height + 1, blk.tx>>}
  <2>1. \A i : i \in 1 .. Height' <=> i \in 1 .. Height \/ i = Height + 1
    BY <1>1
  <2> QED
    BY Zenon, <1>1, <2>1 DEF SmtOf
<1> QED
  BY Zenon, <1>1, <1>2, <1>3

\* Committing a block to the chain: its root is the root of the longer chain.
LEMMA RootsCommit == ASSUME SmtMode, SyncInv, SmtInv, Commit PROVE SmtInv'
<1> USE DEF process
<1>1. /\ chain' = Append(chain, blk) /\ hashed' = Height + 1
      /\ UNCHANGED <<smtDb, ds, blk>> /\ TypeOK /\ Top' = Top
      /\ blk.root = SmtOf(Height) \cup {<<Height + 1, blk.tx>>}
  BY Zenon DEF Commit, SyncInv, SmtInv, Top
<1>2. /\ Height \in Nat /\ Height' = Height + 1 /\ chain'[Height + 1] = blk
      /\ \A n \in 1 .. Height : chain'[n] = chain[n]
      /\ \A n \in 0 .. Height : SmtOf(n)' = SmtOf(n)
      /\ SmtOf(Height)' = SmtOf(Height) \cup {<<Height + 1, blk.tx>>}
  <2>1. /\ Height \in Nat /\ Height' = Height + 1 /\ chain'[Height + 1] = blk
        /\ \A n \in 1 .. Height : chain'[n] = chain[n]
        /\ \A n \in 0 .. Height : {<<i, chain'[i].tx>> : i \in 1 .. n} = SmtOf(n)
        /\ {<<i, chain'[i].tx>> : i \in 1 .. Height'}
              = SmtOf(Height) \cup {<<Height + 1, blk.tx>>}
    BY Zenon, <1>1, SmtOfAppend
  <2> QED
    BY Zenon, <2>1 DEF SmtOf
<1>3. RootsCorrect'
  <2> SUFFICES ASSUME NEW n \in 1 .. Height' PROVE chain'[n].root = SmtOf(n)'
    BY Zenon DEF RootsCorrect, SmtOf
  <2>1. CASE n = Height + 1
    BY Zenon, <1>1, <1>2, <2>1
  <2>2. CASE n \in 1 .. Height
    BY <1>2, <2>2 DEF SmtInv, RootsCorrect
  <2> QED
    BY <1>2, <2>1, <2>2
<1>4. CASE pc = "commit"
  <2>1. pc' = "commitSmt" /\ Height = Top /\ smtDb.content = SmtOf(Top)
    BY Zenon, <1>4 DEF Commit, SmtMode, SyncMode, SyncInv, Distance, SmtInv, SmtContent
  <2>2. smtDb'.content = SmtOf(Top)' /\ hashed' = Height' /\ ~ (hashed' <= Top')
    BY <1>1, <1>2, <2>1
  <2> QED
    BY Zenon, <1>3, <2>1, <2>2 DEF SmtInv, SmtContent
<1>5. CASE pc = "injectCommit"
  <2>1. pc' = "injectSmt" /\ Height' > 0 /\ blk' = chain'[Height']
    BY <1>1, <1>2, <1>5 DEF Commit, SmtMode, SyncMode
  <2> QED
    BY Zenon, <1>3, <2>1 DEF SmtInv, SmtContent
<1> QED
  BY Zenon, <1>4, <1>5 DEF Commit

\* Committing the SMT database brings it level with the chain.
LEMMA RootsCommitSmt == ASSUME SmtMode, SyncInv, SmtInv, CommitSmt PROVE SmtInv'
<1> USE DEF process
<1>1. /\ pc \in {"commitSmt", "injectSmt"}
      /\ pc' = IF pc = "commitSmt" THEN "remove" ELSE "injected"
      /\ smtDb' = [content |-> blk.root, height |-> Height]
      /\ UNCHANGED <<chain, hashed, ds, blk>> /\ Top' = Top /\ Height' = Height
      /\ TypeOK /\ Distance /\ InHand
  BY Zenon DEF CommitSmt, SyncInv, Top, Height
<1>2. Top \in Nat /\ Height \in Nat /\ Height > 0 /\ blk = chain[Height]
  <2>1. Top \in Nat /\ Height \in Nat
    BY Zenon, <1>1, HighestType, ChainType, LeastNat DEF TypeOK, Top
  <2>2. CASE pc = "commitSmt"
    BY <1>1, <2>1, <2>2 DEF InHand
  <2>3. CASE pc = "injectSmt"
    BY Zenon, <1>1, <2>1, <2>3 DEF SmtInv, SmtContent
  <2> QED
    BY Zenon, <1>1, <2>2, <2>3
<1>3. smtDb'.content = SmtOf(Height)
  BY <1>1, <1>2 DEF SmtInv, RootsCorrect
<1>4. SmtOf(Height)' = SmtOf(Height) /\ SmtOf(Top)' = SmtOf(Top) /\ RootsCorrect'
  BY Zenon, <1>1 DEF SmtOf, SmtInv, RootsCorrect
<1>5. CASE pc = "commitSmt"
  <2>1. hashed = Height /\ Height = Top + 1
    BY Zenon, <1>1, <1>5 DEF SmtInv, SmtContent, Distance
  <2> QED
    BY <1>1, <1>2, <1>3, <1>4, <1>5, <2>1 DEF SmtInv, SmtContent
<1>6. CASE pc = "injectSmt"
  <2>1. Height = Top
    BY Zenon, <1>1, <1>6 DEF Distance
  <2> QED
    BY Zenon, <1>1, <1>3, <1>4, <1>6, <2>1 DEF SmtInv, SmtContent
<1> QED
  BY Zenon, <1>1, <1>5, <1>6

-----------------------------------------------------------------------------
\* Reversing the blocks the stream lacks gives the stream's tree, whether or
\* not the SMT database had them.
LEMMA UnwoundIsStream ==
    ASSUME TypeOK, Distance, Quiet, SmtContent, unwindTo = Top,
           pc \notin {"injectCommit", "injectSmt"}
    PROVE  Unwound = SmtOf(Top)
<1> DEFINE Gone == {<<n, chain[n].tx>> : n \in (Top + 1) .. Height}
<1>1. Top \in Nat /\ Height \in Nat /\ Top <= Height
  BY HighestType, ChainType, LeastNat DEF TypeOK, Top, Distance
<1>2. SmtOf(Height) \ Gone = SmtOf(Top)
  <2>1. \A i : i \in 1 .. Height <=> i \in 1 .. Top \/ i \in (Top + 1) .. Height
    BY <1>1
  <2>2. \A i, j : i \in 1 .. Top /\ j \in (Top + 1) .. Height => i # j
    BY <1>1
  <2> QED
    BY <2>1, <2>2 DEF SmtOf
<1>3. SmtOf(Top) \ Gone = SmtOf(Top)
  <2>1. \A i, j : i \in 1 .. Top /\ j \in (Top + 1) .. Height => i # j
    BY <1>1
  <2> QED
    BY <2>1 DEF SmtOf
<1>4. Unwound = smtDb.content \ Gone
  BY Zenon DEF Unwound, Smt, Quiet
<1> HIDE DEF Gone
<1> QED
  BY Zenon, <1>2, <1>3, <1>4 DEF SmtContent

\* The unwind of the SMT: checked, then committed.
LEMMA RootsUnwindSmt ==
    ASSUME SmtMode, SyncInv, SmtInv, UnwindSmt \/ UnwindSmtDb PROVE SmtInv'
<1> USE DEF process
<1>1. /\ pc \in {"unwindSmt", "unwindSmtDb"} /\ unwindTo = Top
      /\ TypeOK /\ Distance /\ Quiet /\ SmtContent /\ UNCHANGED <<chain, ds>>
  BY Zenon DEF UnwindSmt, UnwindSmtDb, SyncInv, SmtInv, UnwindPoint, UnwindLabels
<1>2. Unwound = SmtOf(Top)
  BY Zenon, <1>1, UnwoundIsStream
<1>3. /\ SmtOf(Top)' = SmtOf(Top) /\ SmtOf(Height)' = SmtOf(Height) /\ RootsCorrect'
      /\ Top' = Top
  BY Zenon, <1>1 DEF SmtOf, SmtInv, RootsCorrect, Top, Height
<1>4. CASE UnwindSmt
  <2>1. pc = "unwindSmt" /\ smtDb' = smtDb
    BY Zenon, <1>4 DEF UnwindSmt
  <2>2. CASE hashed <= Top
    <3>1. pc' = "unwindExec" /\ hashed' = hashed
      BY Zenon, <1>1, <1>4, <2>2 DEF UnwindSmt
    <3> QED
      BY <1>1, <1>3, <2>1, <2>2, <3>1 DEF SmtInv, SmtContent
  <2>3. CASE ~ (hashed <= Top)
    <3>1. pc' = "unwindSmtDb" \/ (pc' = "begin" /\ hashed' = hashed)
      BY Zenon, <1>1, <1>4, <2>3 DEF UnwindSmt
    <3> QED
      BY Zenon, <1>1, <1>3, <2>1, <2>3, <3>1 DEF SmtInv, SmtContent
  <2> QED
    BY Zenon, <2>2, <2>3
<1>5. CASE UnwindSmtDb
  <2>1. smtDb'.content = SmtOf(Top) /\ pc' = "unwindExec"
    BY Zenon, <1>2, <1>5 DEF UnwindSmtDb
  <2> QED
    BY Zenon, <1>3, <2>1 DEF SmtInv, SmtContent
<1> QED
  BY Zenon, <1>4, <1>5

\* Unwinding the execution shortens the chain to the stream's tree.
LEMMA RootsUnwindExec == ASSUME SmtMode, SyncInv, SmtInv, UnwindExec PROVE SmtInv'
<1>1. /\ pc = "unwindExec" /\ pc' = "unwindFinish" /\ TypeOK /\ Distance
      /\ chain' = SubSeq(chain, 1, Top) /\ UNCHANGED <<hashed, smtDb, ds, blk>>
      /\ Top' = Top
  BY Zenon DEF SyncInv, UnwindExec, UnwindPoint, UnwindLabels, Top
<1>2. Top \in Nat /\ Height \in Nat /\ Top <= Height /\ chain \in Seq(Block) /\ Height = Len(chain)
  BY <1>1, HighestType, ChainType, LeastNat DEF TypeOK, Top, Distance, Height
<1>3. Height' = Top /\ \A n \in 1 .. Top : chain'[n] = chain[n]
  BY <1>1, <1>2, PrefixFacts DEF Height
<1>4. \A n \in 0 .. Top : SmtOf(n)' = SmtOf(n)
  <2> SUFFICES ASSUME NEW n \in 0 .. Top
               PROVE  {<<i, chain'[i].tx>> : i \in 1 .. n} = {<<i, chain[i].tx>> : i \in 1 .. n}
    BY Zenon DEF SmtOf
  <2>1. \A i \in 1 .. n : chain'[i] = chain[i]
    BY <1>2, <1>3
  <2> QED
    BY Zenon, <2>1
<1>5. RootsCorrect'
  <2> SUFFICES ASSUME NEW n \in 1 .. Top PROVE chain'[n].root = SmtOf(n)'
    BY Zenon, <1>3 DEF RootsCorrect, SmtOf
  <2> QED
    BY <1>2, <1>3, <1>4 DEF SmtInv, RootsCorrect
<1>6. smtDb'.content = SmtOf(Top)'
  BY <1>1, <1>2, <1>4 DEF SmtInv, SmtContent
<1> QED
  BY Zenon, <1>1, <1>5, <1>6 DEF SmtInv, SmtContent

\* The injected batch is built on an empty tree.
LEMMA RootsInjected == ASSUME SmtMode, SyncInv, SmtInv, StepInjected PROVE SmtInv'
<1> USE DEF durable
<1>1. /\ pc = "step" /\ pc' = "injectCommit" /\ Height = 0 /\ UNCHANGED <<chain, smtDb, hashed>>
      /\ blk' = [batch |-> 1, tx |-> Injected, root |-> RootWith(1, Injected)]
      /\ TypeOK /\ Distance /\ Quiet
  BY Zenon DEF StepInjected, StepReady, SyncInv
<1>2. Top \in Nat /\ Top <= 0
  BY <1>1, HighestType, LeastNat DEF TypeOK, Top, Distance
<1>3. SmtOf(0) = {} /\ smtDb.content = {}
  <2>1. SmtOf(0) = {}
    BY DEF SmtOf
  <2> QED
    BY <1>1, <1>2, <2>1 DEF SmtInv, SmtContent
<1>4. blk'.root = {<<1, Injected>>} /\ blk'.tx = Injected
  BY Zenon, <1>1, <1>3 DEF RootWith, Smt, Quiet
<1>5. Height' = 0 /\ RootsCorrect' /\ SmtOf(Height)' = {}
  BY <1>1 DEF Height, RootsCorrect, SmtOf
<1> QED
  BY <1>1, <1>3, <1>4, <1>5 DEF SmtInv, SmtContent

-----------------------------------------------------------------------------
\* Both invariants hold in the initial state.
LEMMA RootsInit == Init => SmtInv
<1> SUFFICES ASSUME Init PROVE SmtInv
  OBVIOUS
<1>1. Height = 0 /\ smtDb.content = {} /\ pc = "begin" /\ ds.file = <<>>
  BY Zenon DEF Init, Height, Opened
<1>2. Top = 0
  BY Zenon, <1>1, HighestOfEmpty, LeastNat DEF Top
<1>3. SmtOf(0) = {}
  BY DEF SmtOf
<1> QED
  BY <1>1, <1>2, <1>3 DEF SmtInv, SmtContent, RootsCorrect

\* Every step keeps SmtInv.
LEMMA RootsNext == ASSUME SmtMode, SyncInv, SmtInv, [Next]_vars PROVE SmtInv'
<1>1. CASE \/ Begin \/ UnwindFinish \/ Finish \/ StepNoAlign \/ Remove \/ Notify \/ NextBlock
           \/ EndBatch \/ StepFails \/ CommitSmtFails \/ UnwindFails \/ StepAhead
  BY Zenon, <1>1, RootsThread
<1>2. CASE Spawn \/ StepAlign \/ Close \/ Crash
  BY Zenon, <1>2, RootsStream
<1>3. CASE Publish
  BY Zenon, <1>3, RootsPublish
<1>4. CASE FlushPool \/ Full \/ UNCHANGED vars
  BY Zenon, <1>4, RootsSame DEF FlushPool, Full, vars, durable, process
<1>5. CASE Build
  BY Zenon, <1>5, RootsBuild
<1>6. CASE Commit
  BY Zenon, <1>6, RootsCommit
<1>7. CASE CommitSmt
  BY Zenon, <1>7, RootsCommitSmt
<1>8. CASE UnwindSmt \/ UnwindSmtDb
  BY Zenon, <1>8, RootsUnwindSmt
<1>9. CASE UnwindExec
  BY Zenon, <1>9, RootsUnwindExec
<1>10. CASE StepInjected
  BY Zenon, <1>10, RootsInjected
<1>11. SyncMode
  BY Zenon DEF SmtMode
<1> QED
  BY Zenon, <1>1, <1>2, <1>3, <1>4, <1>5, <1>6, <1>7, <1>8, <1>9, <1>10, <1>11, NeverAsync
  DEF Next, Sequence

\* SmtInv holds in every reachable state.
THEOREM SmtInvariant == ASSUME SmtMode PROVE Spec => []SmtInv
<1>1. SyncMode
  BY Zenon DEF SmtMode
<1>2. SyncInv /\ SmtInv /\ [Next]_vars => SyncInv' /\ SmtInv'
  BY Zenon, <1>1, NextInv, RootsNext
<1> QED
  BY <1>2, InitInv, RootsInit, PTL DEF Spec

\* The state root of every block on the chain is the root of the blocks up to
\* it, however often the SMT database and the chain were unwound in between.
THEOREM SyncRoots == ASSUME SmtMode PROVE Spec => []RootsCorrect
<1>1. SmtInv => RootsCorrect
  BY Zenon DEF SmtInv
<1> QED
  BY <1>1, SmtInvariant, PTL

\* Whenever a block is about to be built the SMT is the one of the chain.
THEOREM SyncSmtAligned == ASSUME SmtMode PROVE Spec => []SmtAligned
<1>1. SyncInv /\ SmtInv => SmtAligned
  BY Zenon DEF SyncInv, SmtInv, SmtContent, SmtAligned, Smt, Quiet, Distance
<1>2. SyncMode
  BY Zenon DEF SmtMode
<1> QED
  BY <1>1, <1>2, SyncInvariant, SmtInvariant, PTL

=============================================================================
