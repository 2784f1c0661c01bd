---------------------------- MODULE SequencerInv ----------------------------
(***************************************************************************)
(* The inductive invariant of the sequencer in sync-commit mode: how far   *)
(* the chain, the SMT database and the stream may be apart at every point  *)
(* of the stage loop.                                                      *)
(***************************************************************************)
EXTENDS Sequencer

\* Sync commit, no operator-driven resequencing, and no fault between writing the
\* injected batch to the stream and committing it to both databases.
SyncMode ==
    /\ ~AsyncCommit /\ ~OperatorFlag
    /\ {"injectCommit", "injectSmt"} \cap (CrashAt \cup FailAt) = {}

\* What the file says, whatever the server has cached.
Top == HighestBlockInFile(ds.file)
Open == HighestBatchInFile(ds.file)
Closed == HighestClosedInFile(ds.file)
LastEntry == ds.file[Len(ds.file)]

\* The step StreamAppendOnly allows.
StreamGrows ==
    /\ Len(ds.file) <= Len(ds'.file)
    /\ SubSeq(ds'.file, 1, Len(ds.file)) = ds.file

\* Nothing of the async mode ever happens.
Quiet ==
    /\ job = <<>> /\ reseqFlag = FALSE /\ smtState # "pending"
    /\ longLived = {} /\ queue = <<>>

\* What the server has cached is what its file says.
Exact(d) ==
    /\ d \in [file : Seq(Entry), block : Nat \cup {Nil}, batch : Nat \cup {Nil},
              closed : Nat \cup {Nil}]
    /\ d.block \in {Nil, HighestBlockInFile(d.file)}
    /\ d.batch \in {Nil, HighestBatchInFile(d.file)}
    /\ d.closed \in {Nil, HighestClosedInFile(d.file)}

\* The chain is level with the stream or one block ahead of it, and the SMT
\* database has every block of the stream.
Distance ==
    /\ Height \in Top .. (Top + 1)
    /\ Height > 0 => Top > 0
    /\ pc \in {"build", "commit", "notify", "more", "injected", "injectSmt", "unwindFinish"}
         => Height = Top
    /\ pc \in {"commitSmt", "remove", "close", "publish"} => Height = Top + 1
    /\ pc \in {"begin", "spawn", "step", "finish"} /\ ~checkDs => Height = Top
    /\ pc # "injectSmt" => Top <= smtDb.height
    /\ pc \in {"remove", "close", "publish"} => Height <= smtDb.height

\* An unwind, pending or under way, is to the top of the stream.
UnwindPoint ==
    /\ unwindTo # Nil => pc \in UnwindLabels \cup {"begin"} /\ unwindTo = Top /\ checkDs
    /\ pc \in UnwindLabels => unwindTo # Nil

\* The block in hand continues the last batch, if the stream has it open, or
\* starts the next one.
InHand ==
    /\ pc \in {"build", "commit"} =>
         /\ Height > 0
         /\ blk.batch \in {LastBatch, LastBatch + 1}
         /\ blk.batch = LastBatch => LastEntry.type # "end"
    /\ pc \in {"commitSmt", "remove", "close", "publish"} =>
         /\ Height > 1 /\ blk = chain[Height]
         /\ blk.batch \in {chain[Height - 1].batch, chain[Height - 1].batch + 1}
         /\ blk.batch = chain[Height - 1].batch => LastEntry.type # "end"
    /\ pc = "publish" /\ blk.batch # chain[Height - 1].batch => LastEntry.type = "end"
    /\ pc \in {"notify", "more"} =>
         Height > 0 /\ blk = chain[Height] /\ LastEntry.type # "end"

\* The end of the stream is the end of its last batch or the last block in it.
StreamEnd ==
    /\ Top = 0 => ds.file = <<>> /\ Open = 0
    /\ Top > 0 =>
         /\ ds.file # <<>>
         /\ LastEntry.batch = Open /\ Open = chain[Top].batch
         /\ LastEntry.type = "end" <=> Closed = Open
         /\ LastEntry.type # "end" => LastEntry.type = "block"
         /\ LastEntry.root = chain[Top].root

\* Batch numbers never go down along the chain.
BatchesGrow == \A m, n \in 1 .. Height : m <= n => chain[m].batch <= chain[n].batch

\* The state between writing the injected batch and committing it.
InjectWindow ==
    /\ chain = <<>> /\ blk.batch = 1 /\ unwindTo = Nil
    /\ ds = [file |-> <<BatchStart(1), L2Block(1, blk), BatchEnd(1, blk.root)>>,
             block |-> 1, batch |-> 1, closed |-> 1]
    /\ published \subseteq {<<1, blk.tx, blk.root>>}

\* What relates the chain to the stream, whatever the thread is doing.
Stored ==
    /\ Exact(ds) /\ StreamEnd /\ BatchesGrow
    /\ StreamWellFormed /\ BatchEndRoot /\ StreamMatchesChain /\ PublishedOnChain
    /\ \A p \in published : p[1] <= Top

SyncInv ==
    /\ TypeOK /\ Quiet
    /\ pc = "injectCommit" => InjectWindow
    /\ pc # "injectCommit" => Stored /\ Distance /\ UnwindPoint /\ InHand

-----------------------------------------------------------------------------
\* ... and no fault between the two commits of the unwind of the SMT.
SmtMode == SyncMode /\ "unwindSmtDb" \notin CrashAt \cup FailAt

\* What the SMT database holds: the tree of the stream's blocks, or of the
\* chain's.
SmtContent ==
    /\ pc \notin {"injectCommit", "injectSmt"} => smtDb.content \in {SmtOf(Top), SmtOf(Height)}
    /\ pc \in {"remove", "close", "publish"} => smtDb.content = SmtOf(Height)
    /\ pc \in {"commitSmt", "remove", "close", "publish"} => hashed = Height
    /\ pc \in {"unwindExec", "unwindFinish"} => smtDb.content = SmtOf(Top)
    /\ pc \notin {"unwindSmtDb", "injectCommit", "injectSmt"} /\ hashed <= Top
         => smtDb.content = SmtOf(Top)
    /\ pc = "injectCommit" => smtDb.content = {}
    /\ pc = "injectSmt" => Height > 0 /\ blk = chain[Height]

SmtInv ==
    /\ RootsCorrect /\ SmtContent
    /\ pc \in {"commit", "injectCommit"} => blk.root = SmtOf(Height) \cup {<<Height + 1, blk.tx>>}
=============================================================================
