----------------------------- MODULE MCSequencer -----------------------------
(* Instances of Sequencer for TLC: where faults may strike. *)
EXTENDS SequencerLog

CONSTANTS t1, t2

Pool2 == {t1, t2}

\* The three windows in which a store is left behind for good; see the README.
UnsafeWindows == {"injectCommit", "injectSmt", "unwindSmtDb"}

EveryCrash == Labels \ UnsafeWindows
EveryFailure ==
    Labels \ (UnsafeWindows \cup {"begin", "injected", "more", "finish", "stuck"})
NoFault == {}
BeforeResequence == {"spawn"}
AnyCrash == Labels
InjectWindowOnly == {"injectCommit"}
BeforePublish == {"publish"}
=============================================================================
