----------------------------- MODULE MCSmtCache -----------------------------
(* Instances of SmtCache for TLC. *)
EXTENDS SmtCache

CONSTANT k1

Keys1 == {k1}

\* The failed step, handled by the reset of the cache, and the failed write of an image.
LimboOrFlush == {"limbo", "flush"}
CommitFailure == {"commit"}
=============================================================================
