----------------------------- MODULE MCRpcNode -----------------------------
(* An instance of RpcNode for TLC. *)
EXTENDS RpcNode

NoQuirk == {}

\* Crashes between the commits of the stages.
AfterCommits == {"stream", "unwindBatches", "unwindFinish"}
=============================================================================
