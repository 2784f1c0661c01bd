----------------------------- MODULE MCRealtime -----------------------------
(* Instances of Realtime for TLC. *)
EXTENDS Realtime

TxsOfBlock3 == <<0, 0, 2, 0>>
=============================================================================
