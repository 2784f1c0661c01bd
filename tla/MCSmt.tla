------------------------------- MODULE MCSmt -------------------------------
(* An instance of the sparse Merkle tree for TLC. *)
EXTENDS SmtCreate

\* Two keys that part at their second bit and one that parts from them at the first: a
\* deletion may leave a leaf to move up one level, two levels, or a branch, which stays.
ThreeKeys == {<<0, 0, 10>>, <<0, 1, 11>>, <<1, 0, 12>>}
=============================================================================
