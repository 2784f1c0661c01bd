----------------------------- MODULE StreamLog -----------------------------
(***************************************************************************)
(* What the data stream promises its readers: a log that only grows, whose *)
(* batches open and close in order and whose blocks are numbered 1, 2, 3,  *)
(* ... without a gap or a repetition.  A reader that remembers how far it  *)
(* has read never has to go back.  The sequencer implements it with        *)
(* log <- ds.file (SequencerLog!RefinesStreamLog).                            *)
(***************************************************************************)
EXTENDS DataStream

VARIABLE log

IsBlock(l, i) == i \in 1 .. Len(l) /\ l[i].type = "block"

\* The blocks of a log are numbered in order and from 1.
Numbered(l) ==
    /\ \A i, j \in 1 .. Len(l) : IsBlock(l, i) /\ IsBlock(l, j) /\ i < j => l[i].num < l[j].num
    /\ \A i \in 1 .. Len(l) : IsBlock(l, i) =>
        \A n \in 1 .. l[i].num : \E j \in 1 .. i : IsBlock(l, j) /\ l[j].num = n

Init == log = <<>>

\* Entries are appended, a whole number of blocks and batch marks at a time.
Extend ==
    /\ Len(log') > Len(log)
    /\ SubSeq(log', 1, Len(log)) = log
    /\ WellFormed(log')
    /\ Numbered(log')

Spec == Init /\ [][Extend]_log
=============================================================================
