---------------------------- MODULE SequencerLog ----------------------------
(* The promise of the sequencer's data stream to its readers. *)
EXTENDS Sequencer

\* The sequencer's file implements the log its readers are promised: through every
\* crash, error, alignment and unwind each step appends whole blocks with the next
\* numbers, or leaves the file alone.
Log == INSTANCE StreamLog WITH log <- ds.file
RefinesStreamLog == Log!Spec
=============================================================================
