------------------------------ MODULE MC_Recorder ------------------------------
(***************************************************************************)
(* BNBRecorder with two symbols, over two runs.                            *)
(***************************************************************************)
EXTENDS BNBRecorder

\* A header is no update.
HeaderLine == [header |-> TRUE]

=============================================================================
