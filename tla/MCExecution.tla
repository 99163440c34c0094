---------------------------- MODULE MCExecution ----------------------------
(* Small instances of Execution.  Price 1..3 leaves room for a price below  *)
(* the floor, at it and above it.                                           *)
EXTENDS Execution

MCPrice == 1..3
=============================================================================
