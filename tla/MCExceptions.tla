---------------------------- MODULE MCExceptions ----------------------------
(* Two tasks and two counters: a store can meet the other task's monitor,   *)
(* and a monitor armed for the other address.                               *)
EXTENDS Exceptions
=============================================================================
