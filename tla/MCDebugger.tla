----------------------------- MODULE MCDebugger -----------------------------
(* The debugger for TLC: two clients, and a queue that grows at its second    *)
(* command.                                                                   *)
EXTENDS Debugger
=============================================================================
