--------------------------- MODULE MCUnboundQueue ---------------------------
(* A small instance of the queue, with the history variables.                 *)
EXTENDS UnboundQueueHistory

CONSTANT MaxLinked  \* bounds the number of nodes ever linked

MCNext == HNext /\ Len(history') <= MaxLinked
MCSpec == HInit /\ [][MCNext]_allVars
=============================================================================
