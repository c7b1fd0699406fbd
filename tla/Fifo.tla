-------------------------------- MODULE Fifo --------------------------------
(* What UnboundQueue promises: records are taken in the order in which they   *)
(* were queued, each once, and queueing never waits.                          *)
EXTENDS Sequences

CONSTANT Record
VARIABLES queue, taken  \* taken is the record the last Dequeue returned

Enqueue == \E record \in Record : queue' = Append(queue, record) /\ UNCHANGED taken

Dequeue ==
  /\ queue # <<>>
  /\ taken' = Head(queue) /\ queue' = Tail(queue)

Init == queue = <<>>
Spec == Init /\ [][Enqueue \/ Dequeue]_<<queue, taken>>
=============================================================================
