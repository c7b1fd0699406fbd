------------------------ MODULE UnboundQueueHistory ------------------------
(* UnboundQueue with history variables, from which the contents of the queue  *)
(* are read off: the nodes that were ever linked, and where first and divider *)
(* are among them.  They follow the steps of UnboundQueue and never guide     *)
(* them.                                                                      *)
EXTENDS UnboundQueue

VARIABLES history, firstAt, dividerAt

historyVars == <<history, firstAt, dividerAt>>
allVars == <<vars, historyVars>>

HInit == Init /\ history = <<first>> /\ firstAt = 1 /\ dividerAt = 1

HNext ==
  \/ \E record \in Record, n \in Node : Link(record, n) /\ UNCHANGED historyVars
  \/ Publish /\ history' = Append(history, producer.node) /\ UNCHANGED <<firstAt, dividerAt>>
  \/ (DeleteConsumed \/ Destroy) /\ firstAt' = firstAt + 1 /\ UNCHANGED <<history, dividerAt>>
  \/ (EnqueueReturns \/ FindNonEmpty \/ Leave \/ ReadNext \/ StartDestroy) /\ UNCHANGED historyVars
  \/ Release /\ dividerAt' = dividerAt + 1 /\ UNCHANGED <<history, firstAt>>

HSpec == HInit /\ [][HNext]_allVars

---------------------------------------------------------------------------
\* The records of the nodes behind divider.
contents == [i \in 1 .. Len(history) - dividerAt |-> value[history[dividerAt + i]]]

Fifo == INSTANCE Fifo WITH queue <- contents
\* The queue is first in, first out, and loses and repeats no record.
IsFifo == Fifo!Spec

---------------------------------------------------------------------------
(* The invariant the proofs rest on: the nodes from first on are those of    *)
(* history from firstAt on, all different, linked in this order and exactly  *)
(* the allocated ones.                                                       *)

Publishing == producer.at = "publish"
Live == firstAt .. Len(history)
LiveNodes == {history[i] : i \in Live}

Positions ==
  /\ history \in Seq(Node)
  /\ firstAt \in Nat \ {0} /\ firstAt <= Len(history) + 1
  /\ dividerAt \in 1 .. Len(history)
  /\ producer.at # "destroy" => firstAt <= dividerAt

Ends ==
  /\ first = IF firstAt <= Len(history) THEN history[firstAt] ELSE NULL
  /\ divider = history[dividerAt]
  /\ last = history[Len(history)]

Links ==
  /\ \A i \in Live : i < Len(history) => next[history[i]] = history[i + 1]
  /\ firstAt <= Len(history) => next[last] = IF Publishing THEN producer.node ELSE NULL
  /\ Publishing => next[producer.node] = NULL

Distinct == \A i, j \in Live : history[i] = history[j] => i = j

Memory ==
  /\ allocated = LiveNodes \cup (IF Publishing THEN {producer.node} ELSE {})
  /\ Publishing => producer.node \notin LiveNodes

Reading ==
  /\ consumer.at # "idle" => dividerAt < Len(history) /\ producer.at # "destroy"
  /\ consumer.at = "read" => consumer.node = history[dividerAt + 1]

HInv == Positions /\ Ends /\ Links /\ Distinct /\ Memory /\ Reading
=============================================================================
