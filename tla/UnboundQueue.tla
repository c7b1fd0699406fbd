---------------------------- MODULE UnboundQueue ----------------------------
(* The lock-free queue between one producer and one consumer thread           *)
(* (unbound-queue-inl.h).  A linked list runs from first to last; the nodes   *)
(* up to divider have been consumed.  The consumer only moves divider, and    *)
(* the producer frees the nodes before it when it queues the next record.     *)
(* A step here is one access to what the threads share; a node that has been  *)
(* freed can be allocated again.                                              *)
EXTENDS Naturals, Sequences

CONSTANTS Record,
          Node, NULL  \* the addresses of nodes; their number bounds the memory

ASSUME NodeAssumption == NULL \notin Node

VARIABLES
  next, value,           \* the fields of the node at each address
  allocated,
  first, divider, last,  \* first_ is the producer's, the others are shared
  producer,              \* where the producer thread is, and its local variable
  consumer,              \* the same of the consumer thread
  taken                  \* what the last Dequeue returned

memVars == <<next, value, allocated>>
posVars == <<first, divider, last>>
vars == <<memVars, posVars, producer, consumer, taken>>

ProducerAt(at, node) == producer' = [at |-> at, node |-> node]
ConsumerAt(at, node) == consumer' = [at |-> at, node |-> node]

Init ==
  /\ first \in Node /\ divider = first /\ last = first
  /\ allocated = {first}
  /\ next = [n \in Node |-> NULL] /\ value \in [Node -> Record]
  /\ producer = [at |-> "idle", node |-> NULL]
  /\ consumer = [at |-> "idle", node |-> NULL]
  /\ taken \in Record

---------------------------------------------------------------------------
(* Enqueue.                                                                  *)

\* The new node is linked behind last, where the consumer does not look yet.
Link(record, n) ==
  /\ producer.at = "idle"
  /\ n \notin allocated
  /\ allocated' = allocated \cup {n}
  /\ value' = [value EXCEPT ![n] = record]
  /\ next' = [next EXCEPT ![n] = NULL, ![last] = n]
  /\ ProducerAt("publish", n)
  /\ UNCHANGED <<posVars, consumer, taken>>

Publish ==
  /\ producer.at = "publish"
  /\ last' = producer.node
  /\ ProducerAt("collect", NULL)
  /\ UNCHANGED <<memVars, first, divider, consumer, taken>>

FaultyFreed == {}
Freed == {first}
DeleteFirst ==
  /\ first' = next[first]
  /\ allocated' = allocated \ Freed
  /\ UNCHANGED <<next, value, divider, last, consumer, taken>>

FaultyConsumed == first # last
Consumed == first # divider
\* Enqueue frees the nodes in front of divider, which it reads each time round.
DeleteConsumed ==
  /\ producer.at = "collect" /\ Consumed
  /\ DeleteFirst /\ UNCHANGED producer

EnqueueReturns ==
  /\ producer.at = "collect" /\ ~Consumed
  /\ ProducerAt("idle", NULL)
  /\ UNCHANGED <<memVars, posVars, consumer, taken>>

---------------------------------------------------------------------------
(* What the consumer does: it calls Peek and Dequeue only after IsEmpty.     *)

FindNonEmpty ==
  /\ consumer.at = "idle" /\ producer.at # "destroy"
  /\ divider # last
  /\ ConsumerAt("nonempty", NULL)
  /\ UNCHANGED <<memVars, posVars, producer, taken>>

\* A record that was looked at with Peek may be left for later.
Leave ==
  /\ consumer.at = "nonempty"
  /\ ConsumerAt("idle", NULL)
  /\ UNCHANGED <<memVars, posVars, producer, taken>>

NextNode == next[divider]
\* Dequeue, up to its release store.
ReadNext ==
  /\ consumer.at = "nonempty"
  /\ ConsumerAt("read", NextNode)
  /\ UNCHANGED <<memVars, posVars, producer, taken>>

FaultyRecordRead == value[divider]
RecordRead == value[consumer.node]
Release ==
  /\ consumer.at = "read"
  /\ taken' = RecordRead
  /\ divider' = consumer.node
  /\ ConsumerAt("idle", NULL)
  /\ UNCHANGED <<memVars, first, last, producer>>

---------------------------------------------------------------------------
(* The destructor runs when both threads are done with the queue.            *)

StartDestroy ==
  /\ producer.at = "idle" /\ consumer.at = "idle"
  /\ ProducerAt("destroy", NULL)
  /\ UNCHANGED <<memVars, posVars, consumer, taken>>

Destroy ==
  /\ producer.at = "destroy" /\ first # NULL
  /\ DeleteFirst /\ UNCHANGED producer

Next ==
  \/ \E record \in Record, n \in Node : Link(record, n)
  \/ Publish \/ DeleteConsumed \/ EnqueueReturns
  \/ FindNonEmpty \/ Leave \/ ReadNext \/ Release
  \/ StartDestroy \/ Destroy

Spec == Init /\ [][Next]_vars

---------------------------------------------------------------------------
(* Properties.                                                               *)

\* The variables have their types.
TypeOK ==
  /\ next \in [Node -> Node \cup {NULL}] /\ value \in [Node -> Record]
  /\ allocated \in SUBSET Node
  /\ first \in Node \cup {NULL} /\ divider \in Node /\ last \in Node
  /\ \/ producer \in [at : {"idle", "collect", "destroy"}, node : {NULL}]
     \/ producer \in [at : {"publish"}, node : Node]
  /\ \/ consumer \in [at : {"idle", "nonempty"}, node : {NULL}]
     \/ consumer \in [at : {"read"}, node : Node]
  /\ taken \in Record

\* Neither thread reads a node that has been freed, and first is freed once:
\* the consumer's check that the queue is not empty stays good although the
\* producer frees nodes meanwhile.
NoUseAfterFree ==
  /\ first \in allocated \/ (producer.at = "destroy" /\ first = NULL)
  /\ producer.at # "destroy" => {divider, last} \subseteq allocated
  /\ consumer.at = "nonempty" => NextNode \in allocated
  /\ consumer.at = "read" => consumer.node \in allocated

\* The destructor frees every node, consumed or not.
NothingLeaked == first = NULL => allocated = {}
=============================================================================
