---------------------------- MODULE CommandQueue ----------------------------
(* CommandMessageQueue (debug.h, debug.cc): a ring of commands that doubles   *)
(* when one slot is left.  LockingCommandMessageQueue holds its lock over     *)
(* every operation, so that each operator is one step of its caller.          *)
EXTENDS Naturals, Sequences

CONSTANT kQueueInitialSize

ASSUME SizeAssumption == kQueueInitialSize \in Nat \ {0, 1}

NoCommand == [kind |-> "none", id |-> 0]

EmptyRing(size) ==
  [messages |-> [i \in 0 .. size - 1 |-> NoCommand], start |-> 0, end |-> 0, size |-> size]

IsEmpty(q) == q.start = q.end
Used(q) == (q.end + q.size - q.start) % q.size
Contents(q) == [i \in 1 .. Used(q) |-> q.messages[(q.start + i - 1) % q.size]]

First(q) == q.messages[q.start]
AfterGet(q) == [q EXCEPT !.start = (@ + 1) % q.size]

Full(q) == (q.end + 1) % q.size = q.start

\* Every message is taken from the ring and put into one twice as long.
FaultyExpand(q) ==
  [messages |-> [i \in 0 .. 2 * q.size - 1 |->
                   IF i < Used(q) THEN Contents(q)[i + 1] ELSE NoCommand],
   start |-> q.end, end |-> q.end, size |-> 2 * q.size]
Expand(q) ==
  [messages |-> [i \in 0 .. 2 * q.size - 1 |->
                   IF i < Used(q) THEN Contents(q)[i + 1] ELSE NoCommand],
   start |-> 0, end |-> Used(q), size |-> 2 * q.size]

Put(q, message) ==
  LET room == IF Full(q) THEN Expand(q) ELSE q
  IN  [room EXCEPT !.messages[room.end] = message, !.end = (@ + 1) % room.size]
=============================================================================
