------------------------ MODULE SamplingCircularQueue ------------------------
(* The queue the sampler writes profiling ticks to (circular-queue.cc): a     *)
(* ring of chunks of records.  The producer only advances.  The consumer      *)
(* reads a chunk once the chunk two further on has been written to, and marks *)
(* a chunk it has read by clearing the first cell of its first record.        *)
EXTENDS Integers, Sequences

CONSTANTS ChunkRecords, Chunks

ASSUME QueueAssumption ==
  /\ ChunkRecords \in Nat \ {0}
  /\ Chunks \in Nat /\ Chunks > 2

NULL == -1
Size == ChunkRecords * Chunks
Position == 0 .. Size - 1
producer_consumer_distance == 2 * ChunkRecords

\* clear has the positions of the records whose first cell is kClear;
\* enqueue_pos may point to the kEnd cell after the last record.
Queue(Record) ==
  [buffer : [Position -> Record], clear : SUBSET Position, enqueue_pos : 0 .. Size,
   dequeue_chunk_pos : Position, dequeue_chunk_poll_pos : Position,
   dequeue_pos : Position \cup {NULL}]

\* The constructor zeroes the buffer: every record is blank.
NewQueue(blank) ==
  [buffer |-> [p \in Position |-> blank], clear |-> Position, enqueue_pos |-> 0,
   dequeue_chunk_pos |-> 0, dequeue_chunk_poll_pos |-> producer_consumer_distance,
   dequeue_pos |-> NULL]

WrapPositionIfNeeded(p) == IF p = Size THEN 0 ELSE p

\* Enqueue, and the caller's writing of the record; filler is not kClear.
Enqueue(q, record) ==
  LET p == WrapPositionIfNeeded(q.enqueue_pos) IN
  [q EXCEPT !.buffer[p] = record, !.clear = @ \ {p}, !.enqueue_pos = p + 1]

\* The queue after StartDequeue, which returns its dequeue_pos.
StartDequeue(q) ==
  IF q.dequeue_pos = NULL /\ q.dequeue_chunk_poll_pos \notin q.clear
    THEN [q EXCEPT !.dequeue_pos = q.dequeue_chunk_pos] ELSE q

Advance(p) == WrapPositionIfNeeded(p + ChunkRecords)
NextChunk(q) ==
  [q EXCEPT !.dequeue_pos = NULL, !.clear = @ \cup {q.dequeue_chunk_pos},
            !.dequeue_chunk_pos = Advance(@), !.dequeue_chunk_poll_pos = Advance(@)]
FaultyFinishDequeue(q) ==
  IF q.dequeue_pos + 1 < q.dequeue_chunk_pos + ChunkRecords - 1
    THEN [q EXCEPT !.dequeue_pos = @ + 1] ELSE NextChunk(q)
FinishDequeue(q) ==
  IF q.dequeue_pos + 1 < q.dequeue_chunk_pos + ChunkRecords
    THEN [q EXCEPT !.dequeue_pos = @ + 1] ELSE NextChunk(q)

FaultyFlushResidualRecords(q) == q
FlushResidualRecords(q) == [q EXCEPT !.dequeue_chunk_poll_pos = q.dequeue_chunk_pos]
=============================================================================
