-------------------------- MODULE ProfilerEventsInv --------------------------
(* The inductive invariant of ProfilerEvents: the ring as a sequence of ticks *)
(* of which the first ones have been read.                                    *)
EXTENDS ProfilerEvents

ChunkStart == {c * ChunkRecords : c \in 0 .. Chunks - 1}
TickOf(id) == [order |-> sampled[id].order, id |-> id]
VmTicks == TickIds("vm")
Starting == IF phase \in {"logging", "adding stack"} THEN 1 ELSE 0

\* The two threads' control.
ControlInv ==
  /\ numbered => phase \in {"logging", "profiling"}
  /\ sampling => phase \in {"adding stack", "profiling"}
  /\ ~running => phase \in {"joining", "joined"}
  /\ draining => ~running /\ pc # "loop"
  /\ pc = "done" => draining
  /\ profiles <= Cardinality(VmTicks) + Starting
  /\ Cardinality(VmTicks) + Starting <= MaxProfiles

\* The code events on their way to the code map.
OrdersInv ==
  /\ code_map = dequeue_order
  /\ \A i \in 1 .. Len(events_buffer) : events_buffer[i] = dequeue_order + i
  /\ dequeue_order + Len(events_buffer) + (IF numbered THEN 1 ELSE 0) = enqueue_order
  /\ \A i \in 1 .. Len(recorded) : recorded[i].map = recorded[i].order

\* The ticks that were taken.
SampledInv ==
  /\ phase = "logging" => sampled = <<>>
  /\ phase # "logging" => enqueue_order > 0
  /\ \A i \in 1 .. Len(sampled) : sampled[i].order > 0 /\ sampled[i].order <= enqueue_order
  /\ \A i, j \in 1 .. Len(sampled) : i <= j => sampled[i].order <= sampled[j].order

\* The ticks of the VM, queued or recorded.
VmInv ==
  /\ \A i \in 1 .. Len(ticks_from_vm_buffer) :
       /\ ticks_from_vm_buffer[i].id \in VmTicks
       /\ ticks_from_vm_buffer[i] = TickOf(ticks_from_vm_buffer[i].id)
  /\ \A i, j \in 1 .. Len(ticks_from_vm_buffer) :
       i < j => ticks_from_vm_buffer[i].id < ticks_from_vm_buffer[j].id
  /\ \A i \in 1 .. Len(recorded) : recorded[i].id \in 0 .. Len(sampled)
  /\ \A i \in 1 .. Len(recorded) : ~FromSampler(i) =>
       /\ \A j \in 1 .. Len(ticks_from_vm_buffer) : recorded[i].id < ticks_from_vm_buffer[j].id
       /\ \A j \in 1 .. Len(recorded) : recorded[j].id = recorded[i].id => j = i
  /\ \A id \in VmTicks :
       Recorded(id) \/ \E i \in 1 .. Len(ticks_from_vm_buffer) : ticks_from_vm_buffer[i].id = id

\* S has the sampler's n ticks in the order in which they were taken.
Taken(n, S) ==
  /\ S \in [1 .. n -> 1 .. Len(sampled)]
  /\ \A j, k \in 1 .. n : j < k => S[j] < S[k]
  /\ TickIds("sampler") = {S[k] : k \in 1 .. n}

Ticks(n, S) == [k \in 1 .. n |-> TickOf(S[k])]

\* The ring q has the last of the n records T; the sampler is on the round of
\* the ring that began with record base + 1.
Written(q, n, T, base) ==
  /\ q.enqueue_pos = n - base
  /\ base = 0 \/ (base >= Size /\ base < n)
  /\ \A k \in 1 .. n : k > base => q.buffer[k - 1 - base] = T[k]
  /\ \A k \in 1 .. n : k <= base /\ k > n - Size => q.buffer[k - 1 - base + Size] = T[k]
  /\ base = 0 => \A p \in n .. Size - 1 : q.buffer[p] = blank

\* The processor has read m records of q, is at the chunk that begins with
\* record start + 1 and on the round of the ring that began with record lap + 1.
\* Once flushed it may read what was not written.
ReadInChunk(q, flushed, n, m, lap) ==
  LET start == lap + q.dequeue_chunk_pos
  IN  /\ IF q.dequeue_pos = NULL THEN m = start
           ELSE /\ m = lap + q.dequeue_pos
                /\ start <= m /\ m < start + ChunkRecords /\ start < n
                /\ ~flushed => start + producer_consumer_distance < n
      /\ n <= start + Size /\ (~flushed => start <= n)

\* A chunk is free for the sampler until it has written to it again.
IsClear(s, q, n, lap) == n <= IF s >= q.dequeue_chunk_pos THEN lap + s ELSE lap + Size + s

ReadTo(q, flushed, n, base, m, lap) ==
  /\ {q.dequeue_chunk_pos, q.dequeue_chunk_poll_pos} \subseteq ChunkStart
  /\ lap = 0 \/ lap >= Size
  /\ ReadInChunk(q, flushed, n, m, lap)
  /\ ~flushed \/ m < n => base \in {lap, lap + Size}
  /\ IF flushed THEN q.dequeue_chunk_poll_pos = q.dequeue_chunk_pos
       ELSE q.dequeue_chunk_poll_pos - q.dequeue_chunk_pos
              \in {producer_consumer_distance, producer_consumer_distance - Size}
  /\ \A s \in ChunkStart : s \in q.clear <=> IsClear(s, q, n, lap)

\* What was read has been recorded.
RecordedTo(n, S, m) ==
  /\ Cardinality(FromRing(Len(recorded))) = m
  /\ \A i \in 1 .. Len(recorded) :
       FromSampler(i) /\ Cardinality(FromRing(i)) <= n => recorded[i].id = S[Cardinality(FromRing(i))]
  /\ \A k \in 1 .. n : k <= m => Recorded(S[k])
  /\ n <= Size => m <= n
  /\ m > 0 => dequeue_order > 0

\* Before the first profile has its first tick, nothing is processed.
NotStarted(n, m) ==
  /\ phase \in {"logging", "adding stack"} /\ profiles = 1 /\ running
  /\ n <= producer_consumer_distance /\ m = 0 /\ ticks_buffer.dequeue_pos = NULL
  /\ dequeue_order = 0 /\ recorded = <<>> /\ pc # "event"
  /\ \A i \in 1 .. Len(sampled) : sampled[i].order = enqueue_order

Ring(n, S, base, m, lap) ==
  /\ Taken(n, S) /\ RecordedTo(n, S, m)
  /\ Written(ticks_buffer, n, Ticks(n, S), base)
  /\ ReadTo(ticks_buffer, draining, n, base, m, lap)
  /\ pc = "no tick" /\ draining => n <= m
  /\ VmTicks = {} => NotStarted(n, m)

RingInv == \E n, base, m, lap \in Nat : \E S \in [1 .. n -> 1 .. Len(sampled)] :
  Ring(n, S, base, m, lap)

\* A single profile: its first tick, of the VM, is the first that is due.
ProfileInv == OneProfile =>
  /\ \A v \in VmTicks : \A id \in 1 .. Len(sampled) : sampled[v].order <= sampled[id].order
  /\ \A i \in 1 .. Len(ticks_from_vm_buffer) :
       /\ dequeue_order <= ticks_from_vm_buffer[i].order
       /\ pc \notin {"loop", "vm ticks"} => dequeue_order < ticks_from_vm_buffer[i].order
  /\ \A id \in 1 .. Len(sampled) : Recorded(id) \/
       /\ dequeue_order <= sampled[id].order
       /\ pc = "event" => dequeue_order < sampled[id].order
       /\ pc # "done"
  /\ pc = "event" => draining \/ dequeue_order < enqueue_order

IInv == TypeOK /\ ControlInv /\ OrdersInv /\ SampledInv /\ VmInv /\ RingInv /\ ProfileInv
=============================================================================
