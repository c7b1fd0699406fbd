--------------------------- MODULE ProfilerEvents ---------------------------
(* ProfilerEventsProcessor (cpu-profiler.cc).  The VM thread numbers and      *)
(* queues code events; ticks carry the number of the last one.  Ticks are     *)
(* taken by the SIGPROF handler, on the VM thread between any two of its      *)
(* steps, and by StartProfiling.  The processor thread merges the three       *)
(* queues without a lock, so that every tick is attributed with the code map  *)
(* of the moment it was taken.  The two unbound queues are sequences.         *)
EXTENDS SamplingCircularQueue, FiniteSets, SequencesExt

CONSTANTS MaxTicks,    \* bounds the ticks taken
          MaxEvents,   \* bounds the code events logged
          MaxProfiles  \* bounds the calls of StartProfiling

ASSUME BoundAssumption == MaxTicks \in Nat /\ MaxEvents \in Nat /\ MaxProfiles \in Nat \ {0}

VARIABLES
  ticks_buffer, ticks_from_vm_buffer, events_buffer,
  enqueue_order,
  numbered,       \* the VM thread is about to queue the event it has numbered
  phase,          \* where CpuProfiler's Start/StopCollectingProfile is
  profiles,       \* the number of profiles being collected
  sampling,       \* the sampler is active
  running,        \* running_ of the processor
  pc,             \* where Run is
  draining,       \* Run is in its second loop
  dequeue_order,
  code_map,       \* the number of code events the code map has
  sampled,        \* who took each tick, and its order
  recorded        \* what RecordTickSample got, and the code map then

vmVars == <<enqueue_order, numbered, phase, profiles, sampling, running, sampled>>
processorVars == <<pc, draining, dequeue_order, code_map, recorded>>
vars == <<ticks_buffer, ticks_from_vm_buffer, events_buffer, vmVars, processorVars>>

Tick == [order : Nat, id : Nat]
blank == [order |-> 0, id |-> 0]
Recorded(id) == \E i \in 1 .. Len(recorded) : recorded[i].id = id
TickIds(source) == {id \in 1 .. Len(sampled) : sampled[id].source = source}

Init ==
  /\ ticks_buffer = NewQueue(blank) /\ ticks_from_vm_buffer = <<>> /\ events_buffer = <<>>
  /\ enqueue_order = 0 /\ numbered = FALSE
  /\ phase = "logging" /\ profiles = 1 /\ sampling = FALSE /\ running = TRUE
  /\ pc = "loop" /\ draining = FALSE /\ dequeue_order = 0 /\ code_map = 0
  /\ sampled = <<>> /\ recorded = <<>>

---------------------------------------------------------------------------
(* The VM thread.                                                            *)

\* StartProcessorIfNotStarted logs the code that exists; later, code is made,
\* moved and deleted.  A signal can arrive between numbering and queueing.
NumberCodeEvent ==
  /\ phase \in {"logging", "profiling"} /\ ~numbered
  /\ enqueue_order < MaxEvents
  /\ enqueue_order' = enqueue_order + 1 /\ numbered' = TRUE
  /\ UNCHANGED <<ticks_buffer, ticks_from_vm_buffer, events_buffer, phase, profiles,
                 sampling, running, sampled, processorVars>>

FaultyEventOrder == enqueue_order - 1
EventOrder == enqueue_order
QueueCodeEvent ==
  /\ numbered /\ numbered' = FALSE
  /\ events_buffer' = Append(events_buffer, EventOrder)
  /\ UNCHANGED <<ticks_buffer, ticks_from_vm_buffer, enqueue_order, phase, profiles,
                 sampling, running, sampled, processorVars>>

\* There is always some code to log.
StartSampler ==
  /\ phase = "logging" /\ ~numbered /\ enqueue_order > 0
  /\ phase' = "adding stack" /\ sampling' = TRUE
  /\ UNCHANGED <<ticks_buffer, ticks_from_vm_buffer, events_buffer, enqueue_order, numbered,
                 profiles, running, sampled, processorVars>>

\* StartProfiling with a processor already there.
StartProfiling ==
  /\ phase = "profiling" /\ ~numbered
  /\ Cardinality(TickIds("vm")) < MaxProfiles
  /\ phase' = "adding stack" /\ profiles' = profiles + 1
  /\ UNCHANGED <<ticks_buffer, ticks_from_vm_buffer, events_buffer, enqueue_order, numbered,
                 sampling, running, sampled, processorVars>>

NewTick == [order |-> enqueue_order, id |-> Len(sampled) + 1]

AddCurrentStack ==
  /\ phase = "adding stack"
  /\ phase' = "profiling"
  /\ ticks_from_vm_buffer' = Append(ticks_from_vm_buffer, NewTick)
  /\ sampled' = Append(sampled, [source |-> "vm", order |-> enqueue_order])
  /\ UNCHANGED <<ticks_buffer, events_buffer, enqueue_order, numbered, profiles, sampling,
                 running, processorVars>>

\* The queue overwrites unread chunks when the processor falls behind; here it
\* keeps up.
KeepsUp ==
  LET p == WrapPositionIfNeeded(ticks_buffer.enqueue_pos) IN
  p % ChunkRecords = 0 => p \in ticks_buffer.clear

\* The first profile's AddCurrentStack comes before two chunks are filled, some
\* two hundred ticks of a millisecond.
AddsStackInTime ==
  phase = "adding stack" /\ profiles = 1 =>
    Cardinality(TickIds("sampler")) < producer_consumer_distance

\* The signal handler.
TickSampleEvent ==
  /\ sampling /\ KeepsUp /\ AddsStackInTime
  /\ Cardinality(TickIds("sampler")) < MaxTicks
  /\ ticks_buffer' = Enqueue(ticks_buffer, NewTick)
  /\ sampled' = Append(sampled, [source |-> "sampler", order |-> enqueue_order])
  /\ UNCHANGED <<ticks_from_vm_buffer, events_buffer, enqueue_order, numbered, phase,
                 profiles, sampling, running, processorVars>>

\* StopProcessorIfLastProfile of a profile that is not the last one.
StopProfiling ==
  /\ phase = "profiling" /\ ~numbered /\ profiles > 1
  /\ profiles' = profiles - 1
  /\ UNCHANGED <<ticks_buffer, ticks_from_vm_buffer, events_buffer, enqueue_order, numbered,
                 phase, sampling, running, sampled, processorVars>>

StopSampler ==
  /\ phase = "profiling" /\ ~numbered /\ profiles = 1
  /\ phase' = "stopping" /\ sampling' = FALSE
  /\ UNCHANGED <<ticks_buffer, ticks_from_vm_buffer, events_buffer, enqueue_order, numbered,
                 profiles, running, sampled, processorVars>>

StopProcessor ==
  /\ phase = "stopping"
  /\ phase' = "joining" /\ running' = FALSE
  /\ UNCHANGED <<ticks_buffer, ticks_from_vm_buffer, events_buffer, enqueue_order, numbered,
                 profiles, sampling, sampled, processorVars>>

JoinProcessor ==
  /\ phase = "joining" /\ pc = "done"
  /\ phase' = "joined" /\ profiles' = 0
  /\ UNCHANGED <<ticks_buffer, ticks_from_vm_buffer, events_buffer, enqueue_order, numbered,
                 sampling, running, sampled, processorVars>>

VM == \/ NumberCodeEvent \/ QueueCodeEvent \/ StartSampler \/ StartProfiling
      \/ AddCurrentStack \/ TickSampleEvent \/ StopProfiling \/ StopSampler
      \/ StopProcessor \/ JoinProcessor

---------------------------------------------------------------------------
(* The processor thread: Run, with ProcessTicks and ProcessCodeEvent inside. *)

RecordTickSample(tick) ==
  recorded' = Append(recorded, [order |-> tick.order, id |-> tick.id, map |-> code_map])

CheckRunning ==
  /\ pc = "loop"
  /\ pc' = "vm ticks"
  /\ draining' = ~running
  /\ ticks_buffer' = IF running THEN ticks_buffer ELSE FlushResidualRecords(ticks_buffer)
  /\ UNCHANGED <<ticks_from_vm_buffer, events_buffer, vmVars, dequeue_order, code_map, recorded>>

IsDue(tick) == tick.order = dequeue_order

TakeTickFromVm ==
  /\ pc = "vm ticks" /\ pc' = "ticks"
  /\ IF ticks_from_vm_buffer # <<>> /\ IsDue(Head(ticks_from_vm_buffer))
       THEN /\ RecordTickSample(Head(ticks_from_vm_buffer))
            /\ ticks_from_vm_buffer' = Tail(ticks_from_vm_buffer)
       ELSE UNCHANGED <<ticks_from_vm_buffer, recorded>>
  /\ UNCHANGED <<ticks_buffer, events_buffer, vmVars, draining, dequeue_order, code_map>>

TakeTick ==
  LET q == StartDequeue(ticks_buffer) IN
  /\ pc = "ticks"
  /\ \/ /\ q.dequeue_pos = NULL
        /\ pc' = "no tick" /\ UNCHANGED <<ticks_buffer, recorded>>
     \/ /\ q.dequeue_pos # NULL /\ IsDue(q.buffer[q.dequeue_pos])
        /\ RecordTickSample(q.buffer[q.dequeue_pos])
        /\ ticks_buffer' = FinishDequeue(q)
        /\ pc' = "vm ticks"
     \/ /\ q.dequeue_pos # NULL /\ ~IsDue(q.buffer[q.dequeue_pos])
        /\ ticks_buffer' = q
        /\ pc' = "event" /\ UNCHANGED recorded
  /\ UNCHANGED <<ticks_from_vm_buffer, events_buffer, vmVars, draining, dequeue_order, code_map>>

\* Both loops go on when ProcessTicks returned true; the first also when it
\* returned false or there was no code event.
GiveUp == IF draining THEN "done" ELSE "loop"
FaultyMoreTicks == TRUE
MoreTicks == ticks_from_vm_buffer # <<>>
NoTick ==
  /\ pc = "no tick"
  /\ pc' = IF MoreTicks THEN "event" ELSE GiveUp
  /\ UNCHANGED <<ticks_buffer, ticks_from_vm_buffer, events_buffer, vmVars, draining,
                 dequeue_order, code_map, recorded>>

FaultyAfterNoEvent == IF draining THEN "vm ticks" ELSE "loop"
AfterNoEvent == GiveUp
ProcessCodeEvent ==
  /\ pc = "event"
  /\ IF events_buffer = <<>>
       THEN pc' = AfterNoEvent /\ UNCHANGED <<events_buffer, dequeue_order, code_map>>
       ELSE /\ events_buffer' = Tail(events_buffer)
            /\ dequeue_order' = Head(events_buffer)
            /\ code_map' = code_map + 1
            /\ pc' = IF draining THEN "vm ticks" ELSE "loop"
  /\ UNCHANGED <<ticks_buffer, ticks_from_vm_buffer, vmVars, draining, recorded>>

Processor == CheckRunning \/ TakeTickFromVm \/ TakeTick \/ NoTick \/ ProcessCodeEvent

Next == VM \/ Processor

\* The processor thread is scheduled, and a stop that was begun is finished.
Fairness == WF_vars(Processor) /\ WF_vars(StopProcessor) /\ WF_vars(JoinProcessor)
Spec == Init /\ [][Next]_vars /\ Fairness

---------------------------------------------------------------------------

\* The types of the variables.
TypeOK ==
  /\ ticks_buffer \in Queue(Tick)
  /\ ticks_from_vm_buffer \in Seq(Tick)
  /\ events_buffer \in Seq(Nat)
  /\ enqueue_order \in 0 .. MaxEvents /\ numbered \in BOOLEAN
  /\ phase \in {"logging", "adding stack", "profiling", "stopping", "joining", "joined"}
  /\ profiles \in 0 .. MaxProfiles /\ sampling \in BOOLEAN /\ running \in BOOLEAN
  /\ pc \in {"loop", "vm ticks", "ticks", "no tick", "event", "done"}
  /\ draining \in BOOLEAN /\ dequeue_order \in 0 .. MaxEvents /\ code_map \in 0 .. MaxEvents
  /\ sampled \in Seq([source : {"sampler", "vm"}, order : 0 .. MaxEvents])
  /\ recorded \in Seq([order : Nat, id : Nat, map : Nat])

\* A tick is attributed with the code map that has exactly the code events
\* numbered before the tick was taken: what the orders are for.  The variables
\* have their types.
CodeMapMatches == TypeOK /\ \A i \in 1 .. Len(recorded) : recorded[i].map = recorded[i].order

\* "All ticks of the current dequeue_order are processed, proceed to the next
\* code event" (Run): no code event is taken while a tick taken before it is
\* unprocessed, for which it would be too late.
TicksBeforeNextEvent ==
  pc = "event" /\ events_buffer # <<>> =>
    \A id \in 1 .. Len(sampled) : Recorded(id) \/ sampled[id].order > dequeue_order

\* The same for a single profile: the VM queues no two ticks of one order.
OneProfile == Cardinality(TickIds("vm")) <= 1
TicksOfOneProfileFirst == OneProfile => TicksBeforeNextEvent

\* What recorded[i] is, and which of the first i came from the ring; a record
\* of the ring that was never written has no id.
FromSampler(i) == recorded[i].id = 0 \/ sampled[recorded[i].id].source = "sampler"
FromRing(i) == {j \in 1 .. i : FromSampler(j)}

\* The sampler's ticks come out of the ring in the order in which they were
\* taken, none left out, however the two threads' steps interleave: the k-th
\* record from the ring is the k-th of these ticks.
RecordedInOrder ==
  \A i \in 1 .. Len(recorded) :
    LET k == Cardinality(FromRing(i)) IN
    FromSampler(i) /\ k <= Cardinality(TickIds("sampler")) =>
      Cardinality({id \in TickIds("sampler") : id <= recorded[i].id}) = k

\* When the processor has ended, every tick taken for a single profile is in it.
AllRecorded == pc = "done" /\ OneProfile => \A id \in 1 .. Len(sampled) : Recorded(id)

\* FlushResidualRecords lets the consumer "process remaining records from the
\* buffer" (circular-queue.h), and only those: no tick is counted twice.
RecordedOnce ==
  /\ \A i \in 1 .. Len(recorded) : recorded[i].id # 0
  /\ \A i, j \in 1 .. Len(recorded) : recorded[i].id = recorded[j].id => i = j

\* The ring is a queue: the ticks come out in order and, as long as the sampler
\* has not come round the ring, once each, although the flush exposes the
\* unwritten part of a chunk.
RingKeepsTicks ==
  /\ RecordedInOrder
  /\ Cardinality(TickIds("sampler")) <= Size => RecordedOnce

\* StopProfiling returns: the processor, once told to stop, ends.
StopReturns == phase = "joining" ~> phase = "joined"
=============================================================================
