# TLA+ models and proofs of V8's threads, isolates, handles, debugger, collectors and profiler

This directory specifies the parts of this V8 (the 2.5 line in which isolates
were introduced) whose correctness depends on an order of steps: who holds the
lock and whose data are in the isolate, which isolate a thread is in, what a
weak callback may do in the middle of a walk, what a collection visits and when,
how a command reaches the debugger, and the queues between threads.
Paths below are relative to the repository; `v8threads.cc` alone means
`src/v8threads.cc`.

Contents: 1 the system; 2 the modules; 3 the runs; 4 fairness; 5 bounds; 6 the
proofs; 7 where code and documents disagree; 8 what is not modelled; 9 the plan.

## 1. The system

| Component | State it keeps | Operations | Interacts with |
|---|---|---|---|
| **StackGuard** (`execution.h/.cc`) | interrupt flags, current and real stack limit, postponement count, of the running thread | request or continue an interrupt, postpone, set the limit, archive, restore | any thread requests, under `ExecutionAccess`; generated code and the runtime check; the heap's root array has a copy of the limits |
| **Lockers and ThreadManager** (`v8threads.h/.cc`) | the lock and its owner, ThreadStates on a free and an in-use list, the lazily archived thread | Locker, Unlocker, archive, restore, terminate by id | StackGuard and the other per-thread parts it archives |
| **ContextSwitcher** (`v8threads.cc`) | a flag | start and stop preemption; a thread that requests it again and again | StackGuard |
| **Isolate, V8** (`isolate.h/.cc`, `v8.h/.cc`) | two thread-local slots per thread, the stack of entries, a table of per-thread data, the flags of class V8 | enter, exit, initialise, dispose | Lockers enter the default isolate; every API function reads the slots |
| **Global handles** (`global-handles.h/.cc`) | nodes on three intrusive lists, the count of weak ones | create, destroy, make weak, clear weakness, walk after a collection | the collector marks through them; weak callbacks call back into the API |
| **CPU profiler** (`cpu-profiler.h/.cc`) | three queues, the number of the last code event, the code map | log a code event, sample, start, stop, process | the VM thread, its signal handler and a processor thread |
| **SamplingCircularQueue** (`circular-queue.h/.cc`) | a ring of chunks and four positions | enqueue, start and finish dequeueing, flush | signal handler to processor, without a lock |
| **UnboundQueue** (`unbound-queue.h`, `unbound-queue-inl.h`) | a linked list with three pointers | enqueue, dequeue, peek, destroy | VM thread to processor, without a lock |
| **Debugger** (`debug.h/.cc`, `debug-agent.cc`) | command queues, break state, pending interrupts | put and process commands, enter and leave, open and close, dispatch to a helper thread | any thread puts; StackGuard brings the VM thread to a break, a Locker the helper |
| **Logger** (`log.h/.cc`) | a ring of ticks, a window of states | insert and remove ticks | sampler and the Profiler thread |
| **Heap** (`heap.cc`, `spaces.cc`, `mark-compact.cc`) | spaces, region marks, mark and overflow bits, forwarding addresses, the marking stack, the promotion queue, the external string table | allocate, scavenge, mark, sweep, compact | roots from all of the above |
| **Compilation cache, stub cache, inline caches** | tables keyed by source or by map | look up, put, age, clear | cleared or aged by collections |
| **Compiler, code generators, parser, regular expressions, runtime, library** | mostly none beyond the heap | translate and execute | - |

What makes it hard:

* *Data that stay where they are.* A thread that gives up the lock leaves its
  data in the isolate. The next thread moves them away, unless it is the same
  one; until then they are live and another thread's.
* *Requests that come from anywhere.* Interrupts are requested without the V8
  lock, may be postponed, and must survive archiving without changing threads.
* *A stack shared by threads.* What an exit goes back to is kept per isolate.
* *Callbacks in a loop.* A weak callback runs in the middle of a walk over the
  list it changes, and can start another walk.
* *Questions asked without a lock.* A client of the debugger asks whether the VM
  is in it while the VM is leaving it, and who does the rest depends on the answer.
* *Worklists of fixed size.* Marking and scavenging hold their worklists in the
  space they are emptying; one overflows, the other must never meet its objects.
* *Queues without locks.* One producer is a signal handler, which interrupts
  the other producer; the consumer decides by what it does not see.

What correctness means, per component:

* Lockers: mutual exclusion; a thread that is back inside its Locker finds its
  own scopes, postponements and limit; states are recycled clean, on one list at
  a time, and never more than there are threads.
* StackGuard: a pending interrupt that is not postponed is noticed; a request to
  terminate reaches its thread and no other.
* Isolates: an exit goes back to where the entry came from; no slot or entry
  refers to a deleted isolate; what is entered cannot be disposed, whoever's entries
  were taken; the two slots agree where V8 is initialised.
* Global handles: every handle is on the list the collector walks; no node is
  handed out twice or lost; garbage is reported; the count is right.
* Profiler: a tick is attributed with the code map of its moment; none is lost,
  repeated or passed over; stopping returns.
* UnboundQueue: first in, first out; nothing freed is read; nothing leaks.
* Debugger: no command is lost, reordered or, where there is a helper thread, left
  without somebody who will look at it; only the thread with the V8 lock is inside; a debugger that was closed
  lets JavaScript run again.
* Marking: exactly the live objects are marked, whatever overflowed; a weak handle
  is pending exactly when only weak handles reach its object; it ends.
* Scavenging: the graph afterwards is the graph before, every pointer from old to
  new space is in a dirty region, an external string is freed exactly when it
  died, the two ends of to-space never meet; it ends.

## 2. The modules

| Module | What it is | Code |
|---|---|---|
| `StackGuard` | operators on one value of `StackGuard::ThreadLocal` | `execution.h`, `execution.cc` |
| `ThreadManager` | extends it: Locker, Unlocker, RuntimePreempt, ThreadManager, ContextSwitcher, and what a thread does to its own data | `v8threads.cc`, parts of `execution.cc`, `api.cc`, `isolate.h` |
| `ThreadManagerInv` | the inductive invariants | |
| `Isolates` | Isolate::Scope, Lockers, Dispose, V8::Initialize and V8::Dispose | `isolate.cc`, `v8.cc`, `api.cc` |
| `IsolatesInv` | its inductive invariant | |
| `GlobalHandles` | the three lists and the re-entrant walk | `global-handles.cc` |
| `GlobalHandlesInv` | its inductive invariant | |
| `SamplingCircularQueue` | operators on the ring | `circular-queue.cc` |
| `ProfilerEvents` | extends it: the VM thread, the signal handler and `Run` | `cpu-profiler.cc` |
| `ProfilerEventsInv` | its inductive invariant | |
| `Fifo` | what a queue promises | |
| `UnboundQueue` | the linked list, one step per shared access | `unbound-queue-inl.h` |
| `UnboundQueueHistory` | history variables, the refinement mapping to `Fifo`, the inductive invariant | |
| `CommandQueue` | operators on the ring of commands | `debug.h`, `debug.cc` |
| `Debugger` | extends it: clients, the VM thread, the dispatch helper | `debug.h`, `debug.cc`, `execution.cc` |
| `DebuggerInv` | its inductive invariant | |
| `Marking` | MarkLiveObjects with its stack | `mark-compact.h`, `mark-compact.cc`, `global-handles.cc` |
| `MarkingInv` | its inductive invariant | |
| `Scavenger` | Heap::Scavenge and the write barrier | `heap.cc`, `heap-inl.h` |
| `ScavengerInv` | its inductive invariant | |
| `MC*` | small instances for TLC | |
| `*_proofs` | theorems and their lemmas, one module for each component | |

An operator `FaultyX` stands before `X` and is `X` with a plausible mistake. No
specification uses it; it shows that the properties depend on `X`.

### ThreadManager

A thread's C++ stack is `frames`, the sequence of its Locker, Unlocker and
RuntimePreempt objects; `scopes` and `postponed` count the HandleScopes and
PostponeInterruptsScopes open on it, and each frame remembers what was open when
it was made, because C++ destroys objects innermost first. `pc` splits an
operation where another thread can come in between: a Locker locks
(`LockerLock`), enters the default isolate and initialises V8 (`LockerEnter`),
restores (`LockerRestore`) and, when it has nothing to restore, clears and
initialises the guard (`LockerInit`). The last two are each one critical section
of `ExecutionAccess`; interrupt requests, which take the same lock, come in
between. `ReleaseMutex` is separate because `mutex_owner_` is cleared before.

`live` is the isolate's own per-thread data: the V8 thread id, the handle scopes
(their number) and the stack guard. `archive[s]` is what a ThreadState holds.
The two circular lists are sets: only the head of the free list is ever taken,
and no property depends on which state it is. `roots` is the heap's copy of the
limits. `TerminateCurrent` may come from a thread without the lock; the other
requests follow the rule that the lock is held.

### Isolates

`current` and `data` are the two slots, `entryStack[i]` is `entry_stack_`.
`PerIsolateThreadData` objects are never removed, so the pair (isolate, thread)
stands for one. Addresses of deleted isolates are allocated again. The rules of
`include/v8.h` for programs are the guards `MayEnter`, `MayLock`, `MayUseV8`.
What a program does beyond entering the isolates it made is chosen once, as the
variable `program`, from the constant `Programs`:

* `Locker` - it uses Lockers and Unlockers, and isolates only with the lock held;
* `LockerInScope` - it also makes a Locker while it is in another isolate, as the
  code itself does (`isolate.cc:433`). The nested Locker writes one of the two slots
  alone (`EnsureDefaultIsolate`, `isolate.cc:252`);
* `ScopeOfDefault` - it makes an Isolate::Scope of the default isolate. Together with
  Lockers, several threads then push different entries on one stack.

In programs of the last two kinds with Lockers an Exit may find an entry that
is not the one its Enter pushed. `OwnEntries` names the others; `ExitRestores` and the part
of `NoDangling` about deleted isolates speak of those only, and fail for the others
(section 7). `EnteredInUse`, `SlotsAgree` and the types speak of every kind.
In a program without `OwnEntries` a slot may so come to name an isolate that was
deleted; the model then goes on as if its memory were intact.

The destructor of a Locker that has the lock, and the Unlocker's constructor, use the
ThreadManager of the isolate the thread is in (`v8threads.cc:101`, `115`); programs make and
leave them in the default isolate, whose lock it is.
`NeedsInitialize` is the part of EnsureInitializedForIsolate before the call of
V8::Initialize. TearDown's change of the slots for its duration, and the Locker that
Deinit makes when the flag `--preemption` is given (default false), are not shown.

### GlobalHandles

`next` is the list of all nodes, `next_free` the link of free and of deallocated
ones (one C++ field serves both). `rounds` is the stack of walks under way; each
has its loop variable `p`, whether a later walk has made it stale, and the node
whose callback is running. `Sweep` is the rest of the loop body after the
callback and is part of the action in which the callback returns.

### ProfilerEvents

`phase` is where the VM thread is in starting and stopping. Numbering and
queueing a code event are two steps, because the signal handler comes in
between. `pc` goes through `Run`: each look at a queue is a step. A code event
is its number and `code_map` how many have been processed. The two unbound
queues are sequences, which theorem `ImplementsFifo` justifies.

Three assumptions are named in guards: `KeepsUp` (the consumer is not lapped,
which `circular-queue.h` documents as possible), `AddsStackInTime` (the first
`AddCurrentStack`, called right after the sampler is started, comes before two
chunks, over two hundred ticks, are full), and, in `StartSampler`, that there is
some code to log.

### UnboundQueue

`producer` and `consumer` are where the threads are; memory is `Node`, with
`allocated` telling which addresses are. `Link` takes any free address, also one
the consumer has just left behind. `ReleaseStore` is a step of its own.

### Debugger and CommandQueue

Two executors can be inside the debugger: the `VM` thread, and the dispatch
`Helper`, which takes the V8 lock when the VM has let go of it. `pc` goes through
DebugBreakHelper, ProcessDebugMessages, OnDebugBreak, NotifyMessageHandler and
`~EnterDebugger`, one step for each access to something another thread changes:
`command_queue`, its semaphore, the flags of the stack guard, `message_handler`
(which `debugger_access` protects in some places and not in others) and
`debugger_entry_`. A client's `doing` is where it is in ProcessCommand,
SetMessageHandler or EnqueueDebugCommand: it queues, signals, asks `InDebugger`,
requests and schedules in five steps. `owner` is who holds the V8 lock and `live`
whose per-thread data the isolate holds; what the other thread has is archived,
so `flags`, `pending` and `entered` are per thread.

`helper` says whether the embedder has asked for a dispatch helper thread
(`provide_locker`, by default false, `v8-debug.h:291`); it is chosen at the start and
stays. With one, ProcessCommand schedules it, and its dispatch handler is what `v8-debug.h`
suggests, a call of ProcessDebugMessages. Without one, ProcessCommand calls the
handler, if any, on the client's thread (`CallMessageDispatchHandler`); what the
handler then makes another thread do is the embedder's, and the model has it do
nothing. `--debugger-auto-break` has its default, true, so that a debug command
interrupts (`execution.cc:343`). Message handlers and listeners return. Left out: a debugger
that cannot be loaded, CancelDebugBreak, an entry inside another, events
of compilations and collected scripts, the host dispatch handler, unloading,
listeners written in JavaScript, and the agent.

A ring is a record of its four fields. `Put` grows it as `Expand` does, by taking
every message out with Get and putting it into a ring of twice the size.

### Marking

`stack` is a set: which object is popped next, and in which order the heap is
scanned for overflowed ones, depends on addresses, and is arbitrary. `bodies` are
the bodies whose iteration is under way; `VisitNested` is the visitor that goes
into an unmarked object at once, without the stack. `RefillMarkingStack` takes as
many overflowed objects as there is room for, and leaves `stack_overflowed` set when
the stack is full. `stage` is the part of MarkLiveObjects, `todo` what a root
visitor or a pass over the object groups has yet to visit. A pass that pushes
nothing leaves `work_to_do` false and is the last one. The collector's in-place
change of a slot to a flattened cons string is not shown, since nothing marked
or reached depends on it but the string itself.

### Scavenger

A slot's `target` is an object together with whether the slot has the new address
(`updated`). `where` says in which space an object is; `forward` is its map
word. `before` is from-space as it was and never changes. `left` are the slots a
stage has yet to visit, in any order, except that a cons string being short-cut
occupies the visitor (`slot`, `chain`). The program writes pointers (`Write`, with
the write barrier) before the scavenge. Promotion puts an object's fields into any
regions, may put it in the way of the walk over dirty regions (`Ahead`), and
so old objects can be visited twice, in part: that is what `VisitsFromSpaceOnly`
is about.

The promotion queue grows down from the end of to-space, two words for an entry
(`heap.cc:967`), while copied objects grow up. The comment at `heap.cc:978-981` argues
that there is room because an object is at least one pointer in size; with
entries of two words it takes an object of at least two, `SizeAssumption`, which
objects with a map and a field are. `IsPointerObject` has objects without fields as data
objects, which are not put in the queue. The code queues every object of the pointer
kind (`heap.cc:1306`), an empty FixedArray too: it has a map and a length, so its entry finds
room, and nothing to visit. Left out: pages of maps and large objects, the growing of to-space
before a scavenge, allocation, and the watermark bits, which are there by their
effect only. One page with its regions stands for all.

## 3. The runs

| Run | Question | Result | Distinct states |
|---|---|---|---|
| `threads` | nested Lockers and Unlockers, scopes, private limits; two threads, three ThreadStates | holds | 336,173 |
| `thread_interrupts` | termination, preemption and postponement while threads change places | holds | 3,026,737 |
| `thread_id` | is the V8 thread id the caller's | **violated** | |
| `isolates` | scopes of three isolates, Lockers, Lockers inside scopes, Lockers and scopes of the default isolate, and Dispose at any point | holds | 1,352,243 |
| `global_handles` | three nodes, collections nested three deep | holds | 788,616 |
| `profiler` | two profiles, the ring wraps, starting and stopping | holds | 1,292,469 |
| `unbound_queue` | memory safety and refinement of Fifo | holds | 1,194,624 |
| `debugger` | a client sends commands and breaks, another closes and opens the debugger; VM and helper | holds | 1,108,520 |
| `debug_event_command` | does a command for the event listener interrupt somebody | **violated** | |
| `debug_send_command` | without a helper thread, does a command from SendCommand have somebody who will look at it | **violated** | |
| `marking` | every small heap on a stack of one | holds | 2,176,022 |
| `scavenger` | every small graph, after a write, with promotion at any moment | holds | 1,024,077 |

The types are part of the structural invariant of a run where there is one
(`ListsConsistent`, `CodeMapMatches`, `NoDangling`, `PermitsMatchCommands`), and
`TypeOK` itself elsewhere.

Every property of a passing run fails for a mutant of a definition of the code,
listed in `PROJECT.json`.

Deadlock is checked for the thread, isolate and handle runs, where some
thread can always go on. It is not for the profiler, the queue and the collectors,
which come to an end, nor for the debugger, which waits for commands that
`MaxCalls` keeps clients from sending.

## 4. Fairness

Only liveness needs any. `StopReturns` assumes that the processor thread is scheduled
and that the VM thread, once inside StopProfiling, goes on. `ClosedDebuggerLeaves`
assumes that a client or an executor in the middle of a call goes on; a client
need not begin one, the VM need not throw, and no weak fairness is needed for the lock,
since the debugger is left by the thread that holds it. `MarkingEnds` and
`ScavengeEnds` assume that the collector, one thread that nobody interrupts, goes
on. Nothing is assumed
of threads that wait for the V8 lock: it is not a fair lock.

## 5. The bounds

* `MaxFrames`, `MaxScopes`, `Thread`: three frames give a Locker inside an
  Unlocker inside a Locker, the shortest nesting in which a thread has data
  archived and takes the lock again. Two threads are enough for data left in the
  isolate, restored by their owner, or moved away by the other thread; what more
  threads add is covered by the theorems, which hold for any set of them.
* `ThreadState`: two states are all that two threads need, which is what
  `PoolBounded` says: `threads` makes a third available and finds it unused, so
  that `thread_interrupts` can do with two.
* `Isolate`: two addresses besides the default isolate, one of which can be
  allocated again while the other is entered. `MaxFrames` 4 for one thread and 3 for
  the other: a Locker, two scopes and an Unlocker, in which the other has a Locker and scopes of its
  own. `MaxEntered` 3: entries that a Locker pushes on the default isolate's stack
  are never undone, and a thread that has left the default isolate pushes
  another one, so in `LockerInScope` and `ScopeOfDefault` programs the stack grows for ever.
* `Node`: three handles put one on each list; `MaxNesting` 3 makes a stale walk
  that is itself inside a stale one.
* `ChunkRecords` 2, `Chunks` 3: the smallest ring the constructor's ASSERT
  allows, with partly filled chunks. `MaxTicks` 8 is more than one
  round. `MaxProfiles` 2: what is left of one profile meets the next.
* `debugger`: one client that sends and one that closes, which is enough for a command
  behind, before or between those of another; the smallest ring with room for
  a command, which grows at the second; `MaxCalls` 2, so that a command meets
  another or the empty one of a close.
* `marking`: four objects, three pointers and a stack of one, so that of two objects pushed
  together one overflows, and refilling overflows again; two groups of two objects, so
  that marking one group marks the other.
* `scavenger`: a cons string, an external string, an object with one
  field, objects with two in new and in old space, three pointers; two regions, so that the two
  fields of an object may differ in being dirty. `Threshold` 2 makes objects promoted
  or copied in each order.
* `MaxLinked` 6 nodes over four addresses: addresses are used again.

## 6. What is proved

All of it holds for every value of the constants, from the named assumptions in
the modules (different kinds of model values are distinct, bounds are natural
numbers; where something is counted, there is a finite number of it: threads in
`PoolNeverGrows`, handles, young objects). Beyond that, `RoomForTheQueue` uses that the
young objects lie in from-space, `FromSpaceAssumption`, as explained below.

Every invariant that a passing run checks is also a theorem but for `EnteredInUse`, and so is every
action property and the refinement of `Fifo`. In each module the proof goes the same way:
the checked properties are not inductive, `IInv` (in the `*Inv` module, checked by TLC
before it was proved) is, there is one lemma for each part of `IInv` and in it one step for each
action, and the properties follow from `IInv`.

**ThreadManager.** `ThreadManagerInvariant` is `Spec => [](TypeOK /\ IInv)`. The
safety properties are not inductive: that a thread finds its own data needs to
know where they are while it is away. `IInv` says

* `LockInv` - the mutex and its owner follow the threads' control points;
* `FrameInv`, `TopLevelInv` - how Lockers and Unlockers alternate, and which
  Locker remembers to be a top-level one;
* `ArchiveInv` - the threads that are away ("parked") are exactly those that have
  a ThreadState, which carries their id and is in use or lazily archived;
* `StateInv` - states that are not in use are clean;
* `StartInv` - nobody is past a first Locker before V8 is initialised;
* `OwnerInv` - the isolate's data belong to the thread that runs or was archived
  lazily, the archived data to the thread whose state it is.

`MutualExclusion`, `DataRestored`, `ListsDisjoint`, `RecycledClean` and `TypeCorrect`
follow. Three more theorems build on it. `PoolNeverGrows`: every state that is
allocated and not free is the state of a thread that is away (`PoolInv`); a new
one is made only when none is free and nobody is archived lazily, so that
`stateId` maps those in use one to one into the *other* threads.
`InterruptsNoticed`: every guard, in place or archived, with a pending interrupt
that is not postponed has the interrupt limit (`GuardInv`), and so has the copy in
the roots. `TerminationNotLost` is an action property: a pending request is
followed through each step, from the isolate's data to the ThreadState it is
archived in and back, with `OwnerInv`'s account of whose data are where.

**Isolates.** The claim is about the past: an exit goes back to where the thread was
when it entered. `OwnInv`, of programs with `OwnEntries`, says that everything can be read off the stacks of C++
objects, `InAt(t, n)` being the isolate that thread t is in when n objects are left:

* `SlotInv` - a thread's two slots are those of the top of its stack;
* `FrameInv` - each object remembers the isolate below it; Lockers and Unlockers
  are in the default isolate, scopes of programs with Lockers are not;
* `StackInv` - an isolate's entries are those of one thread: each stands for a run of
  objects that entered the isolate again (`count`), begins at the object `start[k]`, and holds
  what the thread had below it. The default isolate's stack in a program with Lockers
  is pushed on by many threads; all its entries lead to the default isolate;
* `HolderInv` - who holds the lock has entered the default isolate.

`IInv` is this for those programs, and for every program `PairInv` and `RunsInv`: the slots
saved in *every* entry agree, whoever takes it, and the slots in place do, or
the isolate slot alone was set to the default isolate and V8 has been running (`Ran`), since only a
Locker sets it and a thread's first Locker makes V8 run. From these follows
`SlotsAgreeHolds` with no condition on the program: V8::Initialize is called in the default isolate only
before V8 has run. `NoDanglingHolds` follows from `OwnInv`, and says of programs without `OwnEntries` that
the variables have their types. The module also proves `ExitRestoresHolds`; as
it speaks only of programs with `OwnEntries`, and the hazard lies in the others, it is
not among the results listed.

**GlobalHandles.** The lists are chains of `next` and `next_free` fields, of which
`ListInv` says that there are sequences of nodes they run through:

* `AllInv` - the list of all nodes and the chain of deallocated ones, disjoint,
  without repetition, and together all that has left the pool;
* `ReuseInv` - where the program may create handles, the free list has unused nodes of the
  first list, and a deallocated node that is taken is already linked to the head;
* `WalkInv` - the walk that is still current has p nodes of the list behind it, nodes
  that wait to be notified are before it, and a callback's node is the next one.

`RoundsInv` says that only the last walk is current, `InUseInv` that the embedder holds
the nodes in use. TLC had accepted an `IInv` that was not inductive: taking one node
off the chain of deallocated ones leaves the next at its head, so *each* of them must be
linked to the one after it, `next[D[k]] = D[k - 1]`, and not only the first to `head`.
The proof that a node taken off one list is put on another is about sequences that
shift by one; where the model follows a chain with a recursive function, the proof
takes a least number of steps for which the claim would fail.

**ProfilerEvents.** `IInv` says of the numbers of code events that they run from the
code map through the queue to the event being logged (`OrdersInv`), from which
`CodeMapMatchesHolds`; of the VM's ticks, that each is queued or recorded and once
(`VmInv`); and of a single profile, that what is unprocessed is not behind
`dequeue_order` (`ProfileInv`), from which `TicksOfOneProfileFirstHolds` and
`AllRecordedHolds`. `RingInv` describes the ring by the sequence S of the sampler's n ticks, of
which m have been read:

* `Written` - the sampler is on the round that began with record `base`; what it
  has written in this round and, behind its position, what is left of the last one are
  the last records of S, and beyond them the cells are blank;
* `ReadTo` - the processor is on the round that began with `lap`, the same or the one
  before; unless flushed, it stays two chunks behind the sampler (the constructor's
  `producer_consumer_distance`), and a chunk is marked clear exactly when it has been read and not
  written since;
* `RecordedTo` - what was read is recorded, the k-th record from the ring being `S[k]`;
* `NotStarted` - nothing is read before the VM's first tick of the first profile.

Products of the chunk's size and the number of chunks occur in one lemma, that a
chunk's start and its end are inside the ring; after that positions are only
added. The theorems hold for every ring the constructor allows, and for any
number of profiles where the property does not say otherwise: `RingKeepsTicks` says of the records
that come out of the ring that the k-th is the sampler's k-th tick, whoever asked for it.
`KeepsUp` and `AddsStackInTime` are guards of the model, and the theorems rest on them.

**UnboundQueue.** `HInv` uses history variables: the sequence of all nodes ever
linked and the places of `first` and `divider` in it. It says that the nodes from
`first` on are different, linked in order and exactly the allocated ones, so a
free address the producer takes cannot be one the consumer reads. `MemorySafe`,
`FreesEverything` and `TypeCorrect` follow, and `ImplementsFifo`: a `Publish` is
an Enqueue of the abstract queue, a `Release` a Dequeue, everything else a
stutter.

**Marking.** `Marking_proofs` shows `TypeOK`, `NothingForgotten`, `MarkedIsLive` and
`PendingIsWeaklyReachable` for every heap, finite set of objects and stack size.
`IInv` adds to the checked properties

* `BodiesInv` - a body being iterated is that of a marked object;
* `StageInv` - what a stage has to visit and what it has visited cover its roots;
* `GroupsInv` - as long as a pass over the groups has pushed nothing, the groups
  it has left behind have no marked object: this is why the last pass may be the last;
* `LeastInv` - nothing is marked that a closed set could do without. Before weak
  handles are visited that is said of sets closed under strong references alone,
  from which `PendingIsWeaklyReachable` follows when the stage changes.

That the marked set is closed at the end is `NothingForgotten` with nothing on the
stack, nothing overflowed and no body under way, and `GroupsInv`.

**Debugger.** `Debugger_proofs` shows `CommandsInOrder`, `PermitsMatchCommands`,
`InsideHoldsLock` and, where there is a helper thread, `CommandsGetProcessed` for any set of clients, any bounds and any
size of the first ring (at least two); nothing is assumed of the clients but their steps. Lemmas
about the ring come first: positions without remainders, what Get and Put do to
the contents, and that `Expand` keeps them (the model gives what its loop ends
with, so no induction is needed). `IInv` is

* `QueueInv` - the queue holds the commands with the numbers after those taken;
* `CloseInv` - one client closes at a time, and may still put its command;
* `PermitInv` - as many commands in the queue as permits given, clients about to
  give one, and executors that have taken one;
* `LockInv` - lock, live data and the debugger's entries follow the control points;
* `WakeInv` - `already_signalled` is set exactly when the semaphore is up, one client
  is about to raise it, or the helper has just come back from it;
* `NoticeInv` - where there is a helper, a command in the queue is being announced or will be noticed; and
  when the helper is past its last look, what is there is being announced, or the
  helper is woken again, or the VM is interrupted. The second half is what makes the
  first inductive: it is the argument for the order of the steps in
  `debug.cc:3131-3155`.

**Scavenger.** `Scavenger_proofs` shows `VisitsFromSpaceOnly`, `GraphPreserved`,
`MarksComplete`, `OnlyLiveSurvive` and `RoomForQueue` for any heap, any layout of
regions, and any semispace. Every visit of a slot either shortens a cons string or settles the
slot, without or with a move; the lemmas go by these kinds. `IInv` is

* `PlaceInv` - an object is where its map word says, and a map word leads to a
  moved or old object;
* `SlotInv` - a slot has the old address of what it held or the new one;
* `ChainInv` - the strings being short-cut lead from what the slot held to what it
  shows;
* `VisitInv` - each stage visits the slots it should, and none but the sweep of
  promoted objects meets slots that have their new value;
* `QueuesInv` - a copied object is queued once and none of its fields was visited;
* `PendingInv` - every pointer to from-space in a root, an old or a moved object is
  in a slot yet to be visited or in a field of a queued object. With empty queues
  at the end, there is none;
* `MarkInv` - pointers from old to new space are in regions that are dirty by the old
  marks, during the walk over them by the new ones, and then by the marks again;
* `LeastInv` - every set closed under what is kept has all that was moved;
* `TableInv` - the external string table is untouched until the end;
* `RoomInv` - the two ends of to-space have taken no more words than the moved
  objects had in from-space. The sum of their sizes is the number of words they
  lie in (`Vacated`), because objects do not overlap: `FromSpaceAssumption` says that the young
  objects have such a layout within a semispace, as allocation gives them one.

**Only model-checked.** Liveness, which this prover does not do (no fairness, no
ENABLED): `StopReturns`, `ClosedDebuggerLeaves`,
`MarkingEnds` and `ScavengeEnds`. `EnteredInUse`, which counts the entries on a stack against
the objects of all threads. The three runs that are expected to be violated are
counterexamples, which TLC finds. Induction over data and RECURSIVE operators
are out of the prover's reach; the modules use none of the latter, and where the
proofs needed the former, for chains of nodes, they use that a set of natural
numbers has a least element.

## 7. Where code and documents disagree

The first three are runs that are expected to be violated, with the quotation in
`PROJECT.json`.

1. `thread_id` - a second thread's first Locker sets the thread id in data that
   still belong to a thread inside an Unlocker.
2. `debug_event_command` - DebugBreakForCommand while the debugger is being left
   interrupts nobody.

3. `debug_send_command` - a command that SendCommand puts after `~EnterDebugger` has
   looked at the queue (`debug.h:921`), and whose client asks InDebugger before
   `debugger_entry_` is reset (`debug.h:932`), requests no interrupt. With a helper thread the
   helper sees to it (`CommandsGetProcessed`); without one, the default, nobody does.

The others are described here and have no run of their own.

4. An exit can take the entry another thread pushed (`isolate.cc:772`,
   `v8.h:2575`). With `OwnEntries` left out of `ExitRestores`, the run `isolates` finds a program with both Lockers and
   scopes of the default isolate: t1 has a Locker, a scope of A, a scope of the default isolate, and lets go
   of the lock; t2 has a Locker, a scope of the default isolate, and lets go; t1 exits the latter's
   entry and stays in the default isolate. A later exit may go back to an isolate deleted since
   (`NoDangling`). What holds even there is `EnteredInUse`: no exit finds the stack empty,
   and no isolate that is entered can be disposed.
5. A Locker made inside another isolate sets the isolate slot to the default isolate and
   leaves the data slot (`isolate.cc:252`). A scope of the other isolate made after that counts
   as entered again and does not set the slot, so GetCurrent (`v8.h:2560`) returns the default isolate
   inside that scope, against the ASSERT at `isolate.cc:720`. The ASSERT at `v8.cc:61` is not
   met: `SlotsAgree`.
6. Isolate::Dispose of the exited default isolate leaves V8 running without a heap
   (`isolate.cc:406`, `isolate.h:407`, `test-api.cc:11581`).
7. With two profiles, ticks of the VM under the order of the last event of the
   first are left when the processor goes on to the next event (`cpu-profiler.cc:276`
   and `304`): `TicksOfOneProfileFirst` speaks of one profile only.
8. The flush exposes records of the previous round (`circular-queue.cc:118`,
   `circular-queue.h:65`): `RingKeepsTicks` says "once" of the first round only.
9. A debugger that is closed while an event listener is set stays active and may
   wait for a command that nobody sends, although the empty command is sent "to make
   JavaScript run again if the debugger is closed" (`debug.cc:2649`): `ClosedDebuggerLeaves` excludes it.

Three more shape the model. `SetStackLimit`
(`execution.cc:261`) sets the limits in the guard and not the copies in the root
array that generated code reads (`execution.h:262`); `SetResourceConstraints`
models that, and `InterruptsSeen` therefore asks only that an *interrupt* is in
both copies. A
DEBUGBREAK requested between the two steps of DebugBreakHelper, in which the flags are
looked at and cleared (`execution.cc:695`), is served as a command-only break.
The per-thread data of a disposed isolate stay in the table (`isolate.cc:282`).

## 8. What is not modelled

`PROJECT.json` lists every component with the reason. In short: translators and
arithmetic (parser, compilers, assemblers, regular expressions, number
conversion), whose correctness is about meanings, not about orders of steps;
object layouts and the library; the collector's memory layout; and what the plan
has left. Weak memory is modelled as the code intends it: a release store makes
what was written before visible. Tick contents and code events are abstract.

## 9. The plan

Done, with the proofs of all their invariants: StackGuard and ThreadManager;
Isolates; GlobalHandles; SamplingCircularQueue and ProfilerEvents; UnboundQueue with
refinement; Debugger and CommandQueue; Marking; Scavenger.

Next, in this order:

1. `TickBuffer`: the logger's ring between the sampler and the Profiler thread,
   overflow included.
2. `CompilationCache`: generations, promotion and ageing against a map that
   forgets.
3. `HandleScopes`, `HashMap`, `RegExpStack`, each against its abstract counterpart.
4. `ThreadStateLists`: the two circular lists with pointers, refining the sets of
   `ThreadManager`.
5. `DebugAgent`: sessions, the socket and closing, on top of `Debugger`.
6. Proofs: the refinement of item 4; that the ring of `ProfilerEvents` implements a
   bounded `Fifo` for as long as it is not flushed.
