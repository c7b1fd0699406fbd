---------------------------- MODULE ThreadManager ----------------------------
(* v8::Locker, v8::Unlocker, ThreadManager and ContextSwitcher (v8threads.cc) *)
(* over the one set of per-thread data the default isolate has.  A thread     *)
(* that gives up the lock leaves its data in place ("lazily archived"); the   *)
(* next thread that restores something else moves it to a ThreadState first.  *)
(*                                                                            *)
(* A thread's C++ stack is the sequence of its Locker and Unlocker objects    *)
(* plus the number of HandleScopes and PostponeInterruptsScopes it has open.  *)
(*                                                                            *)
(* An operator FaultyX stands before X and is X with a plausible mistake; it  *)
(* is used by no specification, only to show that the properties notice it.   *)
EXTENDS Integers, Sequences, FiniteSets, StackGuard

CONSTANTS Thread, NoThread,
          ThreadState, NoState,   \* the ThreadState objects `new` can return
          BaseLimit,              \* where each thread's stack ends
          CustomLimit,            \* what it may pass to SetResourceConstraints
          Calls,                  \* what the program uses besides Lockers
          MaxFrames, MaxScopes    \* bounds on a thread's stack of objects

ASSUME ThreadAssumption == NoThread \notin Thread /\ NoState \notin ThreadState
ASSUME LimitAssumption == /\ BaseLimit \in [Thread -> Address]
                          /\ CustomLimit \in [Thread -> Address]
ASSUME BoundAssumption == MaxFrames \in Nat /\ MaxScopes \in Nat

VARIABLES
  mutex,        \* the thread inside mutex_
  mutexOwner,   \* mutex_owner_, read without the mutex
  lazyThread,   \* lazily_archived_thread_
  lazyState,    \* lazily_archived_thread_state_
  free, inUse,  \* the two lists, as sets
  stateId, terminateOnRestore, archive,  \* id_, terminate_on_restore_ and data_ of each
  threadState,  \* PerIsolateThreadData::thread_state_, per thread
  stackLimit,   \* PerIsolateThreadData::stack_limit_ (kIllegalLimit: none)
  entered,      \* the threads that have entered the default isolate
  running,      \* V8::is_running_
  live,         \* the isolate's own per-thread data
  roots,        \* the heap's copy of the stack limits
  frames, scopes, postponed,  \* each thread's C++ stack
  pc,           \* where each thread is
  switcher, keepGoing         \* the ContextSwitcher thread

managerVars == <<lazyThread, lazyState, free, inUse, stateId, terminateOnRestore, archive, threadState>>
lockVars == <<mutex, mutexOwner>>
stackVars == <<frames, scopes, postponed>>
isolateVars == <<stackLimit, entered, running>>
switcherVars == <<switcher, keepGoing>>
vars == <<managerVars, lockVars, stackVars, isolateVars, switcherVars, live, roots, pc>>

kInvalidId == NoThread   \* a thread stands for its id
NoData == [id |-> kInvalidId, scopes |-> 0, guard |-> Cleared]
Data == [id : Thread \cup {NoThread}, scopes : Int, guard : ThreadLocal]

FrameKind == {"Locker", "Unlocker", "RuntimePreempt"}
Frame == [kind : FrameKind, has_lock : BOOLEAN, top_level : BOOLEAN,
          scopes : Nat, postponed : Nat]
PC == {"idle", "entering", "restoring", "initing", "unlocking", "relocking",
       "interrupted", "joining"}

Top(t) == frames[t][Len(frames[t])]
Popped(t) == SubSeq(frames[t], 1, Len(frames[t]) - 1)
\* The innermost object is kind and no operation is under way.
Inside(t, kind) == pc[t] = "idle" /\ frames[t] # <<>> /\ Top(t).kind = kind
\* t may use V8: it holds the lock and its data has been set up.
Running(t) == Inside(t, "Locker")
IsLockedByCurrentThread(t) == mutexOwner = t

Init ==
  /\ mutex = NoThread /\ mutexOwner = NoThread
  /\ lazyThread = NoThread /\ lazyState = NoState
  /\ free = {} /\ inUse = {}
  /\ stateId = [s \in ThreadState |-> kInvalidId]
  /\ terminateOnRestore = [s \in ThreadState |-> FALSE]
  /\ archive = [s \in ThreadState |-> NoData]
  /\ threadState = [t \in Thread |-> NoState]
  /\ stackLimit = [t \in Thread |-> kIllegalLimit]
  /\ entered = {} /\ running = FALSE
  /\ live = NoData /\ roots = Roots(Cleared)
  /\ frames = [t \in Thread |-> <<>>]
  /\ scopes = [t \in Thread |-> 0] /\ postponed = [t \in Thread |-> 0]
  /\ pc = [t \in Thread |-> "idle"]
  /\ switcher = "none" /\ keepGoing = FALSE

Goto(t, label) == pc' = [pc EXCEPT ![t] = label]

Push(t, kind, has_lock) ==
  frames' = [frames EXCEPT ![t] = Append(@,
    [kind |-> kind, has_lock |-> has_lock, top_level |-> TRUE,
     scopes |-> scopes[t], postponed |-> postponed[t]])]
Pop(t) == frames' = [frames EXCEPT ![t] = Popped(t)]

\* C++ objects are destroyed innermost first.
ScopesClosed(t) == Top(t).scopes = scopes[t] /\ Top(t).postponed = postponed[t]

\* ThreadManager::Lock waits here.
Lock(t) == mutex = NoThread /\ mutex' = t /\ mutexOwner' = t
FaultyUnlock(t) == UNCHANGED mutexOwner /\ UNCHANGED mutex /\ Goto(t, "unlocking")
\* ThreadManager::Unlock up to mutex_->Unlock(), which is ReleaseMutex.
Unlock(t) == mutexOwner' = NoThread /\ UNCHANGED mutex /\ Goto(t, "unlocking")

ReleaseMutex(t) ==
  /\ pc[t] = "unlocking"
  /\ mutex' = NoThread /\ Goto(t, "idle")
  /\ UNCHANGED <<managerVars, mutexOwner, stackVars, isolateVars, switcherVars, live, roots>>

---------------------------------------------------------------------------
(* Archiving and restoring.                                                 *)

Allocated == free \cup inUse \cup ({lazyState} \ {NoState})

FaultyGetFreeThreadState(s) == s \in ThreadState \ Allocated
\* GetFreeThreadState followed by state->Unlink().
GetFreeThreadState(s) ==
  IF free # {} THEN s \in free ELSE s \in ThreadState \ Allocated

FaultyFreeWithout(s) == free
FreeWithout(s) == free \ {s}

ArchiveThread(t) == \E s \in ThreadState :
  /\ GetFreeThreadState(s)
  /\ free' = FreeWithout(s)
  /\ threadState' = [threadState EXCEPT ![t] = s]
  /\ lazyThread' = t /\ lazyState' = s
  /\ stateId' = [stateId EXCEPT ![s] = t]
  /\ UNCHANGED <<inUse, terminateOnRestore, archive>>

FaultyRestoreLazilyArchived(t) ==
  /\ lazyThread = t
  /\ lazyThread' = NoThread /\ lazyState' = NoState
  /\ stateId' = [stateId EXCEPT ![lazyState] = kInvalidId]
  /\ free' = free \cup {lazyState'}
  /\ threadState' = [threadState EXCEPT ![t] = NoState]
  /\ UNCHANGED <<inUse, terminateOnRestore, archive, live, roots>>
\* The first part of RestoreThread: t's own data is still in place.
RestoreLazilyArchived(t) ==
  /\ lazyThread = t
  /\ stateId' = [stateId EXCEPT ![lazyState] = kInvalidId]
  /\ free' = free \cup {lazyState}
  /\ lazyThread' = NoThread /\ lazyState' = NoState
  /\ threadState' = [threadState EXCEPT ![t] = NoState]
  /\ UNCHANGED <<inUse, terminateOnRestore, archive, live, roots>>

(* EagerlyArchiveThread, run by t for another thread, if there is one to     *)
(* archive: Isolate::ArchiveThread leaves data initialised for t.            *)
Archiving == lazyThread # NoThread
ArchiveAfterArchiving ==
  IF Archiving THEN [archive EXCEPT ![lazyState] = live] ELSE archive
InUseAfterArchiving == IF Archiving THEN inUse \cup {lazyState} ELSE inUse
LiveAfterArchiving(t) == IF Archiving THEN [NoData EXCEPT !.id = t] ELSE live
RootsAfterArchiving == IF Archiving THEN Roots(live.guard) ELSE roots

\* RestoreThread returns false: a thread that has nothing archived.
RestoreNewThread(t) ==
  /\ lazyThread # t /\ threadState[t] = NoState
  /\ archive' = ArchiveAfterArchiving /\ inUse' = InUseAfterArchiving
  /\ lazyThread' = NoThread /\ lazyState' = NoState
  /\ LET old == LiveAfterArchiving(t)
     IN  /\ live' = [old EXCEPT !.guard = InitThread(@, BaseLimit[t], stackLimit[t])]
         /\ roots' = RootsAfterInitThread(RootsAfterArchiving, old.guard, BaseLimit[t])
  /\ UNCHANGED <<free, stateId, terminateOnRestore, threadState>>

\* A request made while the thread was archived reaches it now.
FaultyTerminateOnRestore(s, guard) == guard
TerminateOnRestore(s, guard) ==
  IF terminateOnRestore[s] THEN Request(guard, "TERMINATE") ELSE guard

FaultyWithoutRequest(s) == terminateOnRestore
WithoutRequest(s) == [terminateOnRestore EXCEPT ![s] = FALSE]

\* RestoreThread returns true with the data t left in its ThreadState.
RestoreArchived(t) ==
  /\ lazyThread # t /\ threadState[t] # NoState
  /\ LET s == threadState[t]
         data == ArchiveAfterArchiving[s]
         guard == TerminateOnRestore(s, data.guard)
     IN  /\ live' = [data EXCEPT !.guard = guard]
         /\ roots' = Roots(guard)
         /\ stateId' = [stateId EXCEPT ![s] = kInvalidId]
         /\ terminateOnRestore' = WithoutRequest(s)
         /\ inUse' = InUseAfterArchiving \ {s}
         /\ free' = free \cup {s}
  /\ archive' = ArchiveAfterArchiving
  /\ threadState' = [threadState EXCEPT ![t] = NoState]
  /\ lazyThread' = NoThread /\ lazyState' = NoState

RestoreTrue(t) == RestoreLazilyArchived(t) \/ RestoreArchived(t)

---------------------------------------------------------------------------
(* Locker and Unlocker.                                                     *)

MayPush(t) == /\ pc[t] = "idle" /\ Len(frames[t]) < MaxFrames
              /\ ~Inside(t, "RuntimePreempt")

\* Locker::Locker up to and including Lock().
LockerLock(t) ==
  /\ MayPush(t)
  /\ IF IsLockedByCurrentThread(t)
       THEN Push(t, "Locker", FALSE) /\ UNCHANGED <<lockVars, pc>>
       ELSE Lock(t) /\ Push(t, "Locker", TRUE) /\ Goto(t, "entering")
  /\ UNCHANGED <<managerVars, scopes, postponed, isolateVars, switcherVars, live, roots>>

(* EnterDefaultIsolate, which does nothing for a thread that has entered     *)
(* before, and the first V8::Initialize of the process.                      *)
LockerEnter(t) ==
  /\ pc[t] = "entering"
  /\ entered' = entered \cup {t} /\ running' = TRUE
  /\ LET old == IF t \in entered THEN live ELSE [live EXCEPT !.id = t]
         guard == InitThread(old.guard, BaseLimit[t], stackLimit[t])
     IN  IF running
           THEN live' = old /\ UNCHANGED roots
           ELSE live' = [id |-> t, scopes |-> 0, guard |-> guard] /\ roots' = Roots(guard)
  /\ Goto(t, "restoring")
  /\ UNCHANGED <<managerVars, lockVars, stackVars, stackLimit, switcherVars>>

LockerRestore(t) ==
  /\ pc[t] = "restoring"
  /\ \/ /\ RestoreTrue(t)
        /\ frames' = [frames EXCEPT ![t] = Append(Popped(t), [Top(t) EXCEPT !.top_level = FALSE])]
        /\ Goto(t, "idle")
     \/ RestoreNewThread(t) /\ Goto(t, "initing") /\ UNCHANGED frames
  /\ UNCHANGED <<lockVars, scopes, postponed, isolateVars, switcherVars>>

FaultyGuardOfNewThread(t) == InitThread(live.guard, BaseLimit[t], stackLimit[t])
GuardOfNewThread(t) == InitThread(Cleared, BaseLimit[t], stackLimit[t])
\* ClearThread and InitThread, under one ExecutionAccess.
LockerInit(t) ==
  /\ pc[t] = "initing"
  /\ live' = [live EXCEPT !.guard = GuardOfNewThread(t)]
  /\ roots' = RootsAfterInitThread(Roots(Cleared), Cleared, BaseLimit[t])
  /\ Goto(t, "idle")
  /\ UNCHANGED <<managerVars, lockVars, stackVars, isolateVars, switcherVars>>

\* FreeThreadResources keeps the stack limit and frees the handle scopes.
FreeThreadResources(t) ==
  /\ stackLimit' = [stackLimit EXCEPT ![t] = live.guard.real]
  /\ live' = [live EXCEPT !.scopes = 0]
  /\ UNCHANGED managerVars

LockerDestroy(t) ==
  /\ Running(t) /\ ScopesClosed(t)
  /\ Pop(t)
  /\ IF ~Top(t).has_lock
       THEN UNCHANGED <<managerVars, lockVars, stackLimit, live, pc>>
       ELSE /\ IF Top(t).top_level
                 THEN FreeThreadResources(t)
                 ELSE ArchiveThread(t) /\ UNCHANGED <<stackLimit, live>>
            /\ Unlock(t)
  /\ UNCHANGED <<scopes, postponed, entered, running, roots, switcherVars>>

\* Unlocker::Unlocker, also the one RuntimePreempt makes.
Unlocking(t, kind) ==
  /\ ArchiveThread(t) /\ Unlock(t) /\ Push(t, kind, FALSE)

UnlockerCreate(t) ==
  /\ MayPush(t) /\ Running(t)
  /\ Unlocking(t, "Unlocker")
  /\ UNCHANGED <<scopes, postponed, isolateVars, switcherVars, live, roots>>

UnlockerLock(t) ==
  /\ Inside(t, "Unlocker") \/ Inside(t, "RuntimePreempt")
  /\ Lock(t) /\ Goto(t, "relocking")
  /\ UNCHANGED <<managerVars, stackVars, isolateVars, switcherVars, live, roots>>

\* ~Unlocker takes no notice of what RestoreThread returns.
UnlockerRestore(t) ==
  /\ pc[t] = "relocking"
  /\ RestoreTrue(t) \/ RestoreNewThread(t)
  /\ Goto(t, IF Top(t).kind = "RuntimePreempt" THEN "interrupted" ELSE "idle")
  /\ Pop(t)
  /\ UNCHANGED <<lockVars, scopes, postponed, isolateVars, switcherVars>>

---------------------------------------------------------------------------
(* What a thread does with V8 while it holds the lock.                      *)

OpenScope(t) ==
  /\ "HandleScope" \in Calls
  /\ Running(t) /\ scopes[t] < MaxScopes
  /\ live' = [live EXCEPT !.scopes = @ + 1]
  /\ scopes' = [scopes EXCEPT ![t] = @ + 1]
  /\ UNCHANGED <<managerVars, lockVars, frames, postponed, isolateVars, switcherVars, roots, pc>>

CloseScope(t) ==
  /\ Running(t) /\ Top(t).scopes < scopes[t]
  /\ live' = [live EXCEPT !.scopes = @ - 1]
  /\ scopes' = [scopes EXCEPT ![t] = @ - 1]
  /\ UNCHANGED <<managerVars, lockVars, frames, postponed, isolateVars, switcherVars, roots, pc>>

\* PostponeInterruptsScope: the nesting changes, then the limits.
PostponeInterrupts(t) ==
  /\ "PostponeInterruptsScope" \in Calls
  /\ Running(t) /\ postponed[t] < MaxScopes
  /\ LET guard == reset_limits([live.guard EXCEPT !.postpone = @ + 1])
     IN live' = [live EXCEPT !.guard = guard] /\ roots' = Roots(guard)
  /\ postponed' = [postponed EXCEPT ![t] = @ + 1]
  /\ UNCHANGED <<managerVars, lockVars, frames, scopes, isolateVars, switcherVars, pc>>

EnablesInterrupts(g) == g.postpone = 0 /\ g.flags # {}
AllowInterrupts(t) ==
  /\ Running(t) /\ Top(t).postponed < postponed[t]
  /\ LET guard == [live.guard EXCEPT !.postpone = @ - 1]
     IN IF EnablesInterrupts(guard)
          THEN /\ live' = [live EXCEPT !.guard = EnableInterrupts(guard)]
               /\ roots' = Roots(live'.guard)
          ELSE live' = [live EXCEPT !.guard = guard] /\ UNCHANGED roots
  /\ postponed' = [postponed EXCEPT ![t] = @ - 1]
  /\ UNCHANGED <<managerVars, lockVars, frames, scopes, isolateVars, switcherVars, pc>>

SetResourceConstraints(t) ==
  /\ "SetResourceConstraints" \in Calls
  /\ Running(t)
  /\ live' = [live EXCEPT !.guard = SetStackLimit(@, CustomLimit[t])]
  /\ UNCHANGED <<managerVars, lockVars, stackVars, isolateVars, switcherVars, roots, pc>>

ContinueAfter(flag) ==
  /\ live' = [live EXCEPT !.guard = Continue(@, flag)]
  /\ roots' = IF live'.guard.postpone = 0 /\ live'.guard.flags = {}
                THEN Roots(live'.guard) ELSE roots

(* HandleStackGuardInterrupt, when a stack check fails: preemption first,    *)
(* then, after the lock has been given up and taken again, termination.      *)
HandlePreempt(t) ==
  /\ Running(t) /\ Len(frames[t]) < MaxFrames
  /\ live.guard.limit = kInterruptLimit /\ "PREEMPT" \in live.guard.flags
  /\ ContinueAfter("PREEMPT")
  /\ Unlocking(t, "RuntimePreempt")
  /\ UNCHANGED <<scopes, postponed, isolateVars, switcherVars>>

HandleTerminate(t) ==
  /\ \/ pc[t] = "interrupted"
     \/ Running(t) /\ live.guard.limit = kInterruptLimit /\ "PREEMPT" \notin live.guard.flags
  /\ IF "TERMINATE" \in live.guard.flags
       THEN ContinueAfter("TERMINATE") ELSE UNCHANGED <<live, roots>>
  /\ Goto(t, "idle")
  /\ UNCHANGED <<managerVars, lockVars, stackVars, isolateVars, switcherVars>>

---------------------------------------------------------------------------
(* Requests to interrupt, under ExecutionAccess only.                       *)

Interrupt(flag) ==
  /\ live' = [live EXCEPT !.guard = Request(@, flag)]
  /\ roots' = IF live.guard.postpone = 0 THEN Roots(live'.guard) ELSE roots

\* V8::TerminateExecution(), from a thread that may not hold the lock.
TerminateCurrent ==
  /\ "TerminateExecution" \in Calls
  /\ running
  /\ Interrupt("TERMINATE")
  /\ UNCHANGED <<managerVars, lockVars, stackVars, isolateVars, switcherVars, pc>>

\* V8::TerminateExecution(thread_id), from the thread that holds the lock.
TerminateExecution(t, id) ==
  /\ "TerminateExecution" \in Calls
  /\ Running(t) /\ id \in entered
  /\ IF id = live.id
       THEN Interrupt("TERMINATE") /\ UNCHANGED terminateOnRestore
       ELSE /\ terminateOnRestore' = [s \in ThreadState |->
                 terminateOnRestore[s] \/ (s \in inUse /\ stateId[s] = id)]
            /\ UNCHANGED <<live, roots>>
  /\ UNCHANGED <<lazyThread, lazyState, free, inUse, stateId, archive, threadState,
                 lockVars, stackVars, isolateVars, switcherVars, pc>>

StartPreemption(t) ==
  /\ "StartPreemption" \in Calls
  /\ Running(t) /\ switcher = "none"
  /\ switcher' = "checking" /\ keepGoing' = TRUE
  /\ UNCHANGED <<managerVars, lockVars, stackVars, isolateVars, live, roots, pc>>

StopPreemption(t) ==
  /\ Running(t) /\ switcher # "none"
  /\ keepGoing' = FALSE /\ Goto(t, "joining")
  /\ UNCHANGED <<managerVars, lockVars, stackVars, isolateVars, live, roots, switcher>>

JoinSwitcher(t) ==
  /\ pc[t] = "joining" /\ switcher = "exited"
  /\ switcher' = "none" /\ Goto(t, "idle")
  /\ UNCHANGED <<managerVars, lockVars, stackVars, isolateVars, live, roots, keepGoing>>

\* ContextSwitcher::Run.
SwitcherCheck ==
  /\ switcher = "checking"
  /\ switcher' = IF keepGoing THEN "sleeping" ELSE "exited"
  /\ UNCHANGED <<managerVars, lockVars, stackVars, isolateVars, live, roots, keepGoing, pc>>

SwitcherPreempt ==
  /\ switcher = "sleeping"
  /\ Interrupt("PREEMPT")
  /\ switcher' = "checking"
  /\ UNCHANGED <<managerVars, lockVars, stackVars, isolateVars, keepGoing, pc>>

---------------------------------------------------------------------------
Step(t) ==
  \/ LockerLock(t) \/ LockerEnter(t) \/ LockerRestore(t) \/ LockerInit(t)
  \/ LockerDestroy(t) \/ ReleaseMutex(t)
  \/ UnlockerCreate(t) \/ UnlockerLock(t) \/ UnlockerRestore(t)
  \/ OpenScope(t) \/ CloseScope(t) \/ PostponeInterrupts(t) \/ AllowInterrupts(t)
  \/ SetResourceConstraints(t) \/ HandlePreempt(t) \/ HandleTerminate(t)
  \/ StartPreemption(t) \/ StopPreemption(t) \/ JoinSwitcher(t)
  \/ \E id \in Thread : TerminateExecution(t, id)

Next == (\E t \in Thread : Step(t)) \/ TerminateCurrent \/ SwitcherCheck \/ SwitcherPreempt

Spec == Init /\ [][Next]_vars

---------------------------------------------------------------------------
(* Properties.                                                              *)

\* Types of the variables; inUse, free and the lazy state stay inside ThreadState.
TypeOK ==
  /\ mutex \in Thread \cup {NoThread} /\ mutexOwner \in Thread \cup {NoThread}
  /\ lazyThread \in Thread \cup {NoThread} /\ lazyState \in ThreadState \cup {NoState}
  /\ free \in SUBSET ThreadState /\ inUse \in SUBSET ThreadState
  /\ stateId \in [ThreadState -> Thread \cup {NoThread}]
  /\ terminateOnRestore \in [ThreadState -> BOOLEAN]
  /\ archive \in [ThreadState -> Data]
  /\ threadState \in [Thread -> ThreadState \cup {NoState}]
  /\ stackLimit \in [Thread -> Address \cup {kIllegalLimit}]
  /\ entered \in SUBSET Thread /\ running \in BOOLEAN
  /\ live \in Data
  /\ roots \in [limit : Limit, real : Address \cup {kIllegalLimit}]
  /\ frames \in [Thread -> Seq(Frame)]
  /\ scopes \in [Thread -> Nat] /\ postponed \in [Thread -> Nat]
  /\ pc \in [Thread -> PC]
  /\ switcher \in {"none", "checking", "sleeping", "exited"} /\ keepGoing \in BOOLEAN

\* A thread that runs inside its innermost Locker holds the mutex and is its
\* recorded owner, so no two threads use V8 at once, however Lockers nest.
RunningHoldsLock == \A t \in Thread : Running(t) => mutex = t /\ mutexOwner = t

\* data is what t left behind: its open handle scopes, its postponed
\* interrupts and the limit of its own stack.
BelongsTo(data, t) ==
  /\ data.scopes = scopes[t]
  /\ data.guard.postpone = postponed[t]
  /\ data.guard.real \in {BaseLimit[t], CustomLimit[t]}

\* Whatever threads took turns in between, a thread that is back inside its
\* Locker finds its own data in the isolate (RestoreThread, ArchiveThread).
OwnDataRestored == \A t \in Thread : Running(t) => BelongsTo(live, t)

\* A ThreadState on the free list carries no id and no termination request
\* into its next use (the ASSERT in ArchiveThread and RestoreThread's resets).
FreeStatesClean ==
  \A s \in free : stateId[s] = kInvalidId /\ ~terminateOnRestore[s]

\* No thread's state is on two lists, and a thread finds through its own
\* thread_state_ the state that carries its id.
StatesDisjoint ==
  /\ free \cap inUse = {} /\ lazyState \notin free \cup inUse
  /\ \A t \in Thread : threadState[t] # NoState =>
       /\ threadState[t] \in inUse \cup {lazyState}
       /\ stateId[threadState[t]] = t

\* The free list is reused: there are never more ThreadStates than threads
\* (GetFreeThreadState).
PoolBounded == Cardinality(Allocated) <= Cardinality(Thread)

\* A pending interrupt that is not postponed makes the stack checks of the
\* running thread fail, the runtime's and those of generated code, whichever
\* thread it was requested for and restored to.
InterruptsSeen ==
  \A t \in Thread : Running(t) /\ live.guard.postpone = 0 /\ live.guard.flags # {}
    => live.guard.limit = kInterruptLimit /\ roots.limit = kInterruptLimit

\* Thread t has been asked to terminate and has not done so: in the isolate's
\* data, while those are t's, or in its ThreadState.
LiveIs(t) == Running(t) \/ pc[t] \in {"interrupted", "joining"} \/ lazyThread = t
TerminationPending(t) ==
  \/ LiveIs(t) /\ "TERMINATE" \in live.guard.flags
  \/ /\ threadState[t] \in inUse
     /\ \/ terminateOnRestore[threadState[t]]
        \/ "TERMINATE" \in archive[threadState[t]].guard.flags

\* A termination request is neither dropped nor given to another thread by
\* archiving and restoring: only t's own stack check answers it, or t leaves
\* its outermost Locker.
TerminationKept ==
  [][\A t \in Thread : TerminationPending(t) /\ ~TerminationPending(t)' =>
       HandleTerminate(t) \/ LockerDestroy(t)]_vars

\* include/v8.h on GetCurrentThreadId: the id of the calling thread.
ThreadIdIsCallers == \A t \in Thread : Running(t) => live.id = t
=============================================================================
