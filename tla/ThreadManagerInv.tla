-------------------------- MODULE ThreadManagerInv --------------------------
(* The inductive invariant of ThreadManager: why every thread finds its own  *)
(* data.  Each part says what one piece of the state tells about another.    *)
EXTENDS ThreadManager

\* t is past ThreadManager::Lock and before ThreadManager::Unlock.
Locked(t) ==
  \/ pc[t] \in {"entering", "restoring", "initing", "relocking", "interrupted", "joining"}
  \/ Running(t)

\* The mutex and its recorded owner follow the threads' control points.
LockInv == \A t \in Thread :
  /\ Locked(t) => mutex = t /\ mutexOwner = t
  /\ pc[t] = "unlocking" => mutex = t /\ mutexOwner = NoThread
  /\ ~Locked(t) /\ pc[t] # "unlocking" => mutex # t /\ mutexOwner # t

\* Lockers and Unlockers alternate, except that a Locker may stand directly
\* inside a Locker; then it did not take the lock.
WellNested(f) ==
  /\ f # <<>> => /\ f[1].kind = "Locker" /\ f[1].has_lock /\ f[1].top_level
                 /\ f[1].scopes = 0 /\ f[1].postponed = 0
  /\ \A i \in 2 .. Len(f) :
       f[i - 1].kind = "Locker" <=> f[i].kind # "Locker" \/ ~f[i].has_lock

\* The frame a thread stands in agrees with its control point.
FrameOK(t) ==
  /\ WellNested(frames[t])
  /\ frames[t] = <<>> => scopes[t] = 0 /\ postponed[t] = 0
  /\ pc[t] \in {"entering", "restoring", "initing"} =>
       frames[t] # <<>> /\ Top(t).kind = "Locker" /\ Top(t).has_lock /\ ScopesClosed(t)
  /\ pc[t] = "initing" => Len(frames[t]) = 1
  /\ pc[t] = "relocking" => frames[t] # <<>> /\ Top(t).kind # "Locker"
  /\ pc[t] \in {"interrupted", "joining"} => frames[t] # <<>> /\ Top(t).kind = "Locker"
  /\ pc[t] = "unlocking" => frames[t] = <<>> \/ Top(t).kind # "Locker"
FrameInv == \A t \in Thread : FrameOK(t)

\* A Locker inside an Unlocker is known not to be top level once the thread
\* has been restored.
TopLevelOK(t) == \A i \in 2 .. Len(frames[t]) :
  frames[t][i].kind = "Locker" /\ frames[t][i].has_lock /\ frames[t][i].top_level =>
    i = Len(frames[t]) /\ pc[t] \in {"entering", "restoring"}
TopLevelInv == \A t \in Thread : TopLevelOK(t)

\* t has given up the lock inside a Locker and has not been restored since.
Parked(t) ==
  \/ pc[t] \in {"idle", "unlocking"} /\ frames[t] # <<>> /\ Top(t).kind # "Locker"
  \/ pc[t] = "relocking"
  \/ pc[t] \in {"entering", "restoring"} /\ Len(frames[t]) > 1

\* The threads that wait to be restored are the ones that have a ThreadState.
ArchiveOK(t) ==
  /\ threadState[t] # NoState <=> Parked(t)
  /\ lazyThread = t => threadState[t] = lazyState
  /\ threadState[t] # NoState => /\ threadState[t] \in inUse \cup {lazyState}
                                 /\ stateId[threadState[t]] = t
  /\ Running(t) \/ pc[t] \in {"initing", "interrupted", "joining"} => lazyThread = NoThread
ArchiveInv ==
  /\ \A t \in Thread : ArchiveOK(t)
  /\ lazyThread = NoThread <=> lazyState = NoState
  /\ free \cap inUse = {} /\ lazyState \notin free \cup inUse

\* Neither an id nor a request survives in a state that is not in use.
StateInv == \A s \in ThreadState :
  /\ s \notin inUse => ~terminateOnRestore[s]
  /\ s \notin inUse \cup {lazyState} => stateId[s] = kInvalidId

\* Before V8 is initialised no thread has come further than its first Locker.
StartInv == ~running => \A t \in Thread :
  frames[t] = <<>> \/ (pc[t] = "entering" /\ Len(frames[t]) = 1)

\* The isolate's data are t's.
OwnsLive(t) == Running(t) \/ pc[t] \in {"interrupted", "joining"} \/ lazyThread = t

\* Where each thread's data are.
OwnerOK(t) ==
  /\ OwnsLive(t) => BelongsTo(live, t)
  /\ threadState[t] \in inUse => BelongsTo(archive[threadState[t]], t)
  /\ stackLimit[t] \in {kIllegalLimit, BaseLimit[t], CustomLimit[t]}
OwnerInv ==
  /\ \A t \in Thread : OwnerOK(t)
  /\ (\A t \in Thread : ~OwnsLive(t)) => live.scopes = 0

\* The inductive invariant.
IInv == LockInv /\ FrameInv /\ TopLevelInv /\ ArchiveInv /\ StateInv /\ StartInv /\ OwnerInv

\* Beyond it: each state that is allocated and not free is some thread's, which
\* is why there are no more of them than threads.
PoolInv ==
  /\ \A s \in inUse \cup ({lazyState} \ {NoState}) : \E t \in Thread : threadState[t] = s
  /\ IsFiniteSet(Allocated) /\ PoolBounded

\* An interrupt is pending and not postponed.
Due(g) == g.postpone = 0 /\ g.flags # {}
\* If so, stack checks fail: in the isolate's data, in generated code, and in
\* what is archived, so that they do again once it is restored.
Armed(g) == Due(g) => g.limit = kInterruptLimit
GuardInv ==
  /\ Armed(live.guard) /\ (Due(live.guard) => roots.limit = kInterruptLimit)
  /\ \A s \in ThreadState : Armed(archive[s].guard)
=============================================================================
