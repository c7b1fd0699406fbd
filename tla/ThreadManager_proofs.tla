------------------------ MODULE ThreadManager_proofs ------------------------
(* Proofs about ThreadManager, for every set of threads and every bound: the  *)
(* lemmas about StackGuard and types, then IInv part by part, then OwnerInv,  *)
(* then the properties that need an invariant on top of IInv.                 *)
EXTENDS ThreadManagerInv, SequenceTheorems, FiniteSetTheorems, TLAPS

---------------------------------------------------------------------------
(* StackGuard: every operation maps a ThreadLocal to a ThreadLocal.         *)

LEMMA ClearedType == Cleared \in ThreadLocal
BY DEF Cleared, ThreadLocal, Limit

LEMMA RequestType ==
  ASSUME NEW g \in ThreadLocal, NEW flag \in InterruptFlag
  PROVE  Request(g, flag) \in ThreadLocal
BY DEF Request, set_interrupt_limits, ThreadLocal, Limit

LEMMA ContinueType ==
  ASSUME NEW g \in ThreadLocal, NEW flag \in InterruptFlag
  PROVE  Continue(g, flag) \in ThreadLocal
BY DEF Continue, reset_limits, ThreadLocal, Limit

LEMMA SetStackLimitType ==
  ASSUME NEW g \in ThreadLocal, NEW a \in Address
  PROVE  SetStackLimit(g, a) \in ThreadLocal
BY DEF SetStackLimit, ThreadLocal, Limit

LEMMA InitThreadType ==
  ASSUME NEW g \in ThreadLocal, NEW base \in Address,
         NEW stored \in Address \cup {kIllegalLimit}
  PROVE  InitThread(g, base, stored) \in ThreadLocal
<1>1. Initialize(g, base) \in ThreadLocal
  BY DEF Initialize, ThreadLocal, Limit
<1>2. QED
  BY <1>1, SetStackLimitType DEF InitThread

RootsSet == [limit : Limit, real : Address \cup {kIllegalLimit}]

LEMMA RootsType ==
  ASSUME NEW g \in ThreadLocal
  PROVE  Roots(g) \in RootsSet
BY DEF Roots, RootsSet, ThreadLocal

LEMMA RootsAfterInitThreadType ==
  ASSUME NEW r \in RootsSet, NEW g \in ThreadLocal, NEW base \in Address
  PROVE  RootsAfterInitThread(r, g, base) \in RootsSet
<1>1. Initialize(g, base) \in ThreadLocal
  BY DEF Initialize, ThreadLocal, Limit
<1>2. QED
  BY <1>1, RootsType DEF RootsAfterInitThread

---------------------------------------------------------------------------
(* The type invariant, one step per action.                                 *)

LEMMA TypeInit == Init => TypeOK
<1>1. NoData \in Data
  BY ClearedType DEF NoData, Data, kInvalidId
<1>2. Roots(Cleared) \in RootsSet
  BY ClearedType, RootsType
<1> SUFFICES ASSUME Init PROVE TypeOK
  OBVIOUS
<1>3. /\ stateId \in [ThreadState -> Thread \cup {NoThread}]
      /\ archive \in [ThreadState -> Data]
      /\ threadState \in [Thread -> ThreadState \cup {NoState}]
      /\ stackLimit \in [Thread -> Address \cup {kIllegalLimit}]
  BY <1>1 DEF Init, kInvalidId
<1>4. terminateOnRestore \in [ThreadState -> BOOLEAN] /\ running \in BOOLEAN /\ keepGoing \in BOOLEAN
  BY Zenon DEF Init
<1>5. /\ live \in Data /\ roots \in RootsSet
      /\ frames \in [Thread -> Seq(Frame)]
      /\ scopes \in [Thread -> Nat] /\ postponed \in [Thread -> Nat]
  BY <1>1, <1>2 DEF Init
<1>6. pc \in [Thread -> PC]
  BY DEF Init, PC
<1>7. QED
  BY <1>3, <1>4, <1>5, <1>6 DEF Init, TypeOK, RootsSet

LEMMA PopType ==
  ASSUME TypeOK, NEW t \in Thread, frames[t] # <<>>, Pop(t)
  PROVE  frames' \in [Thread -> Seq(Frame)]
BY DEF TypeOK, Pop, Popped

LEMMA TopType ==
  ASSUME TypeOK, NEW t \in Thread, frames[t] # <<>>
  PROVE  Top(t) \in Frame /\ Popped(t) \in Seq(Frame)
BY DEF TypeOK, Top, Popped

LEMMA PushType ==
  ASSUME TypeOK, NEW t \in Thread, NEW kind \in FrameKind, NEW b \in BOOLEAN, Push(t, kind, b)
  PROVE  frames' \in [Thread -> Seq(Frame)]
<1>1. [kind |-> kind, has_lock |-> b, top_level |-> TRUE,
       scopes |-> scopes[t], postponed |-> postponed[t]] \in Frame
  BY DEF TypeOK, Frame
<1>2. QED
  BY <1>1 DEF TypeOK, Push

LEMMA GotoType ==
  ASSUME TypeOK, NEW t \in Thread, NEW label \in PC, Goto(t, label)
  PROVE  pc' \in [Thread -> PC]
BY DEF TypeOK, Goto

ManagerOK ==
  /\ lazyThread \in Thread \cup {NoThread} /\ lazyState \in ThreadState \cup {NoState}
  /\ free \in SUBSET ThreadState /\ inUse \in SUBSET ThreadState
  /\ stateId \in [ThreadState -> Thread \cup {NoThread}]
  /\ terminateOnRestore \in [ThreadState -> BOOLEAN]
  /\ archive \in [ThreadState -> Data]
  /\ threadState \in [Thread -> ThreadState \cup {NoState}]

LEMMA ArchiveType ==
  ASSUME TypeOK, NEW t \in Thread, ArchiveThread(t)
  PROVE  ManagerOK'
BY DEF TypeOK, ManagerOK, ArchiveThread, FreeWithout

LEMMA ArchivingType ==
  ASSUME TypeOK, ArchiveInv, NEW t \in Thread
  PROVE  /\ ArchiveAfterArchiving \in [ThreadState -> Data]
         /\ InUseAfterArchiving \in SUBSET ThreadState
         /\ LiveAfterArchiving(t) \in Data
         /\ RootsAfterArchiving \in RootsSet
<1>1. /\ NoData \in Data /\ live \in Data /\ live.guard \in ThreadLocal
  BY ClearedType DEF TypeOK, NoData, Data, kInvalidId
<1>2. LiveAfterArchiving(t) \in Data
  BY <1>1 DEF LiveAfterArchiving, Data
<1>3. RootsAfterArchiving \in RootsSet
  BY <1>1, RootsType DEF RootsAfterArchiving, TypeOK, RootsSet
<1>4. ArchiveAfterArchiving \in [ThreadState -> Data]
  BY <1>1 DEF ArchiveAfterArchiving, TypeOK
<1>5. QED
  BY <1>2, <1>3, <1>4 DEF InUseAfterArchiving, Archiving, TypeOK, ArchiveInv, ArchiveOK

\* What RestoreThread leaves behind is well typed, in each of its three cases.
RestoredOK == ManagerOK /\ live \in Data /\ roots \in RootsSet

LEMMA RestoreNewType ==
  ASSUME TypeOK, ArchiveInv, NEW t \in Thread, RestoreNewThread(t)
  PROVE  RestoredOK'
<1>1. /\ LiveAfterArchiving(t) \in Data /\ RootsAfterArchiving \in RootsSet
      /\ ArchiveAfterArchiving \in [ThreadState -> Data]
      /\ InUseAfterArchiving \in SUBSET ThreadState
  BY ArchivingType
<1>2. /\ LiveAfterArchiving(t).guard \in ThreadLocal
      /\ BaseLimit[t] \in Address /\ stackLimit[t] \in Address \cup {kIllegalLimit}
  BY <1>1, LimitAssumption DEF Data, TypeOK
<1>3. live' \in Data
  <2>1. InitThread(LiveAfterArchiving(t).guard, BaseLimit[t], stackLimit[t]) \in ThreadLocal
    BY <1>2, InitThreadType
  <2>2. QED
    BY <1>1, <2>1 DEF RestoreNewThread, Data
<1>4. roots' \in RootsSet
  BY <1>1, <1>2, RootsAfterInitThreadType DEF RestoreNewThread
<1>5. QED
  BY <1>1, <1>3, <1>4 DEF RestoredOK, ManagerOK, RestoreNewThread, TypeOK

LEMMA RestoreTrueType ==
  ASSUME TypeOK, ArchiveInv, NEW t \in Thread, RestoreTrue(t)
  PROVE  RestoredOK'
<1>1. CASE RestoreLazilyArchived(t)
  <2>1. lazyState \in ThreadState
    BY <1>1, ThreadAssumption DEF RestoreLazilyArchived, ArchiveInv, ArchiveOK, TypeOK
  <2>2. QED
    BY <1>1, <2>1 DEF RestoreLazilyArchived, RestoredOK, ManagerOK, TypeOK, RootsSet, kInvalidId
<1>2. CASE RestoreArchived(t)
  <2> DEFINE s == threadState[t]
             guard == TerminateOnRestore(s, ArchiveAfterArchiving[s].guard)
  <2>1. s \in ThreadState
    BY <1>2 DEF RestoreArchived, TypeOK
  <2>2. ArchiveAfterArchiving[s] \in Data /\ ArchiveAfterArchiving[s].guard \in ThreadLocal
    BY <2>1, ArchivingType DEF Data
  <2>3. guard \in ThreadLocal
    BY <2>2, RequestType DEF TerminateOnRestore, InterruptFlag
  <2>4. live' \in Data /\ roots' \in RootsSet
    BY <1>2, <2>2, <2>3, RootsType DEF RestoreArchived, Data
  <2>5. /\ archive' \in [ThreadState -> Data] /\ inUse' \in SUBSET ThreadState
        /\ free' \in SUBSET ThreadState
    BY <1>2, <2>1, ArchivingType DEF RestoreArchived, TypeOK
  <2>6. terminateOnRestore' \in [ThreadState -> BOOLEAN]
    BY <1>2, Zenon DEF RestoreArchived, WithoutRequest, TypeOK
  <2>7. QED
    BY <1>2, <2>4, <2>5, <2>6 DEF RestoredOK, ManagerOK, RestoreArchived, TypeOK, kInvalidId
<1>3. QED
  BY <1>1, <1>2 DEF RestoreTrue

LEMMA LimitsType == \A t \in Thread : BaseLimit[t] \in Address /\ CustomLimit[t] \in Address
BY LimitAssumption

LockOK == mutex \in Thread \cup {NoThread} /\ mutexOwner \in Thread \cup {NoThread}

LEMMA LiveType ==
  ASSUME TypeOK
  PROVE  live.guard \in ThreadLocal /\ live.scopes \in Int
BY DEF TypeOK, Data

\* An operation on the stack guard alone.
LEMMA GuardStepType ==
  ASSUME TypeOK, NEW g \in ThreadLocal, live' = [live EXCEPT !.guard = g],
         roots' = Roots(g) \/ roots' = roots
  PROVE  live' \in Data /\ roots' \in RootsSet
BY RootsType DEF TypeOK, Data, RootsSet

LEMMA InterruptType ==
  ASSUME TypeOK, NEW flag \in InterruptFlag, Interrupt(flag)
  PROVE  live' \in Data /\ roots' \in RootsSet
<1>1. Request(live.guard, flag) \in ThreadLocal
  BY LiveType, RequestType
<1>2. live'.guard = Request(live.guard, flag)
  BY <1>1 DEF Interrupt, TypeOK, Data
<1>3. QED
  BY <1>1, <1>2, GuardStepType DEF Interrupt

LEMMA ContinueAfterType ==
  ASSUME TypeOK, NEW flag \in InterruptFlag, ContinueAfter(flag)
  PROVE  live' \in Data /\ roots' \in RootsSet
<1>1. Continue(live.guard, flag) \in ThreadLocal
  BY LiveType, ContinueType
<1>2. live'.guard = Continue(live.guard, flag)
  BY <1>1 DEF ContinueAfter, TypeOK, Data
<1>3. QED
  BY <1>1, <1>2, GuardStepType DEF ContinueAfter

LEMMA TypeStep ==
  ASSUME TypeOK, FrameInv, ArchiveInv, [Next]_vars
  PROVE  TypeOK'
<1> USE DEF managerVars, lockVars, stackVars, isolateVars, switcherVars
<1>1. ASSUME NEW t \in Thread, LockerLock(t) PROVE TypeOK'
  <2>1. frames' \in [Thread -> Seq(Frame)]
    BY <1>1, PushType DEF LockerLock, FrameKind
  <2>2. pc' \in [Thread -> PC]
    BY <1>1, GotoType DEF LockerLock, PC, TypeOK
  <2>3. UNCHANGED <<managerVars, scopes, postponed, isolateVars, switcherVars>>
    BY <1>1 DEF LockerLock
  <2>4. LockOK'
    BY <1>1 DEF LockerLock, Lock, TypeOK, LockOK
  <2>5. UNCHANGED <<live, roots>>
    BY <1>1 DEF LockerLock
  <2>6. QED
    BY <2>1, <2>2, <2>3, <2>4, <2>5 DEF TypeOK, LockOK
<1>2. ASSUME NEW t \in Thread, LockerEnter(t) PROVE TypeOK'
  <2>1. [live EXCEPT !.id = t] \in Data
    BY DEF TypeOK, Data
  <2>2. InitThread(live.guard, BaseLimit[t], stackLimit[t]) \in ThreadLocal
    BY LiveType, LimitsType, InitThreadType DEF TypeOK
  <2> DEFINE old == IF t \in entered THEN live ELSE [live EXCEPT !.id = t]
             guard == InitThread(old.guard, BaseLimit[t], stackLimit[t])
  <2>3. old \in Data /\ old.guard = live.guard
    BY <2>1 DEF TypeOK, Data
  <2>4. [id |-> t, scopes |-> 0, guard |-> guard] \in Data /\ Roots(guard) \in RootsSet
    <3>1. guard \in ThreadLocal
      BY <2>2, <2>3
    <3> HIDE DEF guard
    <3>2. QED
      BY <3>1, RootsType DEF Data
  <2>5. live' \in Data /\ roots' \in RootsSet
    <3>1. CASE running
      BY <1>2, <2>3, <3>1 DEF LockerEnter, TypeOK, RootsSet
    <3>2. CASE ~running
      BY <1>2, <2>4, <3>2 DEF LockerEnter
    <3>3. QED
      BY <3>1, <3>2
  <2>6. running' \in BOOLEAN
    BY <1>2 DEF LockerEnter
  <2>7. QED
    BY <1>2, <2>5, <2>6 DEF LockerEnter, Goto, PC, TypeOK, RootsSet
<1>3. ASSUME NEW t \in Thread, LockerRestore(t) PROVE TypeOK'
  <2>1. RestoredOK'
    BY <1>3, RestoreTrueType, RestoreNewType DEF LockerRestore
  <2>2. Append(Popped(t), [Top(t) EXCEPT !.top_level = FALSE]) \in Seq(Frame)
    <3>1. frames[t] # <<>>
      BY <1>3 DEF LockerRestore, FrameInv, FrameOK
    <3>2. Popped(t) \in Seq(Frame) /\ [Top(t) EXCEPT !.top_level = FALSE] \in Frame
      BY <3>1, TopType DEF Frame
    <3>3. QED
      BY <3>2
  <2>3. frames' \in [Thread -> Seq(Frame)]
    BY <1>3, <2>2 DEF LockerRestore, TypeOK
  <2>4. pc' \in [Thread -> PC]
    BY <1>3, GotoType DEF LockerRestore, PC
  <2>5. QED
    BY <1>3, <2>1, <2>3, <2>4 DEF LockerRestore, TypeOK, RestoredOK, ManagerOK, RootsSet
<1>4. ASSUME NEW t \in Thread, LockerInit(t) PROVE TypeOK'
  <2>1. GuardOfNewThread(t) \in ThreadLocal
    BY ClearedType, LimitsType, InitThreadType DEF GuardOfNewThread, TypeOK
  <2>2. live' \in Data /\ roots' \in RootsSet
    BY <1>4, <2>1, ClearedType, LimitsType, RootsType, RootsAfterInitThreadType
    DEF LockerInit, TypeOK, Data
  <2>3. QED
    BY <1>4, <2>2 DEF LockerInit, Goto, PC, TypeOK, RootsSet
<1>5. ASSUME NEW t \in Thread, LockerDestroy(t) PROVE TypeOK'
  <2>1. frames' \in [Thread -> Seq(Frame)]
    BY <1>5, PopType DEF LockerDestroy, Running, Inside
  <2>2. pc' \in [Thread -> PC] /\ LockOK'
    BY <1>5, GotoType DEF LockerDestroy, Unlock, PC, TypeOK, LockOK
  <2>3. ManagerOK' /\ live' \in Data /\ stackLimit' \in [Thread -> Address \cup {kIllegalLimit}]
    <3>1. CASE ArchiveThread(t) /\ UNCHANGED <<stackLimit, live>>
      BY <3>1, ArchiveType DEF TypeOK
    <3>2. CASE FreeThreadResources(t)
      <4>1. live.guard.real \in Address \cup {kIllegalLimit}
        BY LiveType DEF ThreadLocal
      <4>2. [live EXCEPT !.scopes = 0] \in Data
        <5>1. \A n \in Int : [live EXCEPT !.scopes = n] \in Data
          BY DEF TypeOK, Data
        <5>2. QED
          BY <5>1
      <4>3. live' \in Data /\ stackLimit' \in [Thread -> Address \cup {kIllegalLimit}]
        BY <3>2, <4>1, <4>2 DEF FreeThreadResources, TypeOK
      <4>4. ManagerOK'
        BY <3>2 DEF FreeThreadResources, TypeOK, ManagerOK
      <4>5. QED
        BY <4>3, <4>4
    <3>3. CASE UNCHANGED <<managerVars, stackLimit, live>>
      BY <3>3 DEF TypeOK, ManagerOK
    <3>4. QED
      BY <1>5, <3>1, <3>2, <3>3 DEF LockerDestroy
  <2>4. QED
    BY <1>5, <2>1, <2>2, <2>3 DEF LockerDestroy, TypeOK, ManagerOK, LockOK
<1>6. ASSUME NEW t \in Thread, ReleaseMutex(t) PROVE TypeOK'
  BY <1>6 DEF ReleaseMutex, Goto, PC, TypeOK
<1>7. ASSUME NEW t \in Thread, UnlockerCreate(t) PROVE TypeOK'
  <2>1. frames' \in [Thread -> Seq(Frame)] /\ ManagerOK' /\ pc' \in [Thread -> PC]
    BY <1>7, PushType, ArchiveType, GotoType DEF UnlockerCreate, Unlocking, Unlock, FrameKind, PC
  <2>2. QED
    BY <1>7, <2>1 DEF UnlockerCreate, Unlocking, Unlock, TypeOK, ManagerOK
<1>8. ASSUME NEW t \in Thread, UnlockerLock(t) PROVE TypeOK'
  BY <1>8 DEF UnlockerLock, Lock, Goto, PC, TypeOK
<1>9. ASSUME NEW t \in Thread, UnlockerRestore(t) PROVE TypeOK'
  <2>1. RestoredOK'
    BY <1>9, RestoreTrueType, RestoreNewType DEF UnlockerRestore
  <2>2. frames' \in [Thread -> Seq(Frame)] /\ pc' \in [Thread -> PC]
    BY <1>9, PopType, GotoType DEF UnlockerRestore, FrameInv, FrameOK, PC
  <2>3. QED
    BY <1>9, <2>1, <2>2 DEF UnlockerRestore, TypeOK, RestoredOK, ManagerOK, RootsSet
<1>10. ASSUME NEW t \in Thread, OpenScope(t) \/ CloseScope(t) PROVE TypeOK'
  <2>1. live' \in Data
    <3>1. \A n \in Int : [live EXCEPT !.scopes = n] \in Data
      BY DEF TypeOK, Data
    <3>2. live.scopes + 1 \in Int /\ live.scopes - 1 \in Int
      BY LiveType
    <3>3. QED
      BY <1>10, <3>1, <3>2 DEF OpenScope, CloseScope
  <2>2. CASE OpenScope(t)
    <3>1. scopes' \in [Thread -> Nat]
      BY <2>2 DEF OpenScope, TypeOK
    <3>2. UNCHANGED <<managerVars, lockVars, frames, postponed, isolateVars, switcherVars, roots, pc>>
      BY <2>2 DEF OpenScope
    <3>3. QED
      BY <2>1, <3>1, <3>2 DEF TypeOK
  <2>3. CASE CloseScope(t)
    <3>1. Top(t) \in Frame
      BY <2>3 DEF CloseScope, Running, Inside, Top, TypeOK
    <3>2. scopes[t] - 1 \in Nat
      BY <2>3, <3>1 DEF CloseScope, TypeOK, Frame
    <3>3. scopes' \in [Thread -> Nat]
      BY <2>3, <3>2 DEF CloseScope, TypeOK
    <3>4. UNCHANGED <<managerVars, lockVars, frames, postponed, isolateVars, switcherVars, roots, pc>>
      BY <2>3 DEF CloseScope
    <3>5. QED
      BY <2>1, <3>3, <3>4 DEF TypeOK
  <2>4. QED
    BY <1>10, <2>2, <2>3
<1>11. ASSUME NEW t \in Thread, PostponeInterrupts(t) PROVE TypeOK'
  <2>1. reset_limits([live.guard EXCEPT !.postpone = @ + 1]) \in ThreadLocal
    <3>1. [live.guard EXCEPT !.postpone = @ + 1] \in ThreadLocal
      BY LiveType DEF ThreadLocal
    <3>2. QED
      BY <3>1 DEF reset_limits, ThreadLocal, Limit
  <2>2. live' \in Data /\ roots' \in RootsSet
    BY <1>11, <2>1, GuardStepType DEF PostponeInterrupts
  <2>3. postponed' \in [Thread -> Nat]
    BY <1>11 DEF PostponeInterrupts, TypeOK
  <2>4. UNCHANGED <<managerVars, lockVars, frames, scopes, isolateVars, switcherVars, pc>>
    BY <1>11 DEF PostponeInterrupts
  <2>5. QED
    BY <2>2, <2>3, <2>4 DEF TypeOK, RootsSet
<1>12. ASSUME NEW t \in Thread, AllowInterrupts(t) PROVE TypeOK'
  <2> DEFINE g == [live.guard EXCEPT !.postpone = @ - 1]
  <2>1. g \in ThreadLocal /\ EnableInterrupts(g) \in ThreadLocal
    <3>1. g \in ThreadLocal
      BY LiveType DEF ThreadLocal
    <3>2. QED
      BY <3>1 DEF EnableInterrupts, set_interrupt_limits, ThreadLocal, Limit
  <2>2. live' \in Data /\ roots' \in RootsSet
    <3>1. \A h \in ThreadLocal : [live EXCEPT !.guard = h] \in Data
      BY DEF TypeOK, Data
    <3>2. live' \in Data
      BY <1>12, <2>1, <3>1 DEF AllowInterrupts
    <3>3. roots' = Roots(live'.guard) \/ UNCHANGED roots
      BY <1>12 DEF AllowInterrupts
    <3>4. live'.guard \in ThreadLocal
      BY <3>2 DEF Data
    <3>5. roots' \in RootsSet
      BY <3>3, <3>4, RootsType DEF TypeOK, RootsSet
    <3>6. QED
      BY <3>2, <3>5
  <2>3. Top(t) \in Frame
    BY <1>12 DEF AllowInterrupts, Running, Inside, Top, TypeOK
  <2>4. postponed[t] - 1 \in Nat
    BY <1>12, <2>3 DEF AllowInterrupts, TypeOK, Frame
  <2>5. QED
    BY <1>12, <2>2, <2>4 DEF AllowInterrupts, TypeOK, RootsSet
<1>13. ASSUME NEW t \in Thread, SetResourceConstraints(t) PROVE TypeOK'
  <2>1. SetStackLimit(live.guard, CustomLimit[t]) \in ThreadLocal
    BY LiveType, LimitsType, SetStackLimitType
  <2>2. live' \in Data
    BY <1>13, <2>1 DEF SetResourceConstraints, TypeOK, Data
  <2>3. QED
    BY <1>13, <2>2 DEF SetResourceConstraints, TypeOK
<1>14. ASSUME NEW t \in Thread, HandlePreempt(t) PROVE TypeOK'
  <2>1. frames' \in [Thread -> Seq(Frame)] /\ ManagerOK' /\ pc' \in [Thread -> PC]
    BY <1>14, PushType, ArchiveType, GotoType DEF HandlePreempt, Unlocking, Unlock, FrameKind, PC
  <2>2. live' \in Data /\ roots' \in RootsSet
    BY <1>14, ContinueAfterType DEF HandlePreempt, InterruptFlag
  <2>3. QED
    BY <1>14, <2>1, <2>2 DEF HandlePreempt, Unlocking, Unlock, TypeOK, ManagerOK, RootsSet
<1>15. ASSUME NEW t \in Thread, HandleTerminate(t) PROVE TypeOK'
  <2>1. live' \in Data /\ roots' \in RootsSet
    BY <1>15, ContinueAfterType DEF HandleTerminate, InterruptFlag, TypeOK, RootsSet
  <2>2. QED
    BY <1>15, <2>1 DEF HandleTerminate, Goto, PC, TypeOK, RootsSet
<1>16. ASSUME NEW t \in Thread, StartPreemption(t) PROVE TypeOK'
  BY <1>16 DEF StartPreemption, TypeOK
<1>17. ASSUME NEW t \in Thread, StopPreemption(t) PROVE TypeOK'
  BY <1>17 DEF StopPreemption, Goto, PC, TypeOK
<1>18. ASSUME NEW t \in Thread, JoinSwitcher(t) PROVE TypeOK'
  BY <1>18 DEF JoinSwitcher, Goto, PC, TypeOK
<1>19. ASSUME NEW t \in Thread, NEW id \in Thread, TerminateExecution(t, id) PROVE TypeOK'
  <2>1. live' \in Data /\ roots' \in RootsSet
    BY <1>19, InterruptType DEF TerminateExecution, InterruptFlag, TypeOK, RootsSet
  <2>2. terminateOnRestore' \in [ThreadState -> BOOLEAN]
    BY <1>19, Zenon DEF TerminateExecution, TypeOK
  <2>3. QED
    BY <1>19, <2>1, <2>2 DEF TerminateExecution, TypeOK, RootsSet
<1>20. ASSUME TerminateCurrent PROVE TypeOK'
  <2>1. live' \in Data /\ roots' \in RootsSet
    BY <1>20, InterruptType DEF TerminateCurrent, InterruptFlag
  <2>2. QED
    BY <1>20, <2>1 DEF TerminateCurrent, TypeOK, RootsSet
<1>21. ASSUME SwitcherCheck PROVE TypeOK'
  BY <1>21 DEF SwitcherCheck, TypeOK
<1>22. ASSUME SwitcherPreempt PROVE TypeOK'
  <2>1. live' \in Data /\ roots' \in RootsSet
    BY <1>22, InterruptType DEF SwitcherPreempt, InterruptFlag
  <2>2. QED
    BY <1>22, <2>1 DEF SwitcherPreempt, TypeOK, RootsSet
<1>23. CASE UNCHANGED vars
  BY <1>23 DEF vars, TypeOK
<1>24. QED
  BY <1>1, <1>2, <1>3, <1>4, <1>5, <1>6, <1>7, <1>8, <1>9, <1>10, <1>11, <1>12, <1>13, <1>14,
     <1>15, <1>16, <1>17, <1>18, <1>19, <1>20, <1>21, <1>22, <1>23 DEF Next, Step

---------------------------------------------------------------------------
(* IInv is an invariant of ThreadManager: each part of it but OwnerInv, which *)
(* follows.  One lemma for each part, one step per action.                   *)

(* What pushing and popping a frame does.                                   *)

NewFrame(t, kind, b) ==
  [kind |-> kind, has_lock |-> b, top_level |-> TRUE,
   scopes |-> scopes[t], postponed |-> postponed[t]]

LEMMA PushAppends ==
  ASSUME TypeOK, NEW t \in Thread, NEW kind \in FrameKind, NEW b \in BOOLEAN, Push(t, kind, b)
  PROVE  /\ \A u \in Thread \ {t} : frames'[u] = frames[u]
         /\ Len(frames'[t]) = Len(frames[t]) + 1
         /\ \A i \in 1 .. Len(frames[t]) : frames'[t][i] = frames[t][i]
         /\ frames'[t] # <<>>
         /\ frames'[t][Len(frames[t]) + 1] = NewFrame(t, kind, b)
         /\ Top(t)' = NewFrame(t, kind, b)
<1> DEFINE f == NewFrame(t, kind, b)
<1>1. f \in Frame /\ frames[t] \in Seq(Frame)
  BY DEF TypeOK, Frame, NewFrame
<1>2. frames'[t] = Append(frames[t], f) /\ \A u \in Thread \ {t} : frames'[u] = frames[u]
  BY DEF TypeOK, Push, NewFrame
<1> HIDE DEF f
<1>3. /\ Len(Append(frames[t], f)) = Len(frames[t]) + 1
      /\ \A i \in 1 .. Len(frames[t]) : Append(frames[t], f)[i] = frames[t][i]
      /\ Append(frames[t], f)[Len(frames[t]) + 1] = f
      /\ Append(frames[t], f) # <<>>
  BY <1>1
<1>4. Top(t)' = f
  BY <1>2, <1>3 DEF Top
<1>5. f = NewFrame(t, kind, b)
  BY DEF f
<1>6. QED
  BY <1>2, <1>3, <1>4, <1>5

LEMMA PushTop ==
  ASSUME TypeOK, NEW t \in Thread, NEW kind \in FrameKind, NEW b \in BOOLEAN, Push(t, kind, b)
  PROVE  Top(t)'.kind = kind /\ Top(t)'.has_lock = b
<1>1. Top(t)' = NewFrame(t, kind, b)
  BY PushAppends
<1>2. NewFrame(t, kind, b).kind = kind /\ NewFrame(t, kind, b).has_lock = b
  BY DEF NewFrame
<1>3. QED
  BY <1>1, <1>2, Zenon

LEMMA PushLength ==
  ASSUME TypeOK, NEW t \in Thread, NEW kind \in FrameKind, NEW b \in BOOLEAN, Push(t, kind, b)
  PROVE  /\ Len(frames'[t]) = Len(frames[t]) + 1
         /\ \A i \in 1 .. Len(frames[t]) : frames'[t][i] = frames[t][i]
         /\ frames'[t][Len(frames[t]) + 1] = Top(t)'
BY PushAppends

LEMMA PushOthers ==
  ASSUME TypeOK, NEW t \in Thread, NEW kind \in FrameKind, NEW b \in BOOLEAN, Push(t, kind, b)
  PROVE  /\ \A u \in Thread \ {t} : frames'[u] = frames[u]
         /\ Top(t)'.top_level = TRUE
         /\ Top(t)'.scopes = scopes[t] /\ Top(t)'.postponed = postponed[t]
<1>1. Top(t)' = NewFrame(t, kind, b) /\ \A u \in Thread \ {t} : frames'[u] = frames[u]
  BY PushAppends
<1>2. LET f == NewFrame(t, kind, b)
      IN  f.top_level = TRUE /\ f.scopes = scopes[t] /\ f.postponed = postponed[t]
  BY DEF NewFrame
<1>3. QED
  BY <1>1, <1>2, Zenon

LEMMA PushEffect ==
  ASSUME TypeOK, NEW t \in Thread, NEW kind \in FrameKind, NEW b \in BOOLEAN, Push(t, kind, b)
  PROVE  /\ \A u \in Thread \ {t} : frames'[u] = frames[u]
         /\ Len(frames'[t]) = Len(frames[t]) + 1
         /\ \A i \in 1 .. Len(frames[t]) : frames'[t][i] = frames[t][i]
         /\ frames'[t] # <<>>
         /\ Top(t)'.kind = kind /\ Top(t)'.has_lock = b /\ Top(t)'.top_level = TRUE
         /\ Top(t)'.scopes = scopes[t] /\ Top(t)'.postponed = postponed[t]
         /\ frames'[t][Len(frames[t]) + 1] = Top(t)'
<1>1. frames'[t] # <<>>
  BY PushAppends
<1>2. /\ Len(frames'[t]) = Len(frames[t]) + 1
      /\ \A i \in 1 .. Len(frames[t]) : frames'[t][i] = frames[t][i]
      /\ frames'[t][Len(frames[t]) + 1] = Top(t)'
  BY PushLength
<1>3. Top(t)'.kind = kind /\ Top(t)'.has_lock = b
  BY PushTop, Zenon
<1>4. /\ \A u \in Thread \ {t} : frames'[u] = frames[u]
      /\ Top(t)'.top_level = TRUE
      /\ Top(t)'.scopes = scopes[t] /\ Top(t)'.postponed = postponed[t]
  BY PushOthers, Zenon
<1>5. QED
  BY <1>1, <1>2, <1>3, <1>4, Zenon

LEMMA PopEffect ==
  ASSUME TypeOK, NEW t \in Thread, frames[t] # <<>>, Pop(t)
  PROVE  /\ \A u \in Thread \ {t} : frames'[u] = frames[u]
         /\ Len(frames'[t]) = Len(frames[t]) - 1
         /\ \A i \in 1 .. Len(frames[t]) - 1 : frames'[t][i] = frames[t][i]
         /\ frames'[t] = <<>> <=> Len(frames[t]) = 1
         /\ Len(frames[t]) > 1 => Top(t)' = frames[t][Len(frames[t]) - 1]
<1>1. frames[t] \in Seq(Frame) /\ Len(frames[t]) \in Nat /\ Len(frames[t]) > 0
  BY DEF TypeOK
<1>2. frames'[t] = Popped(t) /\ \A u \in Thread \ {t} : frames'[u] = frames[u]
  BY DEF TypeOK, Pop
<1>3. /\ Len(Popped(t)) = Len(frames[t]) - 1
      /\ \A i \in 1 .. Len(frames[t]) - 1 : Popped(t)[i] = frames[t][i]
      /\ Popped(t) = <<>> <=> Len(frames[t]) = 1
  <2>1. /\ Popped(t) \in Seq(Frame) /\ Len(Popped(t)) = Len(frames[t]) - 1
        /\ \A i \in 1 .. Len(frames[t]) - 1 : Popped(t)[i] = frames[t][i]
    BY <1>1 DEF Popped
  <2>2. Popped(t) = <<>> <=> Len(Popped(t)) = 0
    BY <2>1, EmptySeq
  <2>3. QED
    BY <1>1, <2>1, <2>2
<1>4. QED
  BY <1>1, <1>2, <1>3 DEF Top

LEMMA SetTopEffect ==
  ASSUME TypeOK, NEW t \in Thread, frames[t] # <<>>,
         frames' = [frames EXCEPT ![t] = Append(Popped(t), [Top(t) EXCEPT !.top_level = FALSE])]
  PROVE  /\ \A u \in Thread \ {t} : frames'[u] = frames[u]
         /\ Len(frames'[t]) = Len(frames[t])
         /\ \A i \in 1 .. Len(frames[t]) - 1 : frames'[t][i] = frames[t][i]
         /\ frames'[t] # <<>>
         /\ frames'[t][Len(frames[t])] = Top(t)'
         /\ Top(t)'.kind = Top(t).kind /\ Top(t)'.has_lock = Top(t).has_lock
         /\ Top(t)'.top_level = FALSE
         /\ Top(t)'.scopes = Top(t).scopes /\ Top(t)'.postponed = Top(t).postponed
<1> DEFINE f == [Top(t) EXCEPT !.top_level = FALSE]
<1>1. frames[t] \in Seq(Frame) /\ Len(frames[t]) \in Nat /\ Len(frames[t]) > 0
  BY DEF TypeOK
<1>2. f \in Frame /\ Popped(t) \in Seq(Frame)
  BY TopType DEF Frame
<1>3. frames'[t] = Append(Popped(t), f) /\ \A u \in Thread \ {t} : frames'[u] = frames[u]
  BY DEF TypeOK
<1>4. /\ Len(Popped(t)) = Len(frames[t]) - 1
      /\ \A i \in 1 .. Len(frames[t]) - 1 : Popped(t)[i] = frames[t][i]
  BY <1>1 DEF Popped
<1>0. /\ f.kind = Top(t).kind /\ f.has_lock = Top(t).has_lock /\ f.top_level = FALSE
      /\ f.scopes = Top(t).scopes /\ f.postponed = Top(t).postponed
  <2>1. Top(t) \in Frame
    BY TopType
  <2>2. QED
    BY <2>1 DEF Frame
<1> HIDE DEF f
<1>5. /\ Len(Append(Popped(t), f)) = Len(frames[t])
      /\ \A i \in 1 .. Len(frames[t]) - 1 : Append(Popped(t), f)[i] = frames[t][i]
      /\ Append(Popped(t), f)[Len(frames[t])] = f
      /\ Append(Popped(t), f) # <<>>
  BY <1>1, <1>2, <1>4
<1>6. Top(t)' = f
  BY <1>3, <1>5 DEF Top
<1>7. QED
  BY <1>0, <1>3, <1>5, <1>6

\* What stands under the top frame.
LEMMA PopNesting ==
  ASSUME TypeOK, FrameInv, NEW t \in Thread, frames[t] # <<>>, Pop(t)
  PROVE  /\ Top(t).kind = "Locker" /\ Top(t).has_lock
              => frames'[t] = <<>> \/ Top(t)'.kind # "Locker"
         /\ Top(t).kind # "Locker" \/ ~Top(t).has_lock
              => frames'[t] # <<>> /\ Top(t)'.kind = "Locker"
<1> DEFINE Outer == Top(t).kind = "Locker" /\ Top(t).has_lock
                      => frames'[t] = <<>> \/ Top(t)'.kind # "Locker"
           Inner == Top(t).kind # "Locker" \/ ~Top(t).has_lock
                      => frames'[t] # <<>> /\ Top(t)'.kind = "Locker"
<1> SUFFICES Outer /\ Inner
  OBVIOUS
<1>1. Len(frames[t]) \in Nat /\ Len(frames[t]) > 0 /\ WellNested(frames[t])
  BY DEF TypeOK, FrameInv, FrameOK
<1>2. CASE Len(frames[t]) = 1
  <2>1. frames'[t] = <<>>
    BY <1>2, PopEffect
  <2>2. Top(t) = frames[t][1]
    BY <1>2 DEF Top
  <2>3. QED
    BY <1>1, <2>1, <2>2 DEF WellNested
<1>3. CASE Len(frames[t]) > 1
  <2>1. frames'[t] # <<>> /\ Top(t)' = frames[t][Len(frames[t]) - 1]
    BY <1>1, <1>3, PopEffect
  <2>2. frames[t][Len(frames[t]) - 1].kind = "Locker"
          <=> Top(t).kind # "Locker" \/ ~Top(t).has_lock
    <3>1. Len(frames[t]) \in 2 .. Len(frames[t])
      BY <1>1, <1>3
    <3>2. QED
      BY <1>1, <3>1 DEF WellNested, Top
  <2>3. QED
    BY <2>1, <2>2, Zenon
<1>4. Len(frames[t]) = 1 \/ Len(frames[t]) > 1
  <2> DEFINE n == Len(frames[t])
  <2>1. n \in Nat /\ n > 0
    BY <1>1
  <2> HIDE DEF n
  <2>2. n = 1 \/ n > 1
    BY <2>1
  <2>3. QED
    BY <2>2 DEF n
<1> HIDE DEF Outer, Inner
<1>5. QED
  BY <1>2, <1>3, <1>4

\* A thread whose frames and control point are left alone.
LEMMA SameControl ==
  ASSUME NEW u \in Thread, frames'[u] = frames[u], pc'[u] = pc[u]
  PROVE  /\ Top(u)' = Top(u)
         /\ Running(u)' <=> Running(u)
         /\ Locked(u)' <=> Locked(u)
         /\ Parked(u)' <=> Parked(u)
BY DEF Top, Running, Inside, Locked, Parked

LEMMA GotoEffect ==
  ASSUME TypeOK, NEW t \in Thread, NEW label, Goto(t, label)
  PROVE  pc'[t] = label /\ \A u \in Thread \ {t} : pc'[u] = pc[u]
BY DEF TypeOK, Goto

---------------------------------------------------------------------------
(* LockInv.                                                                 *)

\* It is enough to look at the thread that takes the step.
LEMMA LockInvLocal ==
  ASSUME TypeOK, LockInv, NEW t \in Thread,
         \A u \in Thread \ {t} : frames'[u] = frames[u] /\ pc'[u] = pc[u],
         \/ mutex' = mutex /\ mutexOwner' = mutexOwner
         \/ mutex = NoThread /\ mutex' = t /\ mutexOwner' = t
         \/ mutex = t /\ mutex' \in {t, NoThread} /\ mutexOwner' = NoThread,
         /\ Locked(t)' => mutex' = t /\ mutexOwner' = t
         /\ pc'[t] = "unlocking" => mutex' = t /\ mutexOwner' = NoThread
         /\ ~Locked(t)' /\ pc'[t] # "unlocking" => mutex' # t /\ mutexOwner' # t
  PROVE  LockInv'
<1>1. ASSUME NEW u \in Thread \ {t}
      PROVE  /\ Locked(u)' => mutex' = u /\ mutexOwner' = u
             /\ pc'[u] = "unlocking" => mutex' = u /\ mutexOwner' = NoThread
             /\ ~Locked(u)' /\ pc'[u] # "unlocking" => mutex' # u /\ mutexOwner' # u
  <2>1. pc'[u] = pc[u] /\ Locked(u)' <=> Locked(u)
    BY SameControl
  <2>2. /\ Locked(u) => mutex = u /\ mutexOwner = u
        /\ pc[u] = "unlocking" => mutex = u /\ mutexOwner = NoThread
        /\ ~Locked(u) /\ pc[u] # "unlocking" => mutex # u /\ mutexOwner # u
    BY DEF LockInv
  <2>3. QED
    BY <2>1, <2>2, ThreadAssumption
<1>2. QED
  BY <1>1 DEF LockInv

\* The steps that take no part in locking, archiving and nesting.
Quiet == /\ UNCHANGED <<lockVars, frames, pc, lazyThread, lazyState, free, inUse, stateId,
                        archive, threadState, entered, running, stackLimit>>
         /\ \A s \in ThreadState : s \notin inUse => terminateOnRestore'[s] = terminateOnRestore[s]
         /\ \A u \in Thread : ~Running(u) => scopes'[u] = scopes[u] /\ postponed'[u] = postponed[u]

LEMMA NextCases ==
  ASSUME TypeOK, Next
  PROVE  \/ \E t \in Thread :
              \/ LockerLock(t) \/ LockerEnter(t) \/ LockerRestore(t) \/ LockerInit(t)
              \/ LockerDestroy(t) \/ ReleaseMutex(t)
              \/ UnlockerCreate(t) \/ UnlockerLock(t) \/ UnlockerRestore(t)
              \/ HandlePreempt(t) \/ HandleTerminate(t) \/ StopPreemption(t) \/ JoinSwitcher(t)
         \/ Quiet
<1> USE DEF managerVars, lockVars, stackVars, isolateVars
<1>1. ASSUME NEW t \in Thread, OpenScope(t) \/ CloseScope(t) PROVE Quiet
  BY <1>1 DEF OpenScope, CloseScope, Quiet, TypeOK
<1>2. ASSUME NEW t \in Thread, PostponeInterrupts(t) \/ AllowInterrupts(t) PROVE Quiet
  BY <1>2 DEF PostponeInterrupts, AllowInterrupts, Quiet, TypeOK
<1>3. ASSUME NEW t \in Thread, SetResourceConstraints(t) \/ StartPreemption(t) PROVE Quiet
  BY <1>3 DEF SetResourceConstraints, StartPreemption, Quiet
<1>4. ASSUME NEW t \in Thread, NEW id \in Thread, TerminateExecution(t, id) PROVE Quiet
  BY <1>4 DEF TerminateExecution, Quiet, TypeOK
<1>5. ASSUME TerminateCurrent \/ SwitcherCheck \/ SwitcherPreempt PROVE Quiet
  BY <1>5 DEF TerminateCurrent, SwitcherCheck, SwitcherPreempt, Quiet
<1>6. QED
  BY <1>1, <1>2, <1>3, <1>4, <1>5 DEF Next, Step

LEMMA LockInvStep ==
  ASSUME TypeOK, FrameInv, LockInv, Next
  PROVE  LockInv'
<1> USE DEF lockVars, stackVars
<1>1. ASSUME NEW t \in Thread, LockerLock(t) PROVE LockInv'
  <2>1. /\ \A u \in Thread \ {t} : frames'[u] = frames[u]
        /\ frames'[t] # <<>> /\ Top(t)'.kind = "Locker"
    <3>1. PICK b \in BOOLEAN : Push(t, "Locker", b)
      BY <1>1, Zenon DEF LockerLock
    <3>2. QED
      BY <3>1, PushEffect DEF FrameKind
  <2>2. CASE IsLockedByCurrentThread(t)
    <3>1. mutexOwner = t /\ UNCHANGED <<mutex, mutexOwner, pc>>
      BY <1>1, <2>2 DEF LockerLock, IsLockedByCurrentThread
    <3>2. Locked(t) /\ mutex = t /\ pc[t] = "idle"
      BY <1>1, <3>1, ThreadAssumption DEF LockInv, LockerLock, MayPush
    <3>3. Locked(t)'
      BY <2>1, <3>1, <3>2 DEF Locked, Running, Inside
    <3>4. QED
      BY <2>1, <3>1, <3>2, <3>3, LockInvLocal
  <2>3. CASE ~IsLockedByCurrentThread(t)
    <3>1. mutex = NoThread /\ mutex' = t /\ mutexOwner' = t /\ Goto(t, "entering")
      BY <1>1, <2>3 DEF LockerLock, Lock
    <3>2. pc'[t] = "entering" /\ \A u \in Thread \ {t} : pc'[u] = pc[u]
      BY <3>1, GotoEffect
    <3>3. QED
      BY <2>1, <3>1, <3>2, LockInvLocal DEF Locked
  <2>4. QED
    BY <2>2, <2>3
<1>2. ASSUME NEW t \in Thread, LockerEnter(t) \/ LockerInit(t) \/ HandleTerminate(t) \/ StopPreemption(t) \/ JoinSwitcher(t)
      PROVE  LockInv'
  <2>1. UNCHANGED <<mutex, mutexOwner, frames>> /\ Locked(t) /\ pc[t] # "unlocking"
    BY <1>2 DEF LockerEnter, LockerInit, HandleTerminate, StopPreemption, JoinSwitcher, Locked, Running, Inside
  <2>2. \E label \in {"restoring", "idle", "joining"} : Goto(t, label)
    BY <1>2 DEF LockerEnter, LockerInit, HandleTerminate, StopPreemption, JoinSwitcher
  <2>3. pc'[t] \in {"restoring", "idle", "joining"} /\ \A u \in Thread \ {t} : pc'[u] = pc[u]
    BY <2>2, GotoEffect
  <2>4. pc'[t] = "idle" => frames[t] # <<>> /\ Top(t).kind = "Locker"
    BY <1>2, <2>3, GotoEffect DEF LockerEnter, LockerInit, HandleTerminate, StopPreemption, JoinSwitcher, FrameInv, FrameOK, Running, Inside
  <2>5. Locked(t)' /\ pc'[t] # "unlocking"
    BY <2>1, <2>3, <2>4 DEF Locked, Running, Inside, Top
  <2>6. mutex = t /\ mutexOwner = t
    BY <2>1 DEF LockInv
  <2>7. QED
    BY <2>1, <2>3, <2>5, <2>6, LockInvLocal
<1>3. ASSUME NEW t \in Thread, LockerRestore(t) PROVE LockInv'
  <2>1. UNCHANGED <<mutex, mutexOwner>> /\ mutex = t /\ mutexOwner = t /\ frames[t] # <<>> /\ Top(t).kind = "Locker"
    BY <1>3 DEF LockerRestore, LockInv, Locked, FrameInv, FrameOK
  <2>2. CASE frames' = [frames EXCEPT ![t] = Append(Popped(t), [Top(t) EXCEPT !.top_level = FALSE])]
             /\ Goto(t, "idle")
    <3>1. /\ Top(t)'.kind = Top(t).kind /\ frames'[t] # <<>>
          /\ \A u \in Thread \ {t} : frames'[u] = frames[u]
      BY <2>1, <2>2, SetTopEffect
    <3>2. Top(t)'.kind = "Locker"
      BY <2>1, <3>1
    <3>3. /\ frames'[t] # <<>> /\ UNCHANGED <<mutex, mutexOwner>>
          /\ pc'[t] = "idle" /\ \A u \in Thread \ {t} : pc'[u] = pc[u]
      BY <2>1, <2>2, <3>1, GotoEffect
    <3>4. QED
      BY <2>1, <3>1, <3>2, <3>3, LockInvLocal DEF Locked, Running, Inside
  <2>3. CASE UNCHANGED frames /\ Goto(t, "initing")
    BY <2>1, <2>3, GotoEffect, LockInvLocal DEF Locked
  <2>4. QED
    BY <1>3, <2>2, <2>3 DEF LockerRestore
<1>4. ASSUME NEW t \in Thread, LockerDestroy(t) PROVE LockInv'
  <2>1. /\ frames[t] # <<>> /\ Top(t).kind = "Locker" /\ pc[t] = "idle"
        /\ mutex = t /\ mutexOwner = t /\ Pop(t)
    BY <1>4 DEF LockerDestroy, LockInv, Locked, Running, Inside
  <2>2. \A u \in Thread \ {t} : frames'[u] = frames[u]
    BY <2>1, PopEffect
  <2>3. CASE ~Top(t).has_lock
    <3>1. UNCHANGED <<mutex, mutexOwner, pc>>
      BY <1>4, <2>3 DEF LockerDestroy
    <3>2. frames'[t] # <<>> /\ Top(t)'.kind = "Locker"
      BY <2>1, <2>3, PopNesting
    <3>3. QED
      BY <2>1, <2>2, <3>1, <3>2, LockInvLocal DEF Locked, Running, Inside
  <2>4. CASE Top(t).has_lock
    <3>1. mutexOwner' = NoThread /\ mutex' = mutex /\ Goto(t, "unlocking")
      BY <1>4, <2>4 DEF LockerDestroy, Unlock
    <3>2. QED
      BY <2>1, <2>2, <3>1, GotoEffect, LockInvLocal DEF Locked, Running, Inside
  <2>5. QED
    BY <2>3, <2>4
<1>5. ASSUME NEW t \in Thread, ReleaseMutex(t) PROVE LockInv'
  <2>1. /\ pc[t] = "unlocking" /\ Goto(t, "idle") /\ UNCHANGED <<frames, mutexOwner>>
        /\ mutex' = NoThread /\ mutex = t /\ mutexOwner = NoThread
    BY <1>5 DEF ReleaseMutex, LockInv
  <2>2. frames[t] = <<>> \/ Top(t).kind # "Locker"
    BY <2>1 DEF FrameInv, FrameOK
  <2>3. ~Locked(t)'
    BY <2>1, <2>2, GotoEffect DEF Locked, Running, Inside, Top
  <2>4. QED
    BY <2>1, <2>3, GotoEffect, LockInvLocal, ThreadAssumption
<1>6. ASSUME NEW t \in Thread, UnlockerCreate(t) \/ HandlePreempt(t) PROVE LockInv'
  <2>1. PICK kind \in {"Unlocker", "RuntimePreempt"} : Running(t) /\ Unlock(t) /\ Push(t, kind, FALSE)
    BY <1>6 DEF UnlockerCreate, HandlePreempt, Unlocking
  <2>2. mutex = t
    BY <2>1 DEF LockInv, Locked
  <2>3. \A u \in Thread \ {t} : frames'[u] = frames[u]
    BY <2>1, PushEffect DEF FrameKind
  <2>4. QED
    BY <2>1, <2>2, <2>3, GotoEffect, LockInvLocal DEF Unlock, Locked, Running, Inside
<1>7. ASSUME NEW t \in Thread, UnlockerLock(t) PROVE LockInv'
  BY <1>7, GotoEffect, LockInvLocal DEF UnlockerLock, Lock, Locked
<1>8. ASSUME NEW t \in Thread, UnlockerRestore(t) PROVE LockInv'
  <2>1. /\ frames[t] # <<>> /\ Top(t).kind # "Locker" /\ Pop(t)
        /\ mutex = t /\ mutexOwner = t /\ UNCHANGED <<mutex, mutexOwner>>
    BY <1>8 DEF UnlockerRestore, LockInv, Locked, FrameInv, FrameOK
  <2>2. \A u \in Thread \ {t} : frames'[u] = frames[u]
    BY <2>1, PopEffect
  <2>3. frames'[t] # <<>> /\ Top(t)'.kind = "Locker"
    BY <2>1, PopNesting
  <2>4. pc'[t] \in {"idle", "interrupted"} /\ \A u \in Thread \ {t} : pc'[u] = pc[u]
    BY <1>8, GotoEffect DEF UnlockerRestore
  <2>5. QED
    BY <2>1, <2>2, <2>3, <2>4, LockInvLocal DEF Locked, Running, Inside
<1>9. CASE Quiet
  <2>1. \A u \in Thread : Locked(u)' <=> Locked(u)
    BY <1>9, SameControl DEF Quiet
  <2>2. QED
    BY <1>9, <2>1 DEF Quiet, LockInv
<1>10. QED
  BY <1>1, <1>2, <1>3, <1>4, <1>5, <1>6, <1>7, <1>8, <1>9, NextCases

---------------------------------------------------------------------------
(* FrameInv.                                                                *)

LEMMA Nonempty ==
  ASSUME TypeOK, NEW t \in Thread
  PROVE  Len(frames[t]) \in Nat /\ (frames[t] = <<>> <=> Len(frames[t]) = 0)
<1>1. frames[t] \in Seq(Frame)
  BY DEF TypeOK
<1>2. QED
  BY <1>1, EmptySeq

\* What WellNested says of two neighbours.
LEMMA Neighbours ==
  ASSUME NEW f, NEW i \in 2 .. Len(f), WellNested(f)
  PROVE  f[i - 1].kind = "Locker" <=> f[i].kind # "Locker" \/ ~f[i].has_lock
BY DEF WellNested

LEMMA PushNesting ==
  ASSUME TypeOK, NEW t \in Thread, WellNested(frames[t]),
         NEW kind \in FrameKind, NEW b \in BOOLEAN, Push(t, kind, b),
         frames[t] = <<>> => kind = "Locker" /\ b /\ scopes[t] = 0 /\ postponed[t] = 0,
         frames[t] # <<>> => (Top(t).kind = "Locker" <=> kind # "Locker" \/ ~b)
  PROVE  WellNested(frames'[t])
<1>1. Len(frames[t]) \in Nat /\ (frames[t] = <<>> <=> Len(frames[t]) = 0)
  BY Nonempty
<1>2. /\ Len(frames'[t]) = Len(frames[t]) + 1
      /\ \A i \in 1 .. Len(frames[t]) : frames'[t][i] = frames[t][i]
      /\ frames'[t][Len(frames[t]) + 1] = Top(t)'
  BY PushLength, Zenon
<1>6. Top(t)'.kind = kind /\ Top(t)'.top_level = TRUE
  BY PushTop, PushOthers, Zenon
<1>7. Top(t)'.has_lock = b
  BY PushTop, Zenon
<1>8. Top(t)'.scopes = scopes[t] /\ Top(t)'.postponed = postponed[t]
  BY PushOthers, Zenon
<1>3. LET f == frames'[t][1] IN
        f.kind = "Locker" /\ f.has_lock /\ f.top_level /\ f.scopes = 0 /\ f.postponed = 0
  <2>1. CASE frames[t] = <<>>
    <3>1. frames'[t][1] = Top(t)'
      BY <1>1, <1>2, <2>1
    <3>2. QED
      BY <1>6, <1>7, <1>8, <2>1, <3>1, Zenon
  <2>2. CASE frames[t] # <<>>
    BY <1>1, <1>2, <2>2 DEF WellNested
  <2>3. QED
    BY <2>1, <2>2
<1>4. ASSUME NEW i \in 2 .. Len(frames'[t])
      PROVE  frames'[t][i - 1].kind = "Locker"
               <=> frames'[t][i].kind # "Locker" \/ ~frames'[t][i].has_lock
  <2>1. CASE i <= Len(frames[t])
    <3>1. /\ i \in 2 .. Len(frames[t]) /\ i - 1 \in 1 .. Len(frames[t])
          /\ i \in 1 .. Len(frames[t])
      BY <1>1, <1>2, <2>1
    <3>2. frames'[t][i] = frames[t][i] /\ frames'[t][i - 1] = frames[t][i - 1]
      BY <1>2, <3>1
    <3>3. QED
      BY <3>1, <3>2, Neighbours
  <2>2. CASE i = Len(frames[t]) + 1
    <3>1. frames'[t][i - 1] = Top(t) /\ frames'[t][i] = Top(t)' /\ frames[t] # <<>>
      BY <1>1, <1>2, <2>2 DEF Top
    <3>2. QED
      BY <1>6, <1>7, <3>1
  <2>3. QED
    BY <1>1, <1>2, <2>1, <2>2
<1>5. QED
  BY <1>3, <1>4 DEF WellNested

LEMMA PopKeepsNesting ==
  ASSUME TypeOK, NEW t \in Thread, frames[t] # <<>>, WellNested(frames[t]), Pop(t)
  PROVE  WellNested(frames'[t])
<1>1. Len(frames[t]) \in Nat /\ Len(frames[t]) > 0
  BY Nonempty
<1>2. /\ Len(frames'[t]) = Len(frames[t]) - 1
      /\ \A i \in 1 .. Len(frames[t]) - 1 : frames'[t][i] = frames[t][i]
      /\ frames'[t] = <<>> <=> Len(frames[t]) = 1
  BY PopEffect
<1>3. ASSUME NEW i \in 2 .. Len(frames'[t])
      PROVE  frames'[t][i - 1].kind = "Locker"
               <=> frames'[t][i].kind # "Locker" \/ ~frames'[t][i].has_lock
  <2>1. /\ i \in 2 .. Len(frames[t]) /\ i - 1 \in 1 .. Len(frames[t]) - 1
        /\ i \in 1 .. Len(frames[t]) - 1
    BY <1>1, <1>2
  <2>2. frames'[t][i] = frames[t][i] /\ frames'[t][i - 1] = frames[t][i - 1]
    BY <1>2, <2>1
  <2>3. QED
    BY <2>1, <2>2, Neighbours
<1>4. frames'[t] # <<>> => frames'[t][1] = frames[t][1]
  BY <1>1, <1>2
<1>5. QED
  BY <1>3, <1>4 DEF WellNested

LEMMA SetTopNesting ==
  ASSUME TypeOK, NEW t \in Thread, Len(frames[t]) > 1, WellNested(frames[t]),
         frames' = [frames EXCEPT ![t] = Append(Popped(t), [Top(t) EXCEPT !.top_level = FALSE])]
  PROVE  WellNested(frames'[t])
<1>1. Len(frames[t]) \in Nat /\ frames[t] # <<>>
  BY Nonempty
<1>2. /\ Len(frames'[t]) = Len(frames[t])
      /\ \A i \in 1 .. Len(frames[t]) - 1 : frames'[t][i] = frames[t][i]
      /\ frames'[t][Len(frames[t])].kind = frames[t][Len(frames[t])].kind
      /\ frames'[t][Len(frames[t])].has_lock = frames[t][Len(frames[t])].has_lock
  BY <1>1, SetTopEffect DEF Top
<1>3. ASSUME NEW i \in 2 .. Len(frames'[t])
      PROVE  frames'[t][i - 1].kind = "Locker"
               <=> frames'[t][i].kind # "Locker" \/ ~frames'[t][i].has_lock
  <2>1. i \in 2 .. Len(frames[t]) /\ i - 1 \in 1 .. Len(frames[t]) - 1
    BY <1>1, <1>2
  <2>2. frames'[t][i - 1] = frames[t][i - 1]
    BY <1>2, <2>1
  <2>3. /\ frames'[t][i].kind = frames[t][i].kind
        /\ frames'[t][i].has_lock = frames[t][i].has_lock
    BY <1>1, <1>2, <2>1
  <2>4. QED
    BY <2>1, <2>2, <2>3, Neighbours
<1>4. frames'[t][1] = frames[t][1]
  BY <1>1, <1>2
<1>5. QED
  BY <1>1, <1>3, <1>4 DEF WellNested

\* A thread whose stack and control point are left alone.
LEMMA SameFrame ==
  ASSUME NEW u \in Thread, FrameOK(u), frames'[u] = frames[u], pc'[u] = pc[u],
         scopes'[u] = scopes[u], postponed'[u] = postponed[u]
  PROVE  FrameOK(u)'
BY DEF FrameOK, WellNested, Top, ScopesClosed

LEMMA RestoredIsInner ==
  ASSUME TypeOK, ArchiveInv, NEW t \in Thread, pc[t] = "restoring"
  PROVE  RestoreTrue(t) => Len(frames[t]) > 1
<1>1. ArchiveOK(t)
  BY DEF ArchiveInv
<1>2. RestoreTrue(t) => threadState[t] # NoState
  BY <1>1, ThreadAssumption DEF RestoreTrue, RestoreLazilyArchived, RestoreArchived, ArchiveInv, ArchiveOK
<1>3. QED
  BY <1>1, <1>2 DEF ArchiveOK, Parked

LEMMA RestoredIsNew ==
  ASSUME TypeOK, FrameInv, ArchiveInv, NEW t \in Thread, pc[t] = "restoring", RestoreNewThread(t)
  PROVE  Len(frames[t]) = 1
<1>1. ArchiveOK(t) /\ FrameOK(t)
  BY DEF ArchiveInv, FrameInv
<1>2. ~Parked(t)
  BY <1>1 DEF RestoreNewThread, ArchiveOK
<1>3. Len(frames[t]) \in Nat /\ Len(frames[t]) # 0
  BY <1>1, Nonempty DEF FrameOK
<1>4. ~(Len(frames[t]) > 1)
  BY <1>2 DEF Parked
<1>5. \A n \in Nat : n = 0 \/ n = 1 \/ n > 1
  OBVIOUS
<1>6. QED
  BY <1>3, <1>4, <1>5

\* It is enough to look at the thread that takes the step.
LEMMA FrameInvLocal ==
  ASSUME TypeOK, FrameInv, NEW t \in Thread, UNCHANGED <<scopes, postponed>>,
         \A u \in Thread \ {t} : frames'[u] = frames[u] /\ pc'[u] = pc[u], FrameOK(t)'
  PROVE  FrameInv'
<1>1. ASSUME NEW u \in Thread \ {t} PROVE FrameOK(u)'
  BY SameFrame DEF FrameInv
<1>2. QED
  BY <1>1 DEF FrameInv

\* A step that only moves t to another control point.
LEMMA FrameGoto ==
  ASSUME TypeOK, FrameInv, NEW t \in Thread, NEW label, Goto(t, label),
         UNCHANGED <<frames, scopes, postponed>>,
         label \in {"entering", "restoring", "initing"} =>
           frames[t] # <<>> /\ Top(t).kind = "Locker" /\ Top(t).has_lock /\ ScopesClosed(t),
         label = "initing" => Len(frames[t]) = 1,
         label = "relocking" => frames[t] # <<>> /\ Top(t).kind # "Locker",
         label \in {"interrupted", "joining"} => frames[t] # <<>> /\ Top(t).kind = "Locker",
         label = "unlocking" => frames[t] = <<>> \/ Top(t).kind # "Locker"
  PROVE  FrameInv'
<1>1. pc'[t] = label /\ \A u \in Thread \ {t} : pc'[u] = pc[u]
  BY GotoEffect
<1>2. Top(t)' = Top(t) /\ (ScopesClosed(t)' <=> ScopesClosed(t))
  BY DEF Top, ScopesClosed
<1>3. FrameOK(t)
  BY DEF FrameInv
<1>4. FrameOK(t)'
  BY <1>1, <1>2, <1>3 DEF FrameOK, WellNested
<1>5. QED
  BY <1>1, <1>4, FrameInvLocal

LEMMA FrameInvStep ==
  ASSUME TypeOK, FrameInv, LockInv, ArchiveInv, Next
  PROVE  FrameInv'
<1> USE DEF lockVars, stackVars
<1>1. ASSUME NEW t \in Thread, LockerLock(t) PROVE FrameInv'
  <2>1. FrameOK(t) /\ pc[t] = "idle"
    BY <1>1 DEF FrameInv, LockerLock, MayPush
  <2>2. CASE IsLockedByCurrentThread(t)
    <3>1. Push(t, "Locker", FALSE) /\ mutexOwner = t /\ UNCHANGED <<pc, scopes, postponed>>
      BY <1>1, <2>2 DEF LockerLock, IsLockedByCurrentThread
    <3>2. frames[t] # <<>> /\ Top(t).kind = "Locker"
      BY <2>1, <3>1, ThreadAssumption DEF LockInv, Locked, Running, Inside
    <3>3. WellNested(frames'[t])
      BY <2>1, <3>1, <3>2, PushNesting DEF FrameOK, FrameKind
    <3>4. frames'[t] # <<>> /\ \A u \in Thread \ {t} : frames'[u] = frames[u]
      BY <3>1, PushEffect DEF FrameKind
    <3>5. FrameOK(t)'
      BY <2>1, <3>1, <3>3, <3>4 DEF FrameOK
    <3>6. QED
      BY <3>1, <3>4, <3>5, FrameInvLocal
  <2>3. CASE ~IsLockedByCurrentThread(t)
    <3>1. /\ Push(t, "Locker", TRUE) /\ mutexOwner # t /\ Goto(t, "entering")
          /\ UNCHANGED <<scopes, postponed>>
      BY <1>1, <2>3 DEF LockerLock, IsLockedByCurrentThread
    <3>2. frames[t] # <<>> => Top(t).kind # "Locker"
      BY <2>1, <3>1 DEF LockInv, Locked, Running, Inside
    <3>3. frames[t] = <<>> => scopes[t] = 0 /\ postponed[t] = 0
      BY <2>1 DEF FrameOK
    <3>4. WellNested(frames'[t])
      BY <2>1, <3>1, <3>2, <3>3, PushNesting DEF FrameOK, FrameKind
    <3>5. frames'[t] # <<>> /\ \A u \in Thread \ {t} : frames'[u] = frames[u]
      BY <3>1, PushEffect DEF FrameKind
    <3>6. /\ Top(t)'.kind = "Locker" /\ Top(t)'.scopes = scopes[t]
          /\ Top(t)'.postponed = postponed[t]
      BY <3>1, PushEffect DEF FrameKind
    <3>7. Top(t)'.has_lock = TRUE
      BY <3>1, PushEffect DEF FrameKind
    <3>8. pc'[t] = "entering" /\ \A u \in Thread \ {t} : pc'[u] = pc[u]
      BY <3>1, GotoEffect
    <3>9. FrameOK(t)'
      BY <3>1, <3>4, <3>5, <3>6, <3>7, <3>8 DEF FrameOK, ScopesClosed
    <3>10. QED
      BY <3>1, <3>5, <3>8, <3>9, FrameInvLocal
  <2>4. QED
    BY <2>2, <2>3
<1>2. ASSUME NEW t \in Thread, LockerEnter(t) PROVE FrameInv'
  BY <1>2, FrameGoto DEF LockerEnter, FrameInv, FrameOK
<1>3. ASSUME NEW t \in Thread, LockerRestore(t) PROVE FrameInv'
  <2>1. FrameOK(t) /\ pc[t] = "restoring" /\ UNCHANGED <<scopes, postponed>>
    BY <1>3 DEF FrameInv, LockerRestore
  <2>2. CASE /\ RestoreTrue(t) /\ Goto(t, "idle")
             /\ frames' = [frames EXCEPT ![t] = Append(Popped(t), [Top(t) EXCEPT !.top_level = FALSE])]
    <3>1. Len(frames[t]) > 1 /\ frames[t] # <<>>
      BY <2>1, <2>2, RestoredIsInner DEF FrameOK
    <3>2. WellNested(frames'[t])
      BY <2>1, <2>2, <3>1, SetTopNesting DEF FrameOK
    <3>3. frames'[t] # <<>> /\ \A u \in Thread \ {t} : frames'[u] = frames[u]
      BY <2>2, <3>1, SetTopEffect
    <3>4. pc'[t] = "idle" /\ \A u \in Thread \ {t} : pc'[u] = pc[u]
      BY <2>2, GotoEffect
    <3>5. FrameOK(t)'
      BY <3>2, <3>3, <3>4 DEF FrameOK
    <3>6. QED
      BY <2>1, <3>3, <3>4, <3>5, FrameInvLocal
  <2>3. CASE RestoreNewThread(t) /\ Goto(t, "initing") /\ UNCHANGED frames
    <3>1. Len(frames[t]) = 1
      BY <2>1, <2>3, RestoredIsNew
    <3>2. QED
      BY <2>1, <2>3, <3>1, FrameGoto DEF FrameOK
  <2>4. QED
    BY <1>3, <2>2, <2>3 DEF LockerRestore
<1>4. ASSUME NEW t \in Thread, LockerDestroy(t) PROVE FrameInv'
  <2>1. /\ FrameOK(t) /\ pc[t] = "idle" /\ frames[t] # <<>> /\ Top(t).kind = "Locker"
        /\ Pop(t) /\ ScopesClosed(t) /\ UNCHANGED <<scopes, postponed>>
    BY <1>4 DEF LockerDestroy, FrameInv, Running, Inside
  <2>2. WellNested(frames'[t]) /\ \A u \in Thread \ {t} : frames'[u] = frames[u]
    BY <2>1, PopKeepsNesting, PopEffect DEF FrameOK
  <2>3. frames'[t] = <<>> => scopes'[t] = 0 /\ postponed'[t] = 0
    <3>1. frames'[t] = <<>> => Top(t) = frames[t][1]
      BY <2>1, PopEffect DEF Top
    <3>2. QED
      BY <2>1, <3>1 DEF FrameOK, WellNested, ScopesClosed
  <2>4. CASE ~Top(t).has_lock
    <3>1. frames'[t] # <<>> /\ UNCHANGED pc
      BY <1>4, <2>1, <2>4, PopNesting DEF LockerDestroy
    <3>2. FrameOK(t)'
      BY <2>1, <2>2, <3>1 DEF FrameOK
    <3>3. QED
      BY <2>1, <2>2, <3>1, <3>2, FrameInvLocal
  <2>5. CASE Top(t).has_lock
    <3>1. frames'[t] = <<>> \/ Top(t)'.kind # "Locker"
      BY <2>1, <2>5, PopNesting
    <3>2. pc'[t] = "unlocking" /\ \A u \in Thread \ {t} : pc'[u] = pc[u]
      BY <1>4, <2>5, GotoEffect DEF LockerDestroy, Unlock
    <3>3. FrameOK(t)'
      BY <2>2, <2>3, <3>1, <3>2 DEF FrameOK
    <3>4. QED
      BY <2>1, <2>2, <3>2, <3>3, FrameInvLocal
  <2>6. QED
    BY <2>4, <2>5
<1>5. ASSUME NEW t \in Thread, ReleaseMutex(t) PROVE FrameInv'
  BY <1>5, FrameGoto DEF ReleaseMutex
<1>6. ASSUME NEW t \in Thread, UnlockerCreate(t) \/ HandlePreempt(t) PROVE FrameInv'
  <2>1. PICK kind \in {"Unlocker", "RuntimePreempt"} : Running(t) /\ Unlock(t) /\ Push(t, kind, FALSE)
    BY <1>6 DEF UnlockerCreate, HandlePreempt, Unlocking
  <2>2. /\ FrameOK(t) /\ frames[t] # <<>> /\ Top(t).kind = "Locker"
        /\ UNCHANGED <<scopes, postponed>>
    BY <1>6, <2>1 DEF FrameInv, Running, Inside, UnlockerCreate, HandlePreempt
  <2>3. WellNested(frames'[t])
    BY <2>1, <2>2, PushNesting DEF FrameOK, FrameKind
  <2>4. /\ frames'[t] # <<>> /\ \A u \in Thread \ {t} : frames'[u] = frames[u]
        /\ Top(t)'.kind = kind
    BY <2>1, PushEffect DEF FrameKind
  <2>5. pc'[t] = "unlocking" /\ \A u \in Thread \ {t} : pc'[u] = pc[u]
    BY <2>1, GotoEffect DEF Unlock
  <2>6. FrameOK(t)'
    BY <2>3, <2>4, <2>5 DEF FrameOK
  <2>7. QED
    BY <2>2, <2>4, <2>5, <2>6, FrameInvLocal
<1>7. ASSUME NEW t \in Thread, UnlockerLock(t) PROVE FrameInv'
  BY <1>7, FrameGoto DEF UnlockerLock, Inside
<1>8. ASSUME NEW t \in Thread, UnlockerRestore(t) PROVE FrameInv'
  <2>1. /\ FrameOK(t) /\ frames[t] # <<>> /\ Top(t).kind # "Locker" /\ Pop(t)
        /\ UNCHANGED <<scopes, postponed>>
    BY <1>8 DEF UnlockerRestore, FrameInv, FrameOK
  <2>2. /\ WellNested(frames'[t]) /\ \A u \in Thread \ {t} : frames'[u] = frames[u]
        /\ frames'[t] # <<>> /\ Top(t)'.kind = "Locker"
    BY <2>1, PopKeepsNesting, PopEffect, PopNesting DEF FrameOK
  <2>3. pc'[t] \in {"idle", "interrupted"} /\ \A u \in Thread \ {t} : pc'[u] = pc[u]
    BY <1>8, GotoEffect DEF UnlockerRestore
  <2>4. FrameOK(t)'
    BY <2>2, <2>3 DEF FrameOK
  <2>5. QED
    BY <2>1, <2>2, <2>3, <2>4, FrameInvLocal
<1>9. ASSUME NEW t \in Thread, LockerInit(t) \/ HandleTerminate(t) \/ JoinSwitcher(t) PROVE FrameInv'
  BY <1>9, FrameGoto DEF LockerInit, HandleTerminate, JoinSwitcher
<1>10. ASSUME NEW t \in Thread, StopPreemption(t) PROVE FrameInv'
  BY <1>10, FrameGoto DEF StopPreemption, Running, Inside
<1>11. CASE Quiet
  <2>1. ASSUME NEW u \in Thread PROVE FrameOK(u)'
    <3>1. FrameOK(u) /\ frames'[u] = frames[u] /\ pc'[u] = pc[u]
      BY <1>11 DEF FrameInv, Quiet
    <3>2. CASE Running(u)
      BY <3>1, <3>2 DEF FrameOK, Running, Inside
    <3>3. CASE ~Running(u)
      BY <1>11, <3>1, <3>3, SameFrame DEF Quiet
    <3>4. QED
      BY <3>2, <3>3
  <2>2. QED
    BY <2>1 DEF FrameInv
<1>12. QED
  BY <1>1, <1>2, <1>3, <1>4, <1>5, <1>6, <1>7, <1>8, <1>9, <1>10, <1>11, NextCases

---------------------------------------------------------------------------
(* TopLevelInv.                                                             *)

OuterAgain(f) == f.kind = "Locker" /\ f.has_lock /\ f.top_level

LEMMA SameTopLevel ==
  ASSUME NEW u \in Thread, TopLevelOK(u), frames'[u] = frames[u], pc'[u] = pc[u]
  PROVE  TopLevelOK(u)'
BY DEF TopLevelOK

\* Outside its constructor no inner Locker takes itself for the outermost.
LEMMA NoOuterAgain ==
  ASSUME TopLevelInv, NEW t \in Thread, pc[t] \notin {"entering", "restoring"}
  PROVE  \A i \in 2 .. Len(frames[t]) : ~OuterAgain(frames[t][i])
BY DEF TopLevelInv, TopLevelOK, OuterAgain

\* A step of t that leaves or adds only harmless frames.
LEMMA TopLevelLocal ==
  ASSUME TopLevelInv, NEW t \in Thread,
         \A u \in Thread \ {t} : frames'[u] = frames[u] /\ pc'[u] = pc[u],
         \A i \in 2 .. Len(frames'[t]) : ~OuterAgain(frames'[t][i])
  PROVE  TopLevelInv'
<1>1. ASSUME NEW u \in Thread \ {t} PROVE TopLevelOK(u)'
  BY SameTopLevel DEF TopLevelInv
<1>2. TopLevelOK(t)'
  BY DEF TopLevelOK, OuterAgain
<1>3. QED
  BY <1>1, <1>2 DEF TopLevelInv

LEMMA TopLevelPush ==
  ASSUME TypeOK, TopLevelInv, NEW t \in Thread, pc[t] \notin {"entering", "restoring"},
         NEW kind \in FrameKind, NEW b \in BOOLEAN, Push(t, kind, b), kind # "Locker" \/ ~b,
         \A u \in Thread \ {t} : pc'[u] = pc[u]
  PROVE  TopLevelInv'
<1>1. \A i \in 2 .. Len(frames[t]) : ~OuterAgain(frames[t][i])
  BY NoOuterAgain
<1>2. /\ Len(frames'[t]) = Len(frames[t]) + 1 /\ Len(frames[t]) \in Nat
      /\ \A i \in 1 .. Len(frames[t]) : frames'[t][i] = frames[t][i]
      /\ frames'[t][Len(frames[t]) + 1] = Top(t)'
  <2>1. Len(frames[t]) \in Nat
    BY Nonempty
  <2>2. /\ Len(frames'[t]) = Len(frames[t]) + 1
        /\ \A i \in 1 .. Len(frames[t]) : frames'[t][i] = frames[t][i]
        /\ frames'[t][Len(frames[t]) + 1] = Top(t)'
    BY PushLength, Zenon
  <2>3. QED
    BY <2>1, <2>2
<1>3. Top(t)'.kind = kind
  BY PushTop, Zenon
<1>4. Top(t)'.has_lock = b
  BY PushTop, Zenon
<1>5. ~OuterAgain(Top(t)')
  BY <1>3, <1>4 DEF OuterAgain
<1>6. ASSUME NEW i \in 2 .. Len(frames'[t]) PROVE ~OuterAgain(frames'[t][i])
  <2>1. CASE i = Len(frames[t]) + 1
    BY <1>2, <1>5, <2>1
  <2>2. CASE i # Len(frames[t]) + 1
    <3>1. i \in 2 .. Len(frames[t]) /\ i \in 1 .. Len(frames[t])
      BY <1>2, <2>2
    <3>2. QED
      BY <1>1, <1>2, <3>1
  <2>3. QED
    BY <2>1, <2>2
<1>7. \A u \in Thread \ {t} : frames'[u] = frames[u]
  BY PushOthers, Zenon
<1>8. QED
  BY <1>6, <1>7, TopLevelLocal

LEMMA TopLevelPop ==
  ASSUME TypeOK, TopLevelInv, NEW t \in Thread, pc[t] \notin {"entering", "restoring"},
         frames[t] # <<>>, Pop(t), \A u \in Thread \ {t} : pc'[u] = pc[u]
  PROVE  TopLevelInv'
<1>1. \A i \in 2 .. Len(frames[t]) : ~OuterAgain(frames[t][i])
  BY NoOuterAgain
<1>2. /\ Len(frames'[t]) = Len(frames[t]) - 1 /\ Len(frames[t]) \in Nat
      /\ \A i \in 1 .. Len(frames[t]) - 1 : frames'[t][i] = frames[t][i]
  BY PopEffect, Nonempty
<1>3. ASSUME NEW i \in 2 .. Len(frames'[t]) PROVE ~OuterAgain(frames'[t][i])
  <2>1. i \in 2 .. Len(frames[t]) /\ i \in 1 .. Len(frames[t]) - 1
    BY <1>2
  <2>2. QED
    BY <1>1, <1>2, <2>1
<1>4. QED
  BY <1>3, PopEffect, TopLevelLocal

LEMMA TopLevelInvStep ==
  ASSUME TypeOK, FrameInv, LockInv, ArchiveInv, TopLevelInv, Next
  PROVE  TopLevelInv'
<1> USE DEF lockVars, stackVars
<1>1. ASSUME NEW t \in Thread, LockerLock(t) PROVE TopLevelInv'
  <2>1. pc[t] = "idle"
    BY <1>1 DEF LockerLock, MayPush
  <2>2. CASE IsLockedByCurrentThread(t)
    BY <1>1, <2>1, <2>2, TopLevelPush DEF LockerLock, FrameKind
  <2>3. CASE ~IsLockedByCurrentThread(t)
    <3>1. Push(t, "Locker", TRUE) /\ Goto(t, "entering")
      BY <1>1, <2>3 DEF LockerLock
    <3>2. pc'[t] = "entering" /\ \A u \in Thread \ {t} : pc'[u] = pc[u]
      BY <3>1, GotoEffect
    <3>3. /\ Len(frames'[t]) = Len(frames[t]) + 1 /\ Len(frames[t]) \in Nat
          /\ \A i \in 1 .. Len(frames[t]) : frames'[t][i] = frames[t][i]
          /\ \A u \in Thread \ {t} : frames'[u] = frames[u]
      BY <3>1, PushEffect, Nonempty DEF FrameKind
    <3>4. \A i \in 2 .. Len(frames[t]) : ~OuterAgain(frames[t][i])
      BY <2>1, NoOuterAgain
    <3>5. ASSUME NEW i \in 2 .. Len(frames'[t]), i # Len(frames'[t])
          PROVE  ~OuterAgain(frames'[t][i])
      <4>1. i \in 2 .. Len(frames[t]) /\ i \in 1 .. Len(frames[t])
        BY <3>3, <3>5
      <4>2. QED
        BY <3>3, <3>4, <4>1
    <3>6. TopLevelOK(t)'
      BY <3>2, <3>5 DEF TopLevelOK, OuterAgain
    <3>7. \A u \in Thread \ {t} : TopLevelOK(u)'
      BY <3>2, <3>3, SameTopLevel DEF TopLevelInv
    <3>8. QED
      BY <3>6, <3>7 DEF TopLevelInv
  <2>4. QED
    BY <2>2, <2>3
<1>2. ASSUME NEW t \in Thread, LockerEnter(t) PROVE TopLevelInv'
  <2>1. /\ pc[t] = "entering" /\ UNCHANGED frames /\ pc'[t] = "restoring"
        /\ \A u \in Thread \ {t} : pc'[u] = pc[u]
    BY <1>2, GotoEffect DEF LockerEnter
  <2>2. TopLevelOK(t)'
    BY <2>1 DEF TopLevelInv, TopLevelOK
  <2>3. \A u \in Thread \ {t} : TopLevelOK(u)'
    BY <2>1, SameTopLevel DEF TopLevelInv
  <2>4. QED
    BY <2>2, <2>3 DEF TopLevelInv
<1>3. ASSUME NEW t \in Thread, LockerRestore(t) PROVE TopLevelInv'
  <2>1. pc[t] = "restoring" /\ frames[t] # <<>> /\ Len(frames[t]) \in Nat
    BY <1>3, Nonempty DEF LockerRestore, FrameInv, FrameOK
  <2>2. CASE /\ Goto(t, "idle")
             /\ frames' = [frames EXCEPT ![t] = Append(Popped(t), [Top(t) EXCEPT !.top_level = FALSE])]
    <3>1. /\ \A u \in Thread \ {t} : frames'[u] = frames[u]
          /\ Len(frames'[t]) = Len(frames[t])
          /\ \A i \in 1 .. Len(frames[t]) - 1 : frames'[t][i] = frames[t][i]
      BY <2>1, <2>2, SetTopEffect
    <3>2. frames'[t][Len(frames[t])].top_level = FALSE
      BY <2>1, <2>2, SetTopEffect
    <3>3. ASSUME NEW i \in 2 .. Len(frames'[t]) PROVE ~OuterAgain(frames'[t][i])
      <4>1. CASE i = Len(frames[t])
        BY <3>2, <4>1 DEF OuterAgain
      <4>2. CASE i # Len(frames[t])
        <5>1. i \in 2 .. Len(frames[t]) /\ i \in 1 .. Len(frames[t]) - 1
          BY <2>1, <3>1, <4>2
        <5>2. ~OuterAgain(frames[t][i])
          BY <4>2, <5>1 DEF TopLevelInv, TopLevelOK, OuterAgain
        <5>3. QED
          BY <3>1, <5>1, <5>2
      <4>3. QED
        BY <4>1, <4>2
    <3>4. QED
      BY <2>2, <3>1, <3>3, GotoEffect, TopLevelLocal
  <2>3. CASE RestoreNewThread(t) /\ Goto(t, "initing") /\ UNCHANGED frames
    <3>1. Len(frames'[t]) = 1
      BY <2>1, <2>3, RestoredIsNew
    <3>2. QED
      BY <2>3, <3>1, GotoEffect, TopLevelLocal
  <2>4. QED
    BY <1>3, <2>2, <2>3 DEF LockerRestore
<1>4. ASSUME NEW t \in Thread, LockerDestroy(t) PROVE TopLevelInv'
  <2>1. pc[t] = "idle" /\ frames[t] # <<>> /\ Pop(t)
    BY <1>4 DEF LockerDestroy, Running, Inside
  <2>2. \A u \in Thread \ {t} : pc'[u] = pc[u]
    BY <1>4, GotoEffect DEF LockerDestroy, Unlock
  <2>3. QED
    BY <2>1, <2>2, TopLevelPop
<1>5. ASSUME NEW t \in Thread, UnlockerCreate(t) \/ HandlePreempt(t) PROVE TopLevelInv'
  <2>1. PICK kind \in {"Unlocker", "RuntimePreempt"} : Running(t) /\ Unlock(t) /\ Push(t, kind, FALSE)
    BY <1>5 DEF UnlockerCreate, HandlePreempt, Unlocking
  <2>2. pc[t] = "idle" /\ \A u \in Thread \ {t} : pc'[u] = pc[u]
    BY <2>1, GotoEffect DEF Unlock, Running, Inside
  <2>3. QED
    BY <2>1, <2>2, TopLevelPush DEF FrameKind
<1>6. ASSUME NEW t \in Thread, UnlockerRestore(t) PROVE TopLevelInv'
  <2>1. pc[t] = "relocking" /\ frames[t] # <<>> /\ Pop(t)
    BY <1>6 DEF UnlockerRestore, FrameInv, FrameOK
  <2>2. \A u \in Thread \ {t} : pc'[u] = pc[u]
    BY <1>6, GotoEffect DEF UnlockerRestore
  <2>3. QED
    BY <2>1, <2>2, TopLevelPop
<1>7. ASSUME NEW t \in Thread,
             \/ ReleaseMutex(t) \/ UnlockerLock(t) \/ LockerInit(t)
             \/ HandleTerminate(t) \/ StopPreemption(t) \/ JoinSwitcher(t)
      PROVE  TopLevelInv'
  <2>1. UNCHANGED frames /\ pc[t] \notin {"entering", "restoring"}
    BY <1>7 DEF ReleaseMutex, UnlockerLock, LockerInit, HandleTerminate, StopPreemption,
                JoinSwitcher, Running, Inside
  <2>2. \A u \in Thread \ {t} : pc'[u] = pc[u]
    BY <1>7, GotoEffect DEF ReleaseMutex, UnlockerLock, LockerInit, HandleTerminate,
                            StopPreemption, JoinSwitcher
  <2>3. QED
    BY <2>1, <2>2, NoOuterAgain, TopLevelLocal
<1>8. CASE Quiet
  BY <1>8, SameTopLevel DEF Quiet, TopLevelInv
<1>9. QED
  BY <1>1, <1>2, <1>3, <1>4, <1>5, <1>6, <1>7, <1>8, NextCases

---------------------------------------------------------------------------
(* ArchiveInv.                                                              *)

\* Nobody but t, which holds the lock, is inside V8.
LEMMA OthersOutside ==
  ASSUME LockInv, NEW t \in Thread, Locked(t) \/ pc[t] = "unlocking", NEW u \in Thread \ {t}
  PROVE  ~Locked(u) /\ pc[u] # "unlocking"
BY DEF LockInv

\* The four facts ArchiveOK states of one thread, after a step of another
\* one, t, that holds the lock and leaves u's ThreadState alone.
LEMMA ArchiveOther ==
  ASSUME LockInv, ArchiveInv, NEW t \in Thread, Locked(t), NEW u \in Thread \ {t},
         frames'[u] = frames[u], pc'[u] = pc[u], threadState'[u] = threadState[u],
         lazyThread' = u => threadState[u] = lazyState',
         threadState[u] # NoState => /\ threadState[u] \in inUse' \cup {lazyState'}
                                     /\ stateId'[threadState[u]] = u
  PROVE  ArchiveOK(u)'
<1>1. ~Locked(u)
  BY OthersOutside
<1>2. ~Running(u)' /\ pc'[u] \notin {"initing", "interrupted", "joining"}
  BY <1>1, SameControl DEF Locked
<1>3. Parked(u)' <=> Parked(u)
  BY SameControl
<1>4. threadState[u] # NoState <=> Parked(u)
  BY DEF ArchiveInv, ArchiveOK
<1>5. QED
  BY <1>2, <1>3, <1>4 DEF ArchiveOK

\* A step that changes no part of the ThreadManager.
LEMMA ArchiveSame ==
  ASSUME ArchiveInv, NEW t \in Thread, UNCHANGED managerVars,
         \A u \in Thread \ {t} : frames'[u] = frames[u] /\ pc'[u] = pc[u],
         Parked(t)' <=> Parked(t),
         Running(t)' \/ pc'[t] \in {"initing", "interrupted", "joining"} => lazyThread = NoThread
  PROVE  ArchiveInv'
<1> USE DEF managerVars
<1>1. ASSUME NEW u \in Thread \ {t} PROVE ArchiveOK(u)'
  <2>1. (Parked(u)' <=> Parked(u)) /\ (Running(u)' <=> Running(u))
    BY SameControl
  <2>2. QED
    BY <2>1 DEF ArchiveInv, ArchiveOK
<1>2. ArchiveOK(t)'
  BY DEF ArchiveInv, ArchiveOK
<1>3. QED
  BY <1>1, <1>2 DEF ArchiveInv

\* ThreadManager::ArchiveThread, and what may follow it.
LEMMA ArchiveThreadKeeps ==
  ASSUME TypeOK, LockInv, ArchiveInv, NEW t \in Thread, Running(t), ArchiveThread(t), Unlock(t),
         \A u \in Thread \ {t} : frames'[u] = frames[u],
         frames'[t] # <<>>, Top(t)'.kind # "Locker"
  PROVE  ArchiveInv'
<1>1. lazyThread = NoThread /\ lazyState = NoState
  BY DEF ArchiveInv, ArchiveOK
<1>2. PICK s \in ThreadState :
        /\ GetFreeThreadState(s) /\ free' = FreeWithout(s)
        /\ threadState' = [threadState EXCEPT ![t] = s]
        /\ lazyThread' = t /\ lazyState' = s
        /\ stateId' = [stateId EXCEPT ![s] = t] /\ UNCHANGED <<inUse, terminateOnRestore, archive>>
  BY DEF ArchiveThread
<1>3. s \notin inUse /\ s \notin free' /\ free' \subseteq free
  BY <1>2 DEF GetFreeThreadState, FreeWithout, Allocated, ArchiveInv
<1>4. pc'[t] = "unlocking" /\ \A u \in Thread \ {t} : pc'[u] = pc[u]
  BY GotoEffect DEF Unlock
<1>5. ASSUME NEW u \in Thread \ {t} PROVE ArchiveOK(u)'
  <2>1. threadState'[u] = threadState[u] /\ lazyThread' # u
    BY <1>2 DEF TypeOK
  <2>2. ASSUME threadState[u] # NoState
        PROVE  threadState[u] \in inUse' /\ stateId'[threadState[u]] = u
    <3>1. threadState[u] \in inUse /\ stateId[threadState[u]] = u
      BY <1>1, <2>2 DEF ArchiveInv, ArchiveOK
    <3>2. QED
      BY <1>2, <1>3, <3>1 DEF TypeOK
  <2>3. QED
    BY <1>4, <2>1, <2>2, ArchiveOther DEF Locked
<1>6. ArchiveOK(t)'
  <2>1. threadState'[t] = s /\ stateId'[s] = t
    BY <1>2 DEF TypeOK
  <2>2. Parked(t)' /\ ~Running(t)'
    BY <1>4 DEF Parked, Running, Inside
  <2>3. QED
    BY <1>2, <1>4, <2>1, <2>2, ThreadAssumption DEF ArchiveOK
<1>7. QED
  BY <1>2, <1>3, <1>5, <1>6, ThreadAssumption DEF ArchiveInv

\* Where the lazily archived thread's state is, and whose it is.
LEMMA LazyFacts ==
  ASSUME TypeOK, ArchiveInv
  PROVE  /\ Archiving => lazyThread \in Thread /\ lazyState \in ThreadState
                          /\ stateId[lazyState] = lazyThread
                          /\ threadState[lazyThread] = lazyState
         /\ ~Archiving => lazyState = NoState
         /\ free \cap InUseAfterArchiving = {}
         /\ \A u \in Thread : threadState[u] # NoState =>
              threadState[u] \in InUseAfterArchiving /\ stateId[threadState[u]] = u
<1>1. ASSUME Archiving
      PROVE  /\ lazyThread \in Thread /\ lazyState \in ThreadState
             /\ threadState[lazyThread] = lazyState /\ stateId[lazyState] = lazyThread
  BY <1>1 DEF Archiving, ArchiveInv, ArchiveOK, TypeOK
<1>2. ~Archiving => lazyState = NoState
  BY DEF Archiving, ArchiveInv
<1>3. free \cap InUseAfterArchiving = {}
  BY DEF InUseAfterArchiving, ArchiveInv
<1>4. \A u \in Thread : threadState[u] # NoState =>
        threadState[u] \in InUseAfterArchiving /\ stateId[threadState[u]] = u
  BY <1>2 DEF InUseAfterArchiving, ArchiveInv, ArchiveOK
<1>5. QED
  BY <1>1, <1>2, <1>3, <1>4

LEMMA RestoreTrueKeeps ==
  ASSUME TypeOK, LockInv, ArchiveInv, NEW t \in Thread, Locked(t), RestoreTrue(t),
         \A u \in Thread \ {t} : frames'[u] = frames[u] /\ pc'[u] = pc[u], ~Parked(t)'
  PROVE  ArchiveInv'
<1> SUFFICES /\ threadState'[t] = NoState
             /\ lazyThread' = NoThread /\ lazyState' = NoState
             /\ free' \in SUBSET ThreadState /\ inUse' \in SUBSET ThreadState
             /\ free' \cap inUse' = {}
             /\ \A u \in Thread \ {t} : /\ threadState'[u] = threadState[u]
                                        /\ threadState[u] # NoState =>
                                              /\ threadState[u] \in inUse'
                                              /\ stateId'[threadState[u]] = u
  <2>1. ASSUME NEW u \in Thread \ {t} PROVE ArchiveOK(u)'
    BY ArchiveOther, ThreadAssumption
  <2>2. ArchiveOK(t)'
    BY ThreadAssumption DEF ArchiveOK
  <2>3. QED
    BY <2>1, <2>2, ThreadAssumption DEF ArchiveInv
<1>1. CASE RestoreLazilyArchived(t)
  <2>1. /\ Archiving /\ lazyThread = t /\ lazyState \in ThreadState /\ lazyState \notin inUse
        /\ stateId[lazyState] = t
    BY <1>1, LazyFacts, ThreadAssumption DEF RestoreLazilyArchived, Archiving, ArchiveInv
  <2>2. /\ threadState' = [threadState EXCEPT ![t] = NoState]
        /\ stateId' = [stateId EXCEPT ![lazyState] = kInvalidId]
        /\ free' = free \cup {lazyState} /\ inUse' = inUse
        /\ lazyThread' = NoThread /\ lazyState' = NoState
    BY <1>1 DEF RestoreLazilyArchived
  <2>3. ASSUME NEW u \in Thread \ {t}, threadState[u] # NoState
        PROVE  threadState[u] \in inUse' /\ stateId'[threadState[u]] = u
    <3>1. threadState[u] \in inUse \cup {lazyState} /\ stateId[threadState[u]] = u
      BY <2>3 DEF ArchiveInv, ArchiveOK
    <3>2. threadState[u] # lazyState
      BY <2>1, <3>1
    <3>3. QED
      BY <2>2, <3>1, <3>2 DEF TypeOK
  <2>4. QED
    BY <2>1, <2>2, <2>3 DEF TypeOK, ArchiveInv
<1>2. CASE RestoreArchived(t)
  <2> DEFINE s == threadState[t]
  <2>1. s \in ThreadState /\ s \in InUseAfterArchiving /\ stateId[s] = t
    BY <1>2, LazyFacts DEF RestoreArchived, TypeOK
  <2>2. /\ threadState' = [threadState EXCEPT ![t] = NoState]
        /\ stateId' = [stateId EXCEPT ![s] = kInvalidId]
        /\ free' = free \cup {s} /\ inUse' = InUseAfterArchiving \ {s}
        /\ lazyThread' = NoThread /\ lazyState' = NoState
    BY <1>2 DEF RestoreArchived
  <2>3. ASSUME NEW u \in Thread \ {t}, threadState[u] # NoState
        PROVE  threadState[u] \in inUse' /\ stateId'[threadState[u]] = u
    <3>1. threadState[u] \in InUseAfterArchiving /\ stateId[threadState[u]] = u
      BY <2>3, LazyFacts
    <3>2. threadState[u] # s
      BY <2>1, <3>1
    <3>3. QED
      BY <2>2, <3>1, <3>2 DEF TypeOK
  <2>4. InUseAfterArchiving \in SUBSET ThreadState
    BY ArchivingType
  <2>5. QED
    BY <2>1, <2>2, <2>3, <2>4, LazyFacts DEF TypeOK
<1>3. QED
  BY <1>1, <1>2 DEF RestoreTrue

LEMMA RestoreNewKeeps ==
  ASSUME TypeOK, LockInv, ArchiveInv, NEW t \in Thread, Locked(t), RestoreNewThread(t),
         \A u \in Thread \ {t} : frames'[u] = frames[u] /\ pc'[u] = pc[u], ~Parked(t)'
  PROVE  ArchiveInv'
<1>1. /\ UNCHANGED <<free, stateId, threadState>> /\ inUse' = InUseAfterArchiving
      /\ lazyThread' = NoThread /\ lazyState' = NoState /\ threadState[t] = NoState
  BY DEF RestoreNewThread
<1>2. ASSUME NEW u \in Thread \ {t} PROVE ArchiveOK(u)'
  BY <1>1, ArchiveOther, LazyFacts, ThreadAssumption
<1>3. ArchiveOK(t)'
  BY <1>1, ThreadAssumption DEF ArchiveOK
<1>4. InUseAfterArchiving \in SUBSET ThreadState
  BY ArchivingType
<1>5. QED
  BY <1>1, <1>2, <1>3, <1>4, LazyFacts, ThreadAssumption DEF ArchiveInv, TypeOK

\* A Locker that takes itself for the outermost when it is destroyed is it.
LEMMA TopLevelIsOuter ==
  ASSUME TypeOK, TopLevelInv, NEW t \in Thread, Running(t), Top(t).has_lock, Top(t).top_level
  PROVE  Len(frames[t]) = 1
<1>1. Top(t).kind = "Locker" /\ pc[t] = "idle" /\ Len(frames[t]) \in Nat /\ Len(frames[t]) # 0
  BY Nonempty DEF Running, Inside
<1>2. \A i \in 2 .. Len(frames[t]) : ~OuterAgain(frames[t][i])
  BY <1>1, NoOuterAgain
<1>3. OuterAgain(Top(t)) /\ Top(t) = frames[t][Len(frames[t])]
  BY <1>1 DEF OuterAgain, Top
<1>4. Len(frames[t]) \notin 2 .. Len(frames[t])
  BY <1>2, <1>3
<1>5. \A n \in Nat : n = 0 \/ n = 1 \/ n \in 2 .. n
  OBVIOUS
<1>6. QED
  BY <1>1, <1>4, <1>5

\* And one that does not is inside an Unlocker.
LEMMA InnerIsInner ==
  ASSUME TypeOK, FrameInv, NEW t \in Thread, Running(t), Top(t).has_lock, ~Top(t).top_level, Pop(t)
  PROVE  frames'[t] # <<>> /\ Top(t)'.kind # "Locker"
<1>1. frames[t] # <<>> /\ Top(t).kind = "Locker" /\ WellNested(frames[t])
  BY DEF Running, Inside, FrameInv, FrameOK
<1>2. Len(frames[t]) # 1
  BY <1>1 DEF WellNested, Top
<1>3. frames'[t] # <<>>
  BY <1>1, <1>2, PopEffect
<1>4. QED
  BY <1>1, <1>3, PopNesting

LEMMA ArchiveInvStep ==
  ASSUME TypeOK, FrameInv, LockInv, TopLevelInv, ArchiveInv, Next
  PROVE  ArchiveInv'
<1> USE DEF lockVars, stackVars
<1>1. ASSUME NEW t \in Thread, LockerLock(t) PROVE ArchiveInv'
  <2>1. pc[t] = "idle" /\ UNCHANGED managerVars
    BY <1>1 DEF LockerLock, MayPush
  <2>2. CASE IsLockedByCurrentThread(t)
    <3>1. Push(t, "Locker", FALSE) /\ mutexOwner = t /\ UNCHANGED pc
      BY <1>1, <2>2 DEF LockerLock, IsLockedByCurrentThread
    <3>2. Running(t)
      BY <2>1, <3>1, ThreadAssumption DEF LockInv, Locked
    <3>3. /\ \A u \in Thread \ {t} : frames'[u] = frames[u]
          /\ frames'[t] # <<>> /\ Top(t)'.kind = "Locker"
      BY <3>1, PushEffect DEF FrameKind
    <3>4. ~Parked(t)' /\ ~Parked(t) /\ lazyThread = NoThread
      BY <2>1, <3>1, <3>2, <3>3 DEF Parked, Running, Inside, ArchiveInv, ArchiveOK
    <3>5. QED
      BY <2>1, <3>1, <3>3, <3>4, ArchiveSame
  <2>3. CASE ~IsLockedByCurrentThread(t)
    <3>1. Push(t, "Locker", TRUE) /\ mutexOwner # t /\ Goto(t, "entering")
      BY <1>1, <2>3 DEF LockerLock, IsLockedByCurrentThread
    <3>2. frames[t] # <<>> => Top(t).kind # "Locker"
      BY <2>1, <3>1 DEF LockInv, Locked, Running, Inside
    <3>3. Len(frames'[t]) = Len(frames[t]) + 1 /\ \A u \in Thread \ {t} : frames'[u] = frames[u]
      BY <3>1, PushEffect DEF FrameKind
    <3>4. pc'[t] = "entering" /\ \A u \in Thread \ {t} : pc'[u] = pc[u]
      BY <3>1, GotoEffect
    <3>5. Parked(t) <=> frames[t] # <<>>
      BY <2>1, <3>2 DEF Parked
    <3>6. Len(frames'[t]) > 1 <=> frames[t] # <<>>
      BY <3>3, Nonempty
    <3>7. Parked(t)' <=> Len(frames'[t]) > 1
      BY <3>4 DEF Parked
    <3>8. ~(Running(t)' \/ pc'[t] \in {"initing", "interrupted", "joining"})
      BY <3>4 DEF Running, Inside
    <3>9. Parked(t)' <=> Parked(t)
      BY <3>5, <3>6, <3>7
    <3>10. QED
      BY <2>1, <3>3, <3>4, <3>8, <3>9, ArchiveSame
  <2>4. QED
    BY <2>2, <2>3
<1>2. ASSUME NEW t \in Thread, LockerEnter(t) PROVE ArchiveInv'
  <2>1. /\ pc[t] = "entering" /\ UNCHANGED <<managerVars, frames>> /\ pc'[t] = "restoring"
        /\ \A u \in Thread \ {t} : pc'[u] = pc[u]
    BY <1>2, GotoEffect DEF LockerEnter
  <2>2. (Parked(t)' <=> Parked(t)) /\ ~Running(t)'
    BY <2>1 DEF Parked, Running, Inside
  <2>3. QED
    BY <2>1, <2>2, ArchiveSame
<1>3. ASSUME NEW t \in Thread, LockerRestore(t) PROVE ArchiveInv'
  <2>1. pc[t] = "restoring" /\ frames[t] # <<>> /\ Top(t).kind = "Locker" /\ Locked(t)
    BY <1>3 DEF LockerRestore, FrameInv, FrameOK, Locked
  <2>2. CASE /\ RestoreTrue(t) /\ Goto(t, "idle")
             /\ frames' = [frames EXCEPT ![t] = Append(Popped(t), [Top(t) EXCEPT !.top_level = FALSE])]
    <3>1. Top(t)'.kind = "Locker" /\ \A u \in Thread \ {t} : frames'[u] = frames[u]
      BY <2>1, <2>2, SetTopEffect
    <3>2. pc'[t] = "idle" /\ \A u \in Thread \ {t} : pc'[u] = pc[u]
      BY <2>2, GotoEffect
    <3>3. ~Parked(t)'
      BY <3>1, <3>2 DEF Parked
    <3>4. QED
      BY <2>1, <2>2, <3>1, <3>2, <3>3, RestoreTrueKeeps
  <2>3. CASE RestoreNewThread(t) /\ Goto(t, "initing") /\ UNCHANGED frames
    <3>1. pc'[t] = "initing" /\ \A u \in Thread \ {t} : pc'[u] = pc[u]
      BY <2>3, GotoEffect
    <3>2. ~Parked(t)'
      BY <3>1 DEF Parked
    <3>3. QED
      BY <2>1, <2>3, <3>1, <3>2, RestoreNewKeeps
  <2>4. QED
    BY <1>3, <2>2, <2>3 DEF LockerRestore
<1>4. ASSUME NEW t \in Thread, LockerDestroy(t) PROVE ArchiveInv'
  <2>1. Running(t) /\ frames[t] # <<>> /\ Top(t).kind = "Locker" /\ pc[t] = "idle" /\ Pop(t)
    BY <1>4 DEF LockerDestroy, Running, Inside
  <2>2. \A u \in Thread \ {t} : frames'[u] = frames[u]
    BY <2>1, PopEffect
  <2>3. ~Parked(t) /\ lazyThread = NoThread
    BY <2>1 DEF Parked, ArchiveInv, ArchiveOK
  <2>4. CASE ~Top(t).has_lock
    <3>1. UNCHANGED <<managerVars, pc>>
      BY <1>4, <2>4 DEF LockerDestroy
    <3>2. frames'[t] # <<>> /\ Top(t)'.kind = "Locker"
      BY <2>1, <2>4, PopNesting
    <3>3. ~Parked(t)'
      BY <2>1, <3>1, <3>2 DEF Parked
    <3>4. QED
      BY <2>2, <2>3, <3>1, <3>3, ArchiveSame
  <2>5. CASE Top(t).has_lock /\ Top(t).top_level
    <3>1. UNCHANGED managerVars /\ pc'[t] = "unlocking" /\ \A u \in Thread \ {t} : pc'[u] = pc[u]
      BY <1>4, <2>5, GotoEffect DEF LockerDestroy, FreeThreadResources, Unlock
    <3>2. frames'[t] = <<>>
      BY <2>1, <2>5, TopLevelIsOuter, PopEffect
    <3>3. ~Parked(t)' /\ ~Running(t)'
      BY <3>1, <3>2 DEF Parked, Running, Inside
    <3>4. QED
      BY <2>2, <2>3, <3>1, <3>3, ArchiveSame
  <2>6. CASE Top(t).has_lock /\ ~Top(t).top_level
    <3>1. ArchiveThread(t) /\ Unlock(t)
      BY <1>4, <2>6 DEF LockerDestroy
    <3>2. frames'[t] # <<>> /\ Top(t)'.kind # "Locker"
      BY <2>1, <2>6, InnerIsInner
    <3>3. QED
      BY <2>1, <2>2, <3>1, <3>2, ArchiveThreadKeeps
  <2>7. QED
    BY <2>4, <2>5, <2>6
<1>5. ASSUME NEW t \in Thread, ReleaseMutex(t) PROVE ArchiveInv'
  <2>1. /\ pc[t] = "unlocking" /\ UNCHANGED <<managerVars, frames>> /\ pc'[t] = "idle"
        /\ \A u \in Thread \ {t} : pc'[u] = pc[u]
    BY <1>5, GotoEffect DEF ReleaseMutex
  <2>2. (Parked(t)' <=> Parked(t)) /\ ~Running(t)'
    BY <2>1 DEF Parked, Running, Inside, Top, FrameInv, FrameOK
  <2>3. QED
    BY <2>1, <2>2, ArchiveSame
<1>6. ASSUME NEW t \in Thread, UnlockerCreate(t) \/ HandlePreempt(t) PROVE ArchiveInv'
  <2>1. PICK kind \in {"Unlocker", "RuntimePreempt"} :
          Running(t) /\ ArchiveThread(t) /\ Unlock(t) /\ Push(t, kind, FALSE)
    BY <1>6 DEF UnlockerCreate, HandlePreempt, Unlocking
  <2>2. /\ frames'[t] # <<>> /\ \A u \in Thread \ {t} : frames'[u] = frames[u]
        /\ Top(t)'.kind = kind
    BY <2>1, PushEffect DEF FrameKind
  <2>3. QED
    BY <2>1, <2>2, ArchiveThreadKeeps
<1>7. ASSUME NEW t \in Thread, UnlockerLock(t) PROVE ArchiveInv'
  <2>1. /\ pc[t] = "idle" /\ frames[t] # <<>> /\ Top(t).kind # "Locker"
        /\ UNCHANGED <<managerVars, frames>> /\ pc'[t] = "relocking"
        /\ \A u \in Thread \ {t} : pc'[u] = pc[u]
    BY <1>7, GotoEffect DEF UnlockerLock, Inside
  <2>2. Parked(t)' /\ Parked(t) /\ ~Running(t)'
    BY <2>1 DEF Parked, Running, Inside
  <2>3. QED
    BY <2>1, <2>2, ArchiveSame
<1>8. ASSUME NEW t \in Thread, UnlockerRestore(t) PROVE ArchiveInv'
  <2>1. /\ pc[t] = "relocking" /\ frames[t] # <<>> /\ Top(t).kind # "Locker" /\ Pop(t) /\ Locked(t)
        /\ RestoreTrue(t) \/ RestoreNewThread(t)
    BY <1>8 DEF UnlockerRestore, FrameInv, FrameOK, Locked
  <2>2. Parked(t) /\ threadState[t] # NoState
    BY <2>1 DEF Parked, ArchiveInv, ArchiveOK
  <2>3. RestoreTrue(t)
    BY <2>1, <2>2 DEF RestoreNewThread
  <2>4. pc'[t] \in {"idle", "interrupted"} /\ \A u \in Thread \ {t} : pc'[u] = pc[u]
    BY <1>8, GotoEffect DEF UnlockerRestore
  <2>5. Top(t)'.kind = "Locker" /\ \A u \in Thread \ {t} : frames'[u] = frames[u]
    BY <2>1, PopNesting, PopEffect
  <2>6. ~Parked(t)'
    BY <2>4, <2>5 DEF Parked
  <2>7. QED
    BY <2>1, <2>3, <2>4, <2>5, <2>6, RestoreTrueKeeps
<1>9. ASSUME NEW t \in Thread,
             LockerInit(t) \/ HandleTerminate(t) \/ StopPreemption(t) \/ JoinSwitcher(t)
      PROVE  ArchiveInv'
  <2>1. /\ pc[t] \in {"initing", "interrupted", "joining"} \/ Running(t)
        /\ UNCHANGED <<managerVars, frames>>
    BY <1>9 DEF LockerInit, HandleTerminate, StopPreemption, JoinSwitcher
  <2>2. pc'[t] \in {"idle", "joining"} /\ \A u \in Thread \ {t} : pc'[u] = pc[u]
    BY <1>9, GotoEffect DEF LockerInit, HandleTerminate, StopPreemption, JoinSwitcher
  <2>3. Top(t).kind = "Locker" /\ lazyThread = NoThread
    BY <2>1 DEF Running, Inside, FrameInv, FrameOK, ArchiveInv, ArchiveOK
  <2>4. ~Parked(t)' /\ ~Parked(t)
    BY <2>1, <2>2, <2>3 DEF Parked, Running, Inside, Top
  <2>5. QED
    BY <2>1, <2>2, <2>3, <2>4, ArchiveSame
<1>10. CASE Quiet
  <2>1. ASSUME NEW u \in Thread PROVE ArchiveOK(u)'
    <3>1. (Parked(u)' <=> Parked(u)) /\ (Running(u)' <=> Running(u))
      BY <1>10, SameControl DEF Quiet
    <3>2. QED
      BY <1>10, <3>1 DEF Quiet, ArchiveInv, ArchiveOK
  <2>2. QED
    BY <1>10, <2>1 DEF Quiet, ArchiveInv
<1>11. QED
  BY <1>1, <1>2, <1>3, <1>4, <1>5, <1>6, <1>7, <1>8, <1>9, <1>10, NextCases

---------------------------------------------------------------------------
(* StateInv and StartInv.                                                   *)

\* What a step can do to the ThreadManager.
LEMMA ManagerCases ==
  ASSUME TypeOK, Next
  PROVE  \/ \E t \in Thread : Running(t) /\ ArchiveThread(t)
         \/ \E t \in Thread : RestoreTrue(t) \/ RestoreNewThread(t)
         \/ UNCHANGED managerVars
         \/ Quiet
<1> USE DEF managerVars
<1>1. ASSUME NEW t \in Thread,
             \/ LockerLock(t) \/ LockerEnter(t) \/ LockerInit(t) \/ ReleaseMutex(t)
             \/ UnlockerLock(t) \/ HandleTerminate(t) \/ StopPreemption(t) \/ JoinSwitcher(t)
      PROVE  UNCHANGED managerVars
  BY <1>1 DEF LockerLock, LockerEnter, LockerInit, ReleaseMutex, UnlockerLock, HandleTerminate,
              StopPreemption, JoinSwitcher
<1>2. ASSUME NEW t \in Thread, LockerRestore(t) \/ UnlockerRestore(t)
      PROVE  RestoreTrue(t) \/ RestoreNewThread(t)
  BY <1>2 DEF LockerRestore, UnlockerRestore
<1>3. ASSUME NEW t \in Thread, LockerDestroy(t)
      PROVE  (Running(t) /\ ArchiveThread(t)) \/ UNCHANGED managerVars
  BY <1>3 DEF LockerDestroy, FreeThreadResources
<1>4. ASSUME NEW t \in Thread, UnlockerCreate(t) \/ HandlePreempt(t)
      PROVE  Running(t) /\ ArchiveThread(t)
  BY <1>4 DEF UnlockerCreate, HandlePreempt, Unlocking
<1>5. QED
  BY <1>1, <1>2, <1>3, <1>4, NextCases

LEMMA StateInvStep ==
  ASSUME TypeOK, ArchiveInv, StateInv, Next
  PROVE  StateInv'
<1>1. ASSUME NEW t \in Thread, Running(t), ArchiveThread(t) PROVE StateInv'
  <2>1. lazyState = NoState
    BY <1>1 DEF ArchiveInv, ArchiveOK
  <2>2. PICK r \in ThreadState :
          /\ lazyState' = r /\ stateId' = [stateId EXCEPT ![r] = t]
          /\ UNCHANGED <<inUse, terminateOnRestore>>
    BY <1>1 DEF ArchiveThread
  <2>3. \A s \in ThreadState : s \notin inUse' => ~terminateOnRestore'[s]
    BY <2>2 DEF StateInv
  <2>4. \A s \in ThreadState : s \notin inUse' \cup {lazyState'} => stateId'[s] = kInvalidId
    BY <2>1, <2>2, ThreadAssumption DEF StateInv, TypeOK
  <2>5. QED
    BY <2>3, <2>4 DEF StateInv
<1>2. ASSUME NEW t \in Thread, RestoreNewThread(t) PROVE StateInv'
  <2>1. UNCHANGED <<stateId, terminateOnRestore>> /\ inUse' = InUseAfterArchiving
    BY <1>2 DEF RestoreNewThread
  <2>2. inUse \cup {lazyState} \subseteq InUseAfterArchiving \cup {NoState}
    BY LazyFacts DEF InUseAfterArchiving
  <2>3. QED
    BY <2>1, <2>2, ThreadAssumption DEF StateInv
<1>3. ASSUME NEW t \in Thread, RestoreLazilyArchived(t) PROVE StateInv'
  BY <1>3 DEF RestoreLazilyArchived, StateInv, TypeOK
<1>4. ASSUME NEW t \in Thread, RestoreArchived(t) PROVE StateInv'
  <2> DEFINE r == threadState[t]
  <2>1. /\ r \in ThreadState
        /\ stateId' = [stateId EXCEPT ![r] = kInvalidId]
        /\ terminateOnRestore' = [terminateOnRestore EXCEPT ![r] = FALSE]
        /\ inUse' = InUseAfterArchiving \ {r}
    BY <1>4 DEF RestoreArchived, WithoutRequest, TypeOK
  <2>2. inUse \cup {lazyState} \subseteq InUseAfterArchiving \cup {NoState}
    BY LazyFacts DEF InUseAfterArchiving
  <2> HIDE DEF r
  <2>3. ASSUME NEW s \in ThreadState, s \notin inUse' PROVE stateId'[s] = kInvalidId
    <3>1. CASE s = r
      BY <2>1, <3>1 DEF TypeOK
    <3>2. CASE s # r
      <4>1. s \notin inUse \cup {lazyState}
        BY <2>1, <2>2, <2>3, <3>2, ThreadAssumption
      <4>2. stateId[s] = kInvalidId
        BY <4>1 DEF StateInv
      <4>3. QED
        BY <2>1, <3>2, <4>2 DEF TypeOK
    <3>3. QED
      BY <3>1, <3>2
  <2>4. ASSUME NEW s \in ThreadState, s \notin inUse' PROVE ~terminateOnRestore'[s]
    <3>1. CASE s = r
      BY <2>1, <3>1 DEF TypeOK
    <3>2. CASE s # r
      <4>1. s \notin inUse
        BY <2>1, <2>2, <2>4, <3>2, ThreadAssumption
      <4>2. ~terminateOnRestore[s]
        BY <4>1 DEF StateInv
      <4>3. QED
        BY <2>1, <3>2, <4>2 DEF TypeOK
    <3>3. QED
      BY <3>1, <3>2
  <2>5. QED
    BY <2>3, <2>4 DEF StateInv
<1>5. CASE UNCHANGED managerVars
  BY <1>5 DEF managerVars, StateInv
<1>6. CASE Quiet
  BY <1>6 DEF Quiet, StateInv
<1>7. QED
  BY <1>1, <1>2, <1>3, <1>4, <1>5, <1>6, ManagerCases DEF RestoreTrue

LEMMA StartInvStep ==
  ASSUME TypeOK, FrameInv, LockInv, StartInv, Next
  PROVE  StartInv'
<1> DEFINE Outside(u) == frames[u] = <<>> \/ (pc[u] = "entering" /\ Len(frames[u]) = 1)
<1> SUFFICES ASSUME ~running' PROVE \A u \in Thread : Outside(u)'
  BY DEF StartInv
<1> USE DEF lockVars, stackVars, isolateVars
<1>1. ASSUME NEW t \in Thread, LockerLock(t) PROVE \A u \in Thread : Outside(u)'
  <2>1. pc[t] = "idle" /\ ~running
    BY <1>1 DEF LockerLock, MayPush
  <2>2. frames[t] = <<>>
    BY <2>1 DEF StartInv
  <2>3. ~IsLockedByCurrentThread(t)
    BY <2>1, <2>2, ThreadAssumption DEF IsLockedByCurrentThread, LockInv, Locked, Running, Inside
  <2>4. Push(t, "Locker", TRUE) /\ Goto(t, "entering")
    BY <1>1, <2>3 DEF LockerLock
  <2>5. Len(frames'[t]) = 1 /\ \A u \in Thread \ {t} : frames'[u] = frames[u]
    <3>1. Len(frames'[t]) = Len(frames[t]) + 1 /\ \A u \in Thread \ {t} : frames'[u] = frames[u]
      BY <2>4, PushEffect DEF FrameKind
    <3>2. QED
      BY <2>2, <3>1, Nonempty
  <2>6. pc'[t] = "entering" /\ \A u \in Thread \ {t} : pc'[u] = pc[u]
    BY <2>4, GotoEffect
  <2>7. QED
    BY <2>1, <2>5, <2>6 DEF StartInv
<1>2. ASSUME NEW t \in Thread, LockerEnter(t) PROVE FALSE
  BY <1>2 DEF LockerEnter
<1>3. ASSUME NEW t \in Thread,
             \/ LockerRestore(t) \/ LockerInit(t) \/ LockerDestroy(t)
             \/ UnlockerCreate(t) \/ UnlockerLock(t) \/ UnlockerRestore(t)
             \/ HandlePreempt(t) \/ HandleTerminate(t) \/ StopPreemption(t) \/ JoinSwitcher(t)
      PROVE  FALSE
  <2>1. ~running
    BY <1>3 DEF LockerRestore, LockerInit, LockerDestroy, UnlockerCreate, UnlockerLock,
                UnlockerRestore, HandlePreempt, HandleTerminate, StopPreemption, JoinSwitcher,
                FreeThreadResources
  <2>2. frames[t] # <<>> /\ pc[t] # "entering"
    BY <1>3 DEF LockerRestore, LockerInit, LockerDestroy, UnlockerCreate, UnlockerLock,
                UnlockerRestore, HandlePreempt, HandleTerminate, StopPreemption, JoinSwitcher,
                Running, Inside, FrameInv, FrameOK
  <2>3. QED
    BY <2>1, <2>2 DEF StartInv
<1>4. ASSUME NEW t \in Thread, ReleaseMutex(t) PROVE \A u \in Thread : Outside(u)'
  <2>1. pc[t] = "unlocking" /\ ~running /\ UNCHANGED frames /\ \A u \in Thread \ {t} : pc'[u] = pc[u]
    BY <1>4, GotoEffect DEF ReleaseMutex
  <2>2. QED
    BY <2>1 DEF StartInv
<1>5. CASE Quiet
  BY <1>5 DEF Quiet, StartInv
<1>6. QED
  BY <1>1, <1>2, <1>3, <1>4, <1>5, NextCases

---------------------------------------------------------------------------
(* Every thread's data are where OwnerInv says, and what follows: the safety *)
(* properties of ThreadManager for any number of threads, of ThreadStates,   *)
(* of stack limits and of nested Lockers.                                    *)

(* What OwnerInv says of a thread's data is left alone by most operations.  *)

SameFor(g, h) == h.postpone = g.postpone /\ h.real = g.real

LEMMA RequestKeeps ==
  ASSUME NEW g \in ThreadLocal, NEW flag PROVE SameFor(g, Request(g, flag))
BY DEF SameFor, Request, set_interrupt_limits, ThreadLocal

LEMMA ContinueKeeps ==
  ASSUME NEW g \in ThreadLocal, NEW flag PROVE SameFor(g, Continue(g, flag))
BY DEF SameFor, Continue, reset_limits, ThreadLocal

DataKept == live'.scopes = live.scopes /\ SameFor(live.guard, live'.guard)

LEMMA GuardReplaced ==
  ASSUME TypeOK, NEW g, SameFor(live.guard, g), live' = [live EXCEPT !.guard = g]
  PROVE  DataKept
BY DEF TypeOK, Data, DataKept

LEMMA InterruptKeeps == ASSUME TypeOK, NEW flag, Interrupt(flag) PROVE DataKept
BY LiveType, RequestKeeps, GuardReplaced DEF Interrupt

LEMMA ContinueAfterKeeps == ASSUME TypeOK, NEW flag, ContinueAfter(flag) PROVE DataKept
BY LiveType, ContinueKeeps, GuardReplaced DEF ContinueAfter

\* The limits of a new thread's guard.
LEMMA NewGuard ==
  ASSUME TypeOK, NEW t \in Thread, stackLimit[t] \in {kIllegalLimit, BaseLimit[t], CustomLimit[t]}
  PROVE  /\ GuardOfNewThread(t).postpone = 0
         /\ GuardOfNewThread(t).real \in {BaseLimit[t], CustomLimit[t]}
<1>1. BaseLimit[t] \in Address /\ CustomLimit[t] \in Address /\ kIllegalLimit \notin Address
  BY LimitsType, LimitsAssumption
<1>2. QED
  BY <1>1 DEF GuardOfNewThread, InitThread, Initialize, SetStackLimit, Cleared

---------------------------------------------------------------------------
(* Who owns the isolate's data.                                             *)

\* While t holds the lock another thread owns them only by lazy archiving.
LEMMA OwnsOther ==
  ASSUME LockInv, NEW t \in Thread, Locked(t) \/ pc[t] = "unlocking", NEW u \in Thread \ {t},
         frames'[u] = frames[u], pc'[u] = pc[u]
  PROVE  (OwnsLive(u) <=> lazyThread = u) /\ (OwnsLive(u)' <=> lazyThread' = u)
<1>1. ~Locked(u)
  BY OthersOutside
<1>2. ~Running(u) /\ ~Running(u)' /\ pc'[u] = pc[u] /\ pc[u] \notin {"interrupted", "joining"}
  BY <1>1, SameControl DEF Locked
<1>3. QED
  BY <1>2 DEF OwnsLive

\* A step after which the same threads own the same data.
LEMMA OwnerSame ==
  ASSUME OwnerInv, \A u \in Thread : OwnsLive(u)' <=> OwnsLive(u), DataKept,
         UNCHANGED <<scopes, postponed, threadState, inUse, archive, stackLimit>>
  PROVE  OwnerInv'
<1>1. ASSUME NEW u \in Thread PROVE OwnerOK(u)'
  BY DEF OwnerInv, OwnerOK, BelongsTo, DataKept, SameFor
<1>2. QED
  BY <1>1 DEF OwnerInv, DataKept

\* A step of t, which alone owns the data after it.
LEMMA OwnerSole ==
  ASSUME TypeOK, OwnerInv, NEW t \in Thread, threadState[t] = NoState,
         UNCHANGED <<threadState, inUse, archive, stackLimit>>,
         OwnsLive(t)', BelongsTo(live, t)',
         \A u \in Thread \ {t} : ~OwnsLive(u)' /\ scopes'[u] = scopes[u] /\ postponed'[u] = postponed[u]
  PROVE  OwnerInv'
<1>1. ASSUME NEW u \in Thread \ {t} PROVE OwnerOK(u)'
  BY DEF OwnerInv, OwnerOK, BelongsTo
<1>2. NoState \notin inUse
  BY ThreadAssumption DEF TypeOK
<1>3. OwnerOK(t)'
  BY <1>2 DEF OwnerInv, OwnerOK
<1>4. QED
  BY <1>1, <1>3 DEF OwnerInv

\* A thread inside V8 is the only owner and has no ThreadState.
LEMMA RunningOwns ==
  ASSUME LockInv, ArchiveInv, NEW t \in Thread,
         Running(t) \/ pc[t] \in {"initing", "interrupted", "joining"},
         Running(t) => ~Parked(t)
  PROVE  /\ lazyThread = NoThread /\ threadState[t] = NoState /\ Locked(t)
         /\ \A u \in Thread \ {t} : ~OwnsLive(u)
<1>1. lazyThread = NoThread /\ Locked(t) /\ threadState[t] = NoState
  BY DEF ArchiveInv, ArchiveOK, Locked, Parked
<1>2. ASSUME NEW u \in Thread \ {t} PROVE ~OwnsLive(u)
  <2>1. ~Locked(u)
    BY <1>1, OthersOutside
  <2>2. QED
    BY <1>1, <2>1, ThreadAssumption DEF OwnsLive, Locked
<1>3. QED
  BY <1>1, <1>2

LEMMA RunningNotParked == ASSUME NEW t, Running(t) PROVE ~Parked(t)
BY DEF Running, Inside, Parked

---------------------------------------------------------------------------
(* Archiving and restoring.                                                 *)

LEMMA OwnerArchive ==
  ASSUME TypeOK, LockInv, ArchiveInv, OwnerInv, NEW t \in Thread, Running(t), ArchiveThread(t),
         Unlock(t), DataKept, UNCHANGED <<scopes, postponed, stackLimit>>,
         \A u \in Thread \ {t} : frames'[u] = frames[u]
  PROVE  OwnerInv'
<1>1. lazyThread' = t /\ OwnsLive(t)' /\ OwnsLive(t)
  BY DEF ArchiveThread, OwnsLive
<1>2. \A u \in Thread \ {t} : pc'[u] = pc[u]
  BY GotoEffect DEF Unlock
<1>3. PICK s \in ThreadState : /\ GetFreeThreadState(s) /\ threadState' = [threadState EXCEPT ![t] = s]
                               /\ UNCHANGED <<inUse, archive>>
  BY DEF ArchiveThread
<1>4. s \notin inUse
  BY <1>3 DEF GetFreeThreadState, Allocated, ArchiveInv
<1>5. ASSUME NEW u \in Thread \ {t} PROVE OwnerOK(u)'
  <2>1. ~OwnsLive(u)'
    BY <1>1, <1>2, OwnsOther DEF Locked
  <2>2. threadState'[u] = threadState[u] /\ OwnerOK(u)
    BY <1>3 DEF TypeOK, OwnerInv
  <2>3. QED
    BY <1>3, <2>1, <2>2 DEF OwnerOK, BelongsTo
<1>6. OwnerOK(t)'
  <2>1. threadState'[t] \notin inUse'
    BY <1>3, <1>4 DEF TypeOK
  <2>2. BelongsTo(live, t)
    BY <1>1 DEF OwnerInv, OwnerOK
  <2>3. BelongsTo(live, t)'
    BY <2>2 DEF BelongsTo, DataKept, SameFor
  <2>4. QED
    BY <2>1, <2>3 DEF OwnerInv, OwnerOK
<1>7. QED
  BY <1>1, <1>5, <1>6 DEF OwnerInv

\* EagerlyArchiveThread stores what the lazily archived thread left in place.
LEMMA AfterArchiving ==
  ASSUME TypeOK, ArchiveInv, OwnerInv, NEW u \in Thread, threadState[u] \in InUseAfterArchiving
  PROVE  BelongsTo(ArchiveAfterArchiving[threadState[u]], u)
<1> DEFINE r == threadState[u]
<1>1. r \in ThreadState /\ stateId[r] = u
  <2>1. InUseAfterArchiving \in SUBSET ThreadState
    BY ArchivingType
  <2>2. QED
    BY <2>1, LazyFacts, ThreadAssumption
<1>2. CASE r \in inUse
  <2>1. r # lazyState
    BY <1>2 DEF ArchiveInv
  <2>2. ArchiveAfterArchiving[r] = archive[r]
    BY <2>1, <1>1 DEF ArchiveAfterArchiving, TypeOK
  <2>3. QED
    BY <1>2, <2>2 DEF OwnerInv, OwnerOK
<1>3. CASE r \notin inUse
  <2>1. Archiving /\ r = lazyState
    BY <1>3 DEF InUseAfterArchiving
  <2>2. lazyThread = u
    BY <1>1, <2>1, LazyFacts
  <2>3. ArchiveAfterArchiving[r] = live
    BY <1>1, <2>1 DEF ArchiveAfterArchiving, TypeOK
  <2>4. QED
    BY <2>2, <2>3 DEF OwnerInv, OwnerOK, OwnsLive
<1>4. QED
  BY <1>2, <1>3

LEMMA OwnerRestoreTrue ==
  ASSUME TypeOK, LockInv, ArchiveInv, OwnerInv, NEW t \in Thread, Locked(t), RestoreTrue(t),
         \A u \in Thread \ {t} : frames'[u] = frames[u] /\ pc'[u] = pc[u],
         OwnsLive(t)', UNCHANGED <<scopes, postponed, stackLimit>>
  PROVE  OwnerInv'
<1>1. CASE RestoreLazilyArchived(t)
  <2>1. /\ lazyThread = t /\ lazyThread' = NoThread
        /\ threadState' = [threadState EXCEPT ![t] = NoState]
        /\ UNCHANGED <<inUse, archive, live>>
    BY <1>1 DEF RestoreLazilyArchived
  <2>2. ASSUME NEW u \in Thread \ {t} PROVE OwnerOK(u)'
    <3>1. ~OwnsLive(u)'
      BY <2>1, OwnsOther, ThreadAssumption
    <3>2. threadState'[u] = threadState[u] /\ OwnerOK(u)
      BY <2>1 DEF TypeOK, OwnerInv
    <3>3. QED
      BY <2>1, <3>1, <3>2 DEF OwnerOK, BelongsTo
  <2>3. OwnerOK(t)'
    <3>1. BelongsTo(live, t) /\ stackLimit[t] \in {kIllegalLimit, BaseLimit[t], CustomLimit[t]}
      BY <2>1 DEF OwnerInv, OwnerOK, OwnsLive
    <3>2. threadState'[t] \notin inUse'
      BY <2>1, ThreadAssumption DEF TypeOK
    <3>3. QED
      BY <2>1, <3>1, <3>2 DEF OwnerOK, BelongsTo
  <2>4. QED
    BY <2>2, <2>3 DEF OwnerInv
<1>2. CASE RestoreArchived(t)
  <2> DEFINE s == threadState[t]
             data == ArchiveAfterArchiving[s]
  <2>1. /\ lazyThread' = NoThread /\ inUse' = InUseAfterArchiving \ {s}
        /\ threadState' = [threadState EXCEPT ![t] = NoState]
        /\ archive' = ArchiveAfterArchiving
        /\ live' = [data EXCEPT !.guard = TerminateOnRestore(s, data.guard)]
    BY <1>2 DEF RestoreArchived
  <2>2. /\ s \in ThreadState /\ s \in InUseAfterArchiving /\ BelongsTo(data, t)
        /\ data \in Data /\ data.guard \in ThreadLocal
    <3>1. s \in ThreadState /\ s \in InUseAfterArchiving
      BY <1>2, LazyFacts DEF RestoreArchived, TypeOK
    <3>2. QED
      BY <3>1, AfterArchiving, ArchivingType DEF Data
  <2>3. SameFor(data.guard, TerminateOnRestore(s, data.guard))
    BY <2>2, RequestKeeps DEF TerminateOnRestore, SameFor
  <2>4. BelongsTo(live, t)'
    <3>1. live'.scopes = data.scopes /\ SameFor(data.guard, live'.guard)
      BY <2>1, <2>2, <2>3 DEF Data
    <3> HIDE DEF data
    <3>2. QED
      BY <2>2, <3>1 DEF BelongsTo, SameFor
  <2>5. ASSUME NEW u \in Thread \ {t} PROVE OwnerOK(u)'
    <3>1. ~OwnsLive(u)'
      BY <2>1, OwnsOther, ThreadAssumption
    <3>2. threadState'[u] = threadState[u] /\ OwnerOK(u)
      BY <2>1 DEF TypeOK, OwnerInv
    <3>3. threadState'[u] \in inUse' => BelongsTo(archive'[threadState'[u]], u)
      BY <2>1, <3>2, AfterArchiving
    <3>4. QED
      BY <3>1, <3>2, <3>3 DEF OwnerOK, BelongsTo
  <2>6. OwnerOK(t)'
    <3>1. threadState'[t] \notin inUse'
      BY <2>1, ArchivingType, ThreadAssumption DEF TypeOK
    <3>2. QED
      BY <2>4, <3>1 DEF OwnerInv, OwnerOK
  <2>7. QED
    BY <2>5, <2>6 DEF OwnerInv
<1>3. QED
  BY <1>1, <1>2 DEF RestoreTrue

LEMMA OwnerRestoreNew ==
  ASSUME TypeOK, LockInv, ArchiveInv, OwnerInv, NEW t \in Thread, pc[t] = "restoring",
         RestoreNewThread(t), UNCHANGED <<frames, scopes, postponed, stackLimit>>,
         Goto(t, "initing")
  PROVE  OwnerInv'
<1>1. pc'[t] = "initing" /\ Locked(t) /\ \A u \in Thread \ {t} : pc'[u] = pc[u]
  BY GotoEffect DEF Locked
<1>2. /\ lazyThread' = NoThread /\ lazyThread # t /\ inUse' = InUseAfterArchiving
      /\ threadState' = threadState /\ archive' = ArchiveAfterArchiving
      /\ live' = [LiveAfterArchiving(t) EXCEPT
                    !.guard = InitThread(@, BaseLimit[t], stackLimit[t])]
  BY DEF RestoreNewThread
<1>3. \A u \in Thread : ~OwnsLive(u)'
  BY <1>1, <1>2, OwnsOther, ThreadAssumption DEF OwnsLive, Running, Inside
<1>4. live'.scopes = 0
  <2>1. LiveAfterArchiving(t) \in Data
    BY ArchivingType
  <2>2. LiveAfterArchiving(t).scopes = 0
    <3>1. CASE Archiving
      BY <3>1 DEF LiveAfterArchiving, NoData
    <3>2. CASE ~Archiving
      <4>1. \A u \in Thread : ~OwnsLive(u)
        BY <1>1, <1>2, <3>2, OwnsOther, ThreadAssumption DEF OwnsLive, Running, Inside, Archiving
      <4>2. QED
        BY <3>2, <4>1 DEF LiveAfterArchiving, OwnerInv
    <3>3. QED
      BY <3>1, <3>2
  <2>3. QED
    BY <1>2, <2>1, <2>2 DEF Data
<1>5. ASSUME NEW u \in Thread PROVE OwnerOK(u)'
  <2>1. threadState'[u] \in inUse' => BelongsTo(archive'[threadState'[u]], u)
    BY <1>2, AfterArchiving
  <2>2. QED
    BY <1>3, <2>1 DEF OwnerInv, OwnerOK, BelongsTo
<1>6. QED
  BY <1>4, <1>5 DEF OwnerInv

---------------------------------------------------------------------------
(* The steps.                                                               *)

\* A step of t that moves it between control points at which it owns nothing.
LEMMA OwnsGoto ==
  ASSUME NEW t \in Thread, NEW label, Goto(t, label), TypeOK, UNCHANGED lazyThread,
         \A u \in Thread \ {t} : frames'[u] = frames[u],
         (Running(t)' \/ label \in {"interrupted", "joining"})
           <=> (Running(t) \/ pc[t] \in {"interrupted", "joining"})
  PROVE  \A u \in Thread : OwnsLive(u)' <=> OwnsLive(u)
<1>1. pc'[t] = label /\ \A u \in Thread \ {t} : pc'[u] = pc[u]
  BY GotoEffect
<1>2. \A u \in Thread \ {t} : Running(u)' <=> Running(u)
  BY <1>1, SameControl
<1>3. QED
  BY <1>1, <1>2 DEF OwnsLive

LEMMA NobodyBeforeStart ==
  ASSUME ~running, StartInv, ArchiveInv, FrameInv, TypeOK, NEW u \in Thread
  PROVE  ~OwnsLive(u)
<1>1. frames[u] = <<>> \/ (pc[u] = "entering" /\ Len(frames[u]) = 1)
  BY DEF StartInv
<1>2. ~Parked(u)
  <2>1. CASE frames[u] = <<>>
    BY <2>1, Nonempty DEF Parked, FrameInv, FrameOK
  <2>2. CASE pc[u] = "entering" /\ Len(frames[u]) = 1
    BY <2>2 DEF Parked
  <2>3. QED
    BY <1>1, <2>1, <2>2
<1>3. threadState[u] = NoState
  BY <1>2 DEF ArchiveInv, ArchiveOK
<1>4. lazyThread # u
  BY <1>3, ThreadAssumption DEF ArchiveInv, ArchiveOK
<1>5. pc[u] \notin {"interrupted", "joining"}
  BY <1>1 DEF FrameInv, FrameOK
<1>6. QED
  BY <1>1, <1>4, <1>5 DEF OwnsLive, Running, Inside

LEMMA OwnerInvStep ==
  ASSUME TypeOK, IInv, Next
  PROVE  OwnerInv'
<1> USE DEF IInv, managerVars, lockVars, stackVars, isolateVars
<1>1. ASSUME NEW t \in Thread, LockerLock(t) PROVE OwnerInv'
  <2>1. /\ pc[t] = "idle"
        /\ UNCHANGED <<lazyThread, threadState, inUse, archive, stackLimit, scopes, postponed, live>>
    BY <1>1 DEF LockerLock, MayPush
  <2>2. \A u \in Thread : OwnsLive(u)' <=> OwnsLive(u)
    <3>1. CASE IsLockedByCurrentThread(t)
      <4>1. Push(t, "Locker", FALSE) /\ mutexOwner = t /\ UNCHANGED pc
        BY <1>1, <3>1 DEF LockerLock, IsLockedByCurrentThread
      <4>2. Running(t)
        BY <2>1, <4>1, ThreadAssumption DEF LockInv, Locked
      <4>3. /\ \A u \in Thread \ {t} : frames'[u] = frames[u]
            /\ frames'[t] # <<>> /\ Top(t)'.kind = "Locker"
        BY <4>1, PushEffect DEF FrameKind
      <4>4. Running(t)' /\ \A u \in Thread \ {t} : Running(u)' <=> Running(u)
        BY <2>1, <4>1, <4>3, SameControl DEF Running, Inside
      <4>5. QED
        BY <2>1, <4>1, <4>2, <4>4 DEF OwnsLive
    <3>2. CASE ~IsLockedByCurrentThread(t)
      <4>1. Push(t, "Locker", TRUE) /\ mutexOwner # t /\ Goto(t, "entering")
        BY <1>1, <3>2 DEF LockerLock, IsLockedByCurrentThread
      <4>2. ~Running(t) /\ \A u \in Thread \ {t} : frames'[u] = frames[u]
        BY <4>1, PushEffect DEF LockInv, Locked, FrameKind
      <4>3. ~Running(t)'
        BY <4>1, GotoEffect DEF Running, Inside
      <4>4. QED
        BY <2>1, <4>1, <4>2, <4>3, OwnsGoto
    <3>3. QED
      BY <3>1, <3>2
  <2>3. QED
    BY <2>1, <2>2, OwnerSame DEF DataKept, SameFor
<1>2. ASSUME NEW t \in Thread, LockerEnter(t) PROVE OwnerInv'
  <2>1. /\ pc[t] = "entering" /\ Goto(t, "restoring") /\ pc'[t] = "restoring"
        /\ UNCHANGED <<lazyThread, threadState, inUse, archive, stackLimit, frames, scopes, postponed>>
    BY <1>2, GotoEffect DEF LockerEnter
  <2>2. \A u \in Thread : OwnsLive(u)' <=> OwnsLive(u)
    BY <2>1, OwnsGoto DEF Running, Inside
  <2>3. CASE running
    <3>1. live' = IF t \in entered THEN live ELSE [live EXCEPT !.id = t]
      BY <1>2, <2>3 DEF LockerEnter
    <3>2. DataKept
      BY <3>1 DEF DataKept, SameFor, TypeOK, Data
    <3>3. QED
      BY <2>1, <2>2, <3>2, OwnerSame
  <2>4. CASE ~running
    <3>1. \A u \in Thread : ~OwnsLive(u)'
      BY <2>2, <2>4, NobodyBeforeStart
    <3>2. live'.scopes = 0
      BY <1>2, <2>4 DEF LockerEnter
    <3>3. \A u \in Thread : OwnerOK(u)'
      BY <2>1, <3>1 DEF OwnerInv, OwnerOK, BelongsTo
    <3>4. QED
      BY <3>2, <3>3 DEF OwnerInv
  <2>5. QED
    BY <2>3, <2>4
<1>3. ASSUME NEW t \in Thread, LockerRestore(t) PROVE OwnerInv'
  <2>1. /\ pc[t] = "restoring" /\ frames[t] # <<>> /\ Top(t).kind = "Locker" /\ Locked(t)
        /\ UNCHANGED <<scopes, postponed, stackLimit>>
    BY <1>3 DEF LockerRestore, FrameInv, FrameOK, Locked
  <2>2. CASE /\ RestoreTrue(t) /\ Goto(t, "idle")
             /\ frames' = [frames EXCEPT ![t] = Append(Popped(t), [Top(t) EXCEPT !.top_level = FALSE])]
    <3>1. /\ frames'[t] # <<>> /\ Top(t)'.kind = "Locker"
          /\ \A u \in Thread \ {t} : frames'[u] = frames[u]
      BY <2>1, <2>2, SetTopEffect
    <3>2. pc'[t] = "idle" /\ \A u \in Thread \ {t} : pc'[u] = pc[u]
      BY <2>2, GotoEffect
    <3>3. OwnsLive(t)'
      BY <3>1, <3>2 DEF OwnsLive, Running, Inside
    <3>4. QED
      BY <2>1, <2>2, <3>1, <3>2, <3>3, OwnerRestoreTrue
  <2>3. CASE RestoreNewThread(t) /\ Goto(t, "initing") /\ UNCHANGED frames
    BY <2>1, <2>3, OwnerRestoreNew
  <2>4. QED
    BY <1>3, <2>2, <2>3 DEF LockerRestore
<1>4. ASSUME NEW t \in Thread, LockerInit(t) PROVE OwnerInv'
  <2>1. /\ pc[t] = "initing" /\ live' = [live EXCEPT !.guard = GuardOfNewThread(t)]
        /\ UNCHANGED <<lazyThread, threadState, inUse, archive, stackLimit, frames, scopes, postponed>>
        /\ pc'[t] = "idle" /\ \A u \in Thread \ {t} : pc'[u] = pc[u]
    BY <1>4, GotoEffect DEF LockerInit
  <2>2. /\ lazyThread = NoThread /\ threadState[t] = NoState /\ Locked(t)
        /\ \A u \in Thread \ {t} : ~OwnsLive(u)
    BY <2>1, RunningNotParked, RunningOwns
  <2>3. /\ frames[t] # <<>> /\ Top(t).kind = "Locker" /\ scopes[t] = 0 /\ postponed[t] = 0
    BY <2>1 DEF FrameInv, FrameOK, WellNested, ScopesClosed, Top
  <2>4. OwnsLive(t)' /\ \A u \in Thread \ {t} : ~OwnsLive(u)'
    <3>1. Running(t)'
      BY <2>1, <2>3 DEF Running, Inside, Top
    <3>2. \A u \in Thread \ {t} : OwnsLive(u)' <=> OwnsLive(u)
      BY <2>1, <2>2, OwnsOther
    <3>3. QED
      BY <2>2, <3>1, <3>2 DEF OwnsLive
  <2>5. live.scopes = 0
    <3>1. ~OwnsLive(t)
      BY <2>1, <2>2, ThreadAssumption DEF OwnsLive, Running, Inside
    <3>2. QED
      BY <2>2, <3>1 DEF OwnerInv
  <2>6. BelongsTo(live, t)'
    <3>1. /\ GuardOfNewThread(t).postpone = 0
          /\ GuardOfNewThread(t).real \in {BaseLimit[t], CustomLimit[t]}
      BY NewGuard DEF OwnerInv, OwnerOK
    <3>2. live'.scopes = live.scopes /\ live'.guard = GuardOfNewThread(t)
      BY <2>1 DEF TypeOK, Data
    <3>3. QED
      BY <2>1, <2>3, <2>5, <3>1, <3>2 DEF BelongsTo
  <2>7. QED
    BY <2>1, <2>2, <2>4, <2>6, OwnerSole
<1>5. ASSUME NEW t \in Thread, LockerDestroy(t) PROVE OwnerInv'
  <2>1. Running(t) /\ frames[t] # <<>> /\ Top(t).kind = "Locker" /\ pc[t] = "idle" /\ Pop(t)
    BY <1>5 DEF LockerDestroy, Running, Inside
  <2>2. \A u \in Thread \ {t} : frames'[u] = frames[u]
    BY <2>1, PopEffect
  <2>3. /\ lazyThread = NoThread /\ threadState[t] = NoState /\ Locked(t)
        /\ \A u \in Thread \ {t} : ~OwnsLive(u)
    BY <2>1, RunningNotParked, RunningOwns
  <2>4. UNCHANGED <<scopes, postponed>>
    BY <1>5 DEF LockerDestroy
  <2>5. CASE ~Top(t).has_lock
    <3>1. UNCHANGED <<managerVars, stackLimit, live, pc>>
      BY <1>5, <2>5 DEF LockerDestroy
    <3>2. Running(t)'
      BY <2>1, <2>5, <3>1, PopNesting DEF Running, Inside
    <3>3. \A u \in Thread \ {t} : OwnsLive(u)' <=> OwnsLive(u)
      BY <2>2, <2>3, <3>1, OwnsOther
    <3>4. \A u \in Thread : OwnsLive(u)' <=> OwnsLive(u)
      BY <2>1, <3>2, <3>3 DEF OwnsLive
    <3>5. QED
      BY <2>4, <3>1, <3>4, OwnerSame DEF DataKept, SameFor
  <2>6. CASE Top(t).has_lock /\ Top(t).top_level
    <3>1. FreeThreadResources(t) /\ Unlock(t)
      BY <1>5, <2>6 DEF LockerDestroy
    <3>2. /\ stackLimit' = [stackLimit EXCEPT ![t] = live.guard.real]
          /\ live' = [live EXCEPT !.scopes = 0] /\ UNCHANGED managerVars
          /\ pc'[t] = "unlocking" /\ \A u \in Thread \ {t} : pc'[u] = pc[u]
      BY <3>1, GotoEffect DEF FreeThreadResources, Unlock
    <3>3. live'.scopes = 0
      BY <3>2 DEF TypeOK, Data
    <3>4. ~OwnsLive(t)'
      BY <2>3, <3>2, ThreadAssumption DEF OwnsLive, Running, Inside
    <3>5. \A u \in Thread \ {t} : ~OwnsLive(u)'
      BY <2>2, <2>3, <3>2, OwnsOther
    <3>6. live.guard.real \in {BaseLimit[t], CustomLimit[t]}
      BY <2>1 DEF OwnerInv, OwnerOK, OwnsLive, BelongsTo
    <3>7. ASSUME NEW u \in Thread PROVE OwnerOK(u)'
      <4>1. stackLimit'[u] \in {kIllegalLimit, BaseLimit[u], CustomLimit[u]}
        BY <3>2, <3>6 DEF TypeOK, OwnerInv, OwnerOK
      <4>2. ~OwnsLive(u)'
        BY <3>4, <3>5
      <4>3. QED
        BY <2>4, <3>2, <4>1, <4>2 DEF OwnerInv, OwnerOK, BelongsTo
    <3>8. QED
      BY <3>3, <3>7 DEF OwnerInv
  <2>7. CASE Top(t).has_lock /\ ~Top(t).top_level
    <3>1. ArchiveThread(t) /\ Unlock(t) /\ UNCHANGED <<stackLimit, live>>
      BY <1>5, <2>7 DEF LockerDestroy
    <3>2. QED
      BY <2>1, <2>2, <2>4, <3>1, OwnerArchive DEF DataKept, SameFor
  <2>8. QED
    BY <2>5, <2>6, <2>7
<1>6. ASSUME NEW t \in Thread, ReleaseMutex(t) \/ UnlockerLock(t) PROVE OwnerInv'
  <2>1. /\ frames[t] = <<>> \/ Top(t).kind # "Locker"
        /\ pc[t] \in {"idle", "unlocking"}
        /\ UNCHANGED <<lazyThread, threadState, inUse, archive, stackLimit, frames, scopes, postponed, live>>
    BY <1>6 DEF ReleaseMutex, UnlockerLock, Inside, FrameInv, FrameOK
  <2>2. PICK label \in {"idle", "relocking"} : Goto(t, label)
    BY <1>6 DEF ReleaseMutex, UnlockerLock
  <2>3. ~Running(t) /\ ~Running(t)'
    BY <2>1 DEF Running, Inside, Top
  <2>4. \A u \in Thread : OwnsLive(u)' <=> OwnsLive(u)
    BY <2>1, <2>2, <2>3, OwnsGoto
  <2>5. QED
    BY <2>1, <2>4, OwnerSame DEF DataKept, SameFor
<1>7. ASSUME NEW t \in Thread, UnlockerCreate(t) \/ HandlePreempt(t) PROVE OwnerInv'
  <2>1. PICK kind \in {"Unlocker", "RuntimePreempt"} :
          Running(t) /\ ArchiveThread(t) /\ Unlock(t) /\ Push(t, kind, FALSE)
    BY <1>7 DEF UnlockerCreate, HandlePreempt, Unlocking
  <2>2. DataKept /\ UNCHANGED <<scopes, postponed, stackLimit>>
    BY <1>7, ContinueAfterKeeps DEF UnlockerCreate, HandlePreempt, DataKept, SameFor
  <2>3. \A u \in Thread \ {t} : frames'[u] = frames[u]
    BY <2>1, PushEffect DEF FrameKind
  <2>4. QED
    BY <2>1, <2>2, <2>3, OwnerArchive
<1>8. ASSUME NEW t \in Thread, UnlockerRestore(t) PROVE OwnerInv'
  <2>1. /\ pc[t] = "relocking" /\ frames[t] # <<>> /\ Top(t).kind # "Locker" /\ Pop(t) /\ Locked(t)
        /\ \/ RestoreTrue(t)
           \/ RestoreNewThread(t) /\ UNCHANGED <<scopes, postponed, stackLimit>>
    BY <1>8 DEF UnlockerRestore, FrameInv, FrameOK, Locked
  <2>2. Parked(t) /\ threadState[t] # NoState
    BY <2>1 DEF Parked, ArchiveInv, ArchiveOK
  <2>3. RestoreTrue(t) /\ UNCHANGED <<scopes, postponed, stackLimit>>
    BY <1>8, <2>1, <2>2 DEF RestoreNewThread, UnlockerRestore
  <2>4. pc'[t] \in {"idle", "interrupted"} /\ \A u \in Thread \ {t} : pc'[u] = pc[u]
    BY <1>8, GotoEffect DEF UnlockerRestore
  <2>5. /\ frames'[t] # <<>> /\ Top(t)'.kind = "Locker"
        /\ \A u \in Thread \ {t} : frames'[u] = frames[u]
    BY <2>1, PopNesting, PopEffect
  <2>6. OwnsLive(t)'
    BY <2>4, <2>5 DEF OwnsLive, Running, Inside
  <2>7. QED
    BY <2>1, <2>3, <2>4, <2>5, <2>6, OwnerRestoreTrue
<1>9. ASSUME NEW t \in Thread, HandleTerminate(t) \/ StopPreemption(t) \/ JoinSwitcher(t) PROVE OwnerInv'
  <2>1. /\ pc[t] \in {"interrupted", "joining"} \/ Running(t)
        /\ UNCHANGED <<lazyThread, threadState, inUse, archive, stackLimit, frames, scopes, postponed>>
    BY <1>9 DEF HandleTerminate, StopPreemption, JoinSwitcher
  <2>2. PICK label \in {"idle", "joining"} : Goto(t, label)
    BY <1>9 DEF HandleTerminate, StopPreemption, JoinSwitcher
  <2>3. frames[t] # <<>> /\ Top(t).kind = "Locker"
    BY <2>1 DEF Running, Inside, FrameInv, FrameOK
  <2>4. label = "idle" => Running(t)'
    BY <2>1, <2>2, <2>3, GotoEffect DEF Running, Inside, Top
  <2>5. DataKept
    BY <1>9, ContinueAfterKeeps DEF HandleTerminate, StopPreemption, JoinSwitcher, DataKept, SameFor
  <2>6. \A u \in Thread : OwnsLive(u)' <=> OwnsLive(u)
    BY <2>1, <2>2, <2>4, OwnsGoto
  <2>7. QED
    BY <2>1, <2>5, <2>6, OwnerSame
<1>10. ASSUME NEW t \in Thread,
              \/ OpenScope(t) \/ CloseScope(t) \/ PostponeInterrupts(t)
              \/ AllowInterrupts(t) \/ SetResourceConstraints(t)
       PROVE  OwnerInv'
  <2>1. /\ Running(t) /\ UNCHANGED <<frames, pc, lazyThread, threadState, inUse, archive, stackLimit>>
        /\ \A u \in Thread \ {t} : scopes'[u] = scopes[u] /\ postponed'[u] = postponed[u]
    BY <1>10 DEF OpenScope, CloseScope, PostponeInterrupts, AllowInterrupts,
                 SetResourceConstraints, TypeOK
  <2>2. /\ threadState[t] = NoState /\ Locked(t) /\ \A u \in Thread \ {t} : ~OwnsLive(u)
    BY <2>1, RunningNotParked, RunningOwns
  <2>3. OwnsLive(t) /\ OwnsLive(t)' /\ \A u \in Thread \ {t} : ~OwnsLive(u)'
    <3>1. \A u \in Thread : Running(u)' <=> Running(u)
      BY <2>1, SameControl
    <3>2. QED
      BY <2>1, <2>2, <3>1 DEF OwnsLive
  <2>4. /\ BelongsTo(live, t) /\ live \in Data /\ live.guard \in ThreadLocal
        /\ scopes \in [Thread -> Nat] /\ postponed \in [Thread -> Nat]
    BY <2>3, LiveType DEF OwnerInv, OwnerOK, TypeOK
  <2>5. BelongsTo(live, t)'
    <3>1. CASE OpenScope(t)
      BY <2>4, <3>1 DEF OpenScope, BelongsTo, Data
    <3>2. CASE CloseScope(t)
      BY <2>4, <3>2 DEF CloseScope, BelongsTo, Data
    <3>3. CASE PostponeInterrupts(t)
      <4> DEFINE g == reset_limits([live.guard EXCEPT !.postpone = @ + 1])
      <4>1. g.postpone = live.guard.postpone + 1 /\ g.real = live.guard.real
        BY <2>4 DEF reset_limits, ThreadLocal
      <4>2. live'.scopes = live.scopes /\ live'.guard = g
        BY <2>4, <3>3 DEF PostponeInterrupts, Data
      <4> HIDE DEF g
      <4>3. QED
        BY <2>4, <3>3, <4>1, <4>2 DEF PostponeInterrupts, BelongsTo
    <3>4. CASE AllowInterrupts(t)
      <4> DEFINE g == [live.guard EXCEPT !.postpone = @ - 1]
                 h == IF EnablesInterrupts(g) THEN EnableInterrupts(g) ELSE g
      <4>1. g.postpone = live.guard.postpone - 1 /\ g.real = live.guard.real /\ g \in ThreadLocal
        BY <2>4 DEF ThreadLocal
      <4> HIDE DEF g
      <4>2. h.postpone = live.guard.postpone - 1 /\ h.real = live.guard.real
        BY <4>1 DEF EnableInterrupts, set_interrupt_limits, ThreadLocal
      <4>3. live' = [live EXCEPT !.guard = h]
        BY <3>4 DEF AllowInterrupts, g
      <4>4. live'.scopes = live.scopes /\ live'.guard = h
        BY <2>4, <4>3 DEF Data
      <4> HIDE DEF h
      <4>5. QED
        BY <2>4, <3>4, <4>2, <4>4 DEF AllowInterrupts, BelongsTo
    <3>5. CASE SetResourceConstraints(t)
      <4> DEFINE g == SetStackLimit(live.guard, CustomLimit[t])
      <4>1. g.postpone = live.guard.postpone /\ g.real = CustomLimit[t]
        BY <2>4 DEF SetStackLimit, ThreadLocal
      <4>2. live'.scopes = live.scopes /\ live'.guard = g
        BY <2>4, <3>5 DEF SetResourceConstraints, Data
      <4> HIDE DEF g
      <4>3. QED
        BY <2>4, <3>5, <4>1, <4>2 DEF SetResourceConstraints, BelongsTo
    <3>6. QED
      BY <1>10, <3>1, <3>2, <3>3, <3>4, <3>5
  <2>6. QED
    BY <2>1, <2>2, <2>3, <2>5, OwnerSole
<1>11. ASSUME \/ TerminateCurrent \/ SwitcherCheck \/ SwitcherPreempt
              \/ \E t \in Thread : StartPreemption(t) \/ \E id \in Thread : TerminateExecution(t, id)
       PROVE  OwnerInv'
  <2>1. UNCHANGED <<frames, pc, lazyThread, threadState, inUse, archive, stackLimit, scopes, postponed>>
    BY <1>11 DEF TerminateCurrent, SwitcherCheck, SwitcherPreempt, StartPreemption, TerminateExecution
  <2>2. DataKept
    BY <1>11, InterruptKeeps DEF TerminateCurrent, SwitcherCheck, SwitcherPreempt, StartPreemption,
                                 TerminateExecution, DataKept, SameFor
  <2>3. \A u \in Thread : OwnsLive(u)' <=> OwnsLive(u)
    BY <2>1, SameControl DEF OwnsLive
  <2>4. QED
    BY <2>1, <2>2, <2>3, OwnerSame
<1>12. QED
  BY <1>1, <1>2, <1>3, <1>4, <1>5, <1>6, <1>7, <1>8, <1>9, <1>10, <1>11 DEF Next, Step

---------------------------------------------------------------------------
(* The theorems.                                                            *)

LEMMA IInvInit == Init => IInv
<1> SUFFICES ASSUME Init PROVE IInv
  OBVIOUS
<1>1. /\ \A t \in Thread : /\ pc[t] = "idle" /\ frames[t] = <<>> /\ scopes[t] = 0 /\ postponed[t] = 0
                           /\ threadState[t] = NoState /\ stackLimit[t] = kIllegalLimit
      /\ mutex = NoThread /\ mutexOwner = NoThread /\ lazyThread = NoThread /\ lazyState = NoState
      /\ free = {} /\ inUse = {} /\ live = NoData
  BY DEF Init
<1>2. \A t \in Thread : ~Running(t) /\ ~Locked(t) /\ ~Parked(t) /\ ~OwnsLive(t)
  BY <1>1, ThreadAssumption DEF Running, Inside, Locked, Parked, OwnsLive
<1>3. LockInv
  BY <1>1, <1>2, ThreadAssumption DEF LockInv
<1>4. FrameInv
  BY <1>1 DEF FrameInv, FrameOK, WellNested
<1>5. TopLevelInv
  BY <1>1 DEF TopLevelInv, TopLevelOK
<1>6. ArchiveInv
  BY <1>1, <1>2, ThreadAssumption DEF ArchiveInv, ArchiveOK
<1>7. StateInv
  BY DEF Init, StateInv
<1>8. StartInv
  BY <1>1 DEF StartInv
<1>9. OwnerInv
  BY <1>1, <1>2 DEF OwnerInv, OwnerOK, NoData
<1>10. QED
  BY <1>3, <1>4, <1>5, <1>6, <1>7, <1>8, <1>9 DEF IInv

LEMMA IInvStep == TypeOK /\ IInv /\ [Next]_vars => TypeOK' /\ IInv'
<1> SUFFICES ASSUME TypeOK, IInv, [Next]_vars PROVE TypeOK' /\ IInv'
  OBVIOUS
<1>1. TypeOK'
  BY TypeStep DEF IInv
<1>2. CASE Next
  <2>1. LockInv' /\ FrameInv' /\ TopLevelInv' /\ ArchiveInv' /\ StateInv' /\ StartInv'
    BY <1>2, LockInvStep, FrameInvStep, TopLevelInvStep, ArchiveInvStep, StateInvStep,
       StartInvStep DEF IInv
  <2>2. OwnerInv'
    BY <1>2, OwnerInvStep
  <2>3. QED
    BY <1>1, <2>1, <2>2 DEF IInv
<1>3. CASE UNCHANGED vars
  <2> USE <1>3 DEF vars, managerVars, lockVars, stackVars, isolateVars, switcherVars
  <2>1. LockInv' /\ FrameInv' /\ TopLevelInv'
    BY DEF IInv, LockInv, Locked, Running, Inside, Top, FrameInv, FrameOK, WellNested,
           ScopesClosed, TopLevelInv, TopLevelOK
  <2>2. ArchiveInv' /\ StateInv' /\ StartInv'
    BY DEF IInv, ArchiveInv, ArchiveOK, Parked, Running, Inside, Top, StateInv, StartInv
  <2>3. OwnerInv'
    BY DEF IInv, OwnerInv, OwnerOK, OwnsLive, BelongsTo, Running, Inside, Top
  <2>4. QED
    BY <1>1, <2>1, <2>2, <2>3 DEF IInv
<1>4. QED
  BY <1>2, <1>3

\* The inductive invariant holds, for every set of threads and every bound.
THEOREM ThreadManagerInvariant == Spec => [](TypeOK /\ IInv)
<1>1. Init => TypeOK /\ IInv
  BY TypeInit, IInvInit
<1>2. QED
  BY <1>1, IInvStep, PTL DEF Spec

\* Every variable keeps its type (the declarations of v8threads.h, isolate.h).
THEOREM TypeCorrect == Spec => []TypeOK
BY ThreadManagerInvariant, PTL

\* Mutual exclusion: only the holder of the lock is inside V8, however Lockers
\* and Unlockers nest (ThreadManager::Lock, Unlock, Locker, Unlocker).
THEOREM MutualExclusion == Spec => []RunningHoldsLock
<1>1. TypeOK /\ IInv => RunningHoldsLock
  BY DEF IInv, LockInv, Locked, RunningHoldsLock
<1>2. QED
  BY <1>1, ThreadManagerInvariant, PTL

\* Whoever took turns in between, a thread finds its own handle scopes,
\* postponed interrupts and stack limit (ArchiveThread, RestoreThread).
THEOREM DataRestored == Spec => []OwnDataRestored
<1>1. TypeOK /\ IInv => OwnDataRestored
  BY DEF IInv, OwnerInv, OwnerOK, OwnsLive, OwnDataRestored
<1>2. QED
  BY <1>1, ThreadManagerInvariant, PTL

\* The free list, the in-use list and the lazily archived state are disjoint,
\* and a thread's ThreadState carries its id (ArchiveThread, RestoreThread).
THEOREM ListsDisjoint == Spec => []StatesDisjoint
<1>1. TypeOK /\ IInv => StatesDisjoint
  BY DEF IInv, ArchiveInv, ArchiveOK, StatesDisjoint
<1>2. QED
  BY <1>1, ThreadManagerInvariant, PTL

\* A recycled ThreadState carries neither an id nor a termination request into
\* its next use (RestoreThread).
THEOREM RecycledClean == Spec => []FreeStatesClean
<1>1. TypeOK /\ IInv => FreeStatesClean
  BY DEF IInv, ArchiveInv, StateInv, FreeStatesClean, TypeOK
<1>2. QED
  BY <1>1, ThreadManagerInvariant, PTL

---------------------------------------------------------------------------
(* Two further safety properties of ThreadManager, from invariants on top of *)
(* IInv: how many ThreadStates there are, and that interrupts are noticed.   *)

(* The pool of ThreadStates.                                                *)

\* A running thread is away nowhere, and neither is anybody lazily.
LEMMA RunningHasNoState ==
  ASSUME ArchiveInv, NEW t \in Thread, Running(t)
  PROVE  threadState[t] = NoState /\ lazyThread = NoThread /\ lazyState = NoState
BY RunningNotParked DEF ArchiveInv, ArchiveOK

\* Each state in use is the ThreadState of another thread than the running one.
LEMMA FewInUse ==
  ASSUME TypeOK, ArchiveInv, PoolInv, NEW t \in Thread, Running(t), IsFiniteSet(Thread)
  PROVE  IsFiniteSet(inUse) /\ Cardinality(inUse) <= Cardinality(Thread) - 1
<1> DEFINE owner == [s \in inUse |-> stateId[s]]
<1>1. ASSUME NEW s \in inUse PROVE stateId[s] \in Thread \ {t} /\ threadState[stateId[s]] = s
  <2>1. PICK u \in Thread : threadState[u] = s
    BY DEF PoolInv
  <2>2. s # NoState
    BY ThreadAssumption DEF TypeOK
  <2>3. u # t /\ stateId[s] = u
    BY <2>1, <2>2, RunningHasNoState DEF ArchiveInv, ArchiveOK
  <2>4. QED
    BY <2>1, <2>3
<1>2. owner \in Injection(inUse, Thread \ {t})
  BY <1>1 DEF Injection, IsInjective
<1>3. IsFiniteSet(Thread \ {t}) /\ Cardinality(Thread \ {t}) = Cardinality(Thread) - 1
  BY FS_RemoveElement
<1> HIDE DEF owner
<1>4. QED
  BY <1>2, <1>3, FS_Injection

LEMMA PoolStep ==
  ASSUME TypeOK, ArchiveInv, PoolInv, Next, IsFiniteSet(Thread)
  PROVE  PoolInv'
<1> DEFINE Owned == inUse \cup ({lazyState} \ {NoState})
<1>1. ASSUME NEW t \in Thread, Running(t), ArchiveThread(t) PROVE PoolInv'
  <2>1. threadState[t] = NoState /\ lazyState = NoState /\ NoState \notin inUse
    BY <1>1, RunningHasNoState, ThreadAssumption DEF TypeOK
  <2>2. PICK s \in ThreadState :
          /\ GetFreeThreadState(s) /\ free' = free \ {s} /\ inUse' = inUse /\ lazyState' = s
          /\ threadState' = [threadState EXCEPT ![t] = s]
    BY <1>1 DEF ArchiveThread, FreeWithout
  <2>3. ASSUME NEW r \in Owned' PROVE \E u \in Thread : threadState'[u] = r
    <3>1. CASE r = s
      BY <2>2, <3>1 DEF TypeOK
    <3>2. CASE r # s
      <4>1. PICK u \in Thread : threadState[u] = r
        BY <2>2, <2>3, <3>2 DEF PoolInv
      <4>2. u # t
        BY <2>1, <2>2, <2>3, <3>2, <4>1
      <4>3. QED
        BY <2>2, <4>1, <4>2 DEF TypeOK
    <3>3. QED
      BY <3>1, <3>2
  <2>4. CASE free # {}
    <3>1. s \in free /\ s # NoState
      BY <2>2, <2>4, ThreadAssumption DEF GetFreeThreadState
    <3>2. Allocated' = Allocated
      BY <2>1, <2>2, <3>1 DEF Allocated
    <3>3. QED
      BY <2>3, <3>2 DEF PoolInv, PoolBounded
  <2>5. CASE free = {}
    <3>1. Allocated' = inUse \cup {s}
      BY <2>2, <2>5, ThreadAssumption DEF Allocated
    <3>2. /\ IsFiniteSet(inUse) /\ Cardinality(inUse) <= Cardinality(Thread) - 1
          /\ Cardinality(Thread) \in Nat /\ Cardinality(inUse) \in Nat
      BY <1>1, FewInUse, FS_CardinalityType
    <3>3. IsFiniteSet(inUse \cup {s}) /\ Cardinality(inUse \cup {s}) <= Cardinality(inUse) + 1
      <4>1. /\ IsFiniteSet(inUse \cup {s})
            /\ Cardinality(inUse \cup {s}) =
                 IF s \in inUse THEN Cardinality(inUse) ELSE Cardinality(inUse) + 1
        BY <3>2, FS_AddElement
      <4>2. QED
        BY <3>2, <4>1
    <3>4. Cardinality(inUse \cup {s}) \in Nat
      BY <3>3, FS_CardinalityType
    <3>5. QED
      BY <2>3, <3>1, <3>2, <3>3, <3>4 DEF PoolInv, PoolBounded
  <2>6. QED
    BY <2>4, <2>5
<1>2. InUseAfterArchiving = Owned
  BY ThreadAssumption DEF InUseAfterArchiving, Archiving, ArchiveInv, ArchiveOK, TypeOK
<1>3. ASSUME NEW t \in Thread, RestoreNewThread(t) PROVE PoolInv'
  <2>1. UNCHANGED <<free, threadState>> /\ inUse' = Owned /\ lazyState' = NoState
    BY <1>2, <1>3 DEF RestoreNewThread
  <2>2. Allocated' = Allocated /\ Owned' = Owned
    BY <2>1 DEF Allocated
  <2>3. QED
    BY <2>1, <2>2 DEF PoolInv, PoolBounded
<1>4. ASSUME NEW t \in Thread, RestoreTrue(t) PROVE PoolInv'
  <2>1. PICK s \in ThreadState :
          /\ s \in Owned /\ free' = free \cup {s} /\ inUse' = Owned \ {s} /\ lazyState' = NoState
          /\ threadState[t] = s /\ threadState' = [threadState EXCEPT ![t] = NoState]
    <3>1. CASE RestoreLazilyArchived(t)
      <4>1. lazyState \in ThreadState /\ threadState[t] = lazyState /\ lazyState \notin inUse
        BY <3>1, ThreadAssumption DEF RestoreLazilyArchived, ArchiveInv, ArchiveOK, TypeOK
      <4>2. QED
        BY <3>1, <4>1, ThreadAssumption DEF RestoreLazilyArchived
    <3>2. CASE RestoreArchived(t)
      <4>1. threadState[t] \in ThreadState /\ threadState[t] \in Owned
        BY <3>2 DEF RestoreArchived, ArchiveInv, ArchiveOK, TypeOK
      <4>2. QED
        BY <1>2, <3>2, <4>1 DEF RestoreArchived
    <3>3. QED
      BY <1>4, <3>1, <3>2 DEF RestoreTrue
  <2>2. Allocated' = Allocated
    BY <2>1 DEF Allocated
  <2>3. ASSUME NEW r \in Owned' PROVE \E u \in Thread : threadState'[u] = r
    <3>1. r \in Owned /\ r # s
      BY <2>1, <2>3
    <3>2. PICK u \in Thread : threadState[u] = r
      BY <3>1 DEF PoolInv
    <3>3. QED
      BY <2>1, <3>1, <3>2 DEF TypeOK
  <2>4. QED
    BY <2>2, <2>3 DEF PoolInv, PoolBounded
<1>5. CASE UNCHANGED managerVars \/ Quiet
  BY <1>5 DEF managerVars, Quiet, PoolInv, PoolBounded, Allocated
<1>6. QED
  BY <1>1, <1>3, <1>4, <1>5, ManagerCases

\* However many threads take turns, nest Lockers and leave, there are never
\* more ThreadStates than threads (GetFreeThreadState, RestoreThread).
THEOREM PoolNeverGrows ==
  ASSUME IsFiniteSet(Thread)
  PROVE  Spec => []PoolBounded
<1>1. Init => PoolInv
  <2> SUFFICES ASSUME Init PROVE PoolInv
    OBVIOUS
  <2>1. Allocated = {} /\ inUse \cup ({lazyState} \ {NoState}) = {}
    BY DEF Init, Allocated
  <2>2. Cardinality(Thread) \in Nat
    BY FS_CardinalityType
  <2>3. QED
    BY <2>1, <2>2, FS_EmptySet DEF PoolInv, PoolBounded
<1>2. TypeOK /\ IInv /\ PoolInv /\ [Next]_vars => PoolInv'
  <2>1. ASSUME PoolInv, UNCHANGED vars PROVE PoolInv'
    BY <2>1 DEF vars, managerVars, PoolInv, PoolBounded, Allocated
  <2>2. QED
    BY <2>1, PoolStep DEF IInv
<1>3. PoolInv => PoolBounded
  BY DEF PoolInv
<1>4. QED
  BY <1>1, <1>2, <1>3, ThreadManagerInvariant, PTL DEF Spec

---------------------------------------------------------------------------
(* Interrupts.                                                              *)

\* What requests and their processing do to a guard whose interrupts are seen.
LEMMA RequestArms ==
  ASSUME NEW g \in ThreadLocal, NEW flag \in InterruptFlag, Armed(g)
  PROVE  /\ Armed(Request(g, flag))
         /\ g.postpone = 0 <=> Due(Request(g, flag))
BY DEF Request, set_interrupt_limits, ThreadLocal, Armed, Due

LEMMA ContinueArms ==
  ASSUME NEW g \in ThreadLocal, NEW flag \in InterruptFlag, Armed(g)
  PROVE  Armed(Continue(g, flag)) /\ (Due(Continue(g, flag)) => Due(g))
BY DEF Continue, reset_limits, ThreadLocal, Armed, Due

LEMMA SetStackLimitArms ==
  ASSUME NEW g \in ThreadLocal, NEW a, Armed(g)
  PROVE  Armed(SetStackLimit(g, a)) /\ (Due(SetStackLimit(g, a)) <=> Due(g))
BY LimitsAssumption DEF SetStackLimit, ThreadLocal, Armed, Due

\* A guard that is initialised has nothing pending.
LEMMA InitThreadArms ==
  ASSUME NEW g, NEW base, NEW stored
  PROVE  ~Due(InitThread(g, base, stored)) /\ Armed(InitThread(g, base, stored))
BY DEF InitThread, Initialize, SetStackLimit, Armed, Due

LEMMA ClearedArmed == ~Due(Cleared) /\ Armed(Cleared) /\ NoData.guard = Cleared
BY DEF Cleared, Due, Armed, NoData

LEMMA InterruptArms ==
  ASSUME TypeOK, GuardInv, NEW flag \in InterruptFlag, Interrupt(flag), UNCHANGED archive
  PROVE  GuardInv'
<1>1. live'.guard = Request(live.guard, flag) /\ live.guard \in ThreadLocal
  BY LiveType DEF Interrupt, TypeOK, Data
<1>2. Armed(live'.guard) /\ (live.guard.postpone = 0 <=> Due(live'.guard))
  BY <1>1, RequestArms DEF GuardInv
<1>3. Due(live'.guard) => roots'.limit = kInterruptLimit
  BY <1>2 DEF Interrupt, Roots, Armed
<1>4. QED
  BY <1>2, <1>3 DEF GuardInv

LEMMA ContinueAfterArms ==
  ASSUME TypeOK, GuardInv, NEW flag \in InterruptFlag, ContinueAfter(flag), UNCHANGED archive
  PROVE  GuardInv'
<1>1. live'.guard = Continue(live.guard, flag) /\ live.guard \in ThreadLocal
  BY LiveType DEF ContinueAfter, TypeOK, Data
<1>2. Armed(live'.guard) /\ (Due(live'.guard) => Due(live.guard))
  BY <1>1, ContinueArms DEF GuardInv
<1>3. Due(live'.guard) => roots'.limit = kInterruptLimit
  BY <1>2 DEF ContinueAfter, Roots, Armed, GuardInv
<1>4. QED
  BY <1>2, <1>3 DEF GuardInv

\* Archiving stores an armed guard and leaves a blank one.
LEMMA ArchivingArms ==
  ASSUME TypeOK, ArchiveInv, GuardInv
  PROVE  \A s \in ThreadState : /\ ArchiveAfterArchiving[s].guard \in ThreadLocal
                                /\ Armed(ArchiveAfterArchiving[s].guard)
<1>1. ASSUME NEW s \in ThreadState
      PROVE  ArchiveAfterArchiving[s] \in {live, archive[s]}
  BY DEF ArchiveAfterArchiving, TypeOK
<1>2. ASSUME NEW s \in ThreadState PROVE Armed(archive[s].guard) /\ archive[s].guard \in ThreadLocal
  BY DEF GuardInv, TypeOK, Data
<1>3. Armed(live.guard) /\ live.guard \in ThreadLocal
  BY LiveType DEF GuardInv
<1>4. QED
  BY <1>1, <1>2, <1>3

LEMMA RestoreArms ==
  ASSUME TypeOK, ArchiveInv, GuardInv, NEW t \in Thread, RestoreTrue(t) \/ RestoreNewThread(t)
  PROVE  GuardInv'
<1>1. CASE RestoreLazilyArchived(t)
  BY <1>1 DEF RestoreLazilyArchived, GuardInv
<1>2. CASE RestoreArchived(t)
  <2> DEFINE s == threadState[t]
             data == ArchiveAfterArchiving[s]
             guard == TerminateOnRestore(s, data.guard)
  <2>1. /\ s \in ThreadState /\ live' = [data EXCEPT !.guard = guard]
        /\ roots' = Roots(guard) /\ archive' = ArchiveAfterArchiving
    BY <1>2 DEF RestoreArchived, TypeOK
  <2>2. data \in Data
    BY <2>1, ArchivingType
  <2>3. data.guard \in ThreadLocal /\ Armed(data.guard)
    BY <2>1, ArchivingArms
  <2>4. Armed(guard)
    BY <2>3, RequestArms DEF TerminateOnRestore, InterruptFlag
  <2>5. live'.guard = guard
    BY <2>1, <2>2 DEF Data
  <2> HIDE DEF guard, data, s
  <2>6. roots'.limit = guard.limit
    BY <2>1 DEF Roots
  <2>7. \A r \in ThreadState : Armed(archive'[r].guard)
    BY <2>1, ArchivingArms
  <2>8. QED
    BY <2>4, <2>5, <2>6, <2>7 DEF GuardInv, Armed
<1>3. CASE RestoreNewThread(t)
  <2>1. /\ archive' = ArchiveAfterArchiving /\ LiveAfterArchiving(t) \in Data
        /\ live' = [LiveAfterArchiving(t) EXCEPT !.guard =
                      InitThread(@, BaseLimit[t], stackLimit[t])]
    BY <1>3, ArchivingType DEF RestoreNewThread
  <2>2. live'.guard = InitThread(LiveAfterArchiving(t).guard, BaseLimit[t], stackLimit[t])
    BY <2>1 DEF Data
  <2>3. ~Due(live'.guard) /\ Armed(live'.guard)
    BY <2>2, InitThreadArms
  <2>4. \A r \in ThreadState : Armed(archive'[r].guard)
    BY <2>1, ArchivingArms
  <2>5. QED
    BY <2>3, <2>4 DEF GuardInv
<1>4. QED
  BY <1>1, <1>2, <1>3 DEF RestoreTrue

LEMMA GuardStep ==
  ASSUME TypeOK, IInv, GuardInv, Next
  PROVE  GuardInv'
<1> USE DEF managerVars
<1>1. ASSUME NEW t \in Thread,
             \/ LockerLock(t) \/ ReleaseMutex(t) \/ UnlockerLock(t) \/ UnlockerCreate(t)
             \/ StartPreemption(t) \/ StopPreemption(t) \/ JoinSwitcher(t)
      PROVE  GuardInv'
  BY <1>1 DEF LockerLock, ReleaseMutex, UnlockerLock, UnlockerCreate, Unlocking, ArchiveThread,
              StartPreemption, StopPreemption, JoinSwitcher, GuardInv
<1>2. ASSUME NEW t \in Thread, LockerEnter(t) PROVE GuardInv'
  <2> DEFINE old == IF t \in entered THEN live ELSE [live EXCEPT !.id = t]
  <2>1. old.guard = live.guard /\ UNCHANGED archive
    BY <1>2 DEF LockerEnter, TypeOK, Data
  <2>2. CASE running
    BY <1>2, <2>1, <2>2 DEF LockerEnter, GuardInv
  <2>3. CASE ~running
    <3>1. live'.guard = InitThread(old.guard, BaseLimit[t], stackLimit[t])
      BY <1>2, <2>3 DEF LockerEnter
    <3>2. QED
      BY <2>1, <3>1, InitThreadArms DEF GuardInv
  <2>4. QED
    BY <2>2, <2>3
<1>3. ASSUME NEW t \in Thread, LockerRestore(t) \/ UnlockerRestore(t) PROVE GuardInv'
  BY <1>3, RestoreArms DEF LockerRestore, UnlockerRestore, IInv
<1>4. ASSUME NEW t \in Thread, LockerInit(t) PROVE GuardInv'
  <2>1. live'.guard = InitThread(Cleared, BaseLimit[t], stackLimit[t]) /\ UNCHANGED archive
    BY <1>4 DEF LockerInit, GuardOfNewThread, TypeOK, Data
  <2>2. QED
    BY <2>1, InitThreadArms DEF GuardInv
<1>5. ASSUME NEW t \in Thread, LockerDestroy(t) \/ OpenScope(t) \/ CloseScope(t) PROVE GuardInv'
  <2>1. live'.guard = live.guard /\ UNCHANGED <<archive, roots>>
    BY <1>5 DEF LockerDestroy, FreeThreadResources, ArchiveThread, OpenScope, CloseScope, TypeOK, Data
  <2>2. QED
    BY <2>1 DEF GuardInv
<1>6. ASSUME NEW t \in Thread, PostponeInterrupts(t) PROVE GuardInv'
  <2>1. live.guard.postpone \in Nat
    BY <1>6 DEF PostponeInterrupts, IInv, OwnerInv, OwnerOK, OwnsLive, BelongsTo, TypeOK
  <2>2. /\ live'.guard = reset_limits([live.guard EXCEPT !.postpone = @ + 1])
        /\ live.guard \in ThreadLocal /\ UNCHANGED archive
    BY <1>6, LiveType DEF PostponeInterrupts, TypeOK, Data
  <2>3. ~Due(live'.guard)
    BY <2>1, <2>2 DEF reset_limits, ThreadLocal, Due
  <2>4. QED
    BY <2>2, <2>3 DEF GuardInv, Armed
<1>7. ASSUME NEW t \in Thread, AllowInterrupts(t) PROVE GuardInv'
  <2> DEFINE guard == [live.guard EXCEPT !.postpone = @ - 1]
  <2>1. guard \in ThreadLocal /\ UNCHANGED archive
    BY <1>7, LiveType DEF AllowInterrupts, ThreadLocal
  <2>2. CASE EnablesInterrupts(guard)
    <3>1. live'.guard = EnableInterrupts(guard) /\ roots' = Roots(live'.guard)
      BY <1>7, <2>2 DEF AllowInterrupts, TypeOK, Data
    <3>2. live'.guard.limit = kInterruptLimit
      BY <2>1, <2>2, <3>1 DEF EnablesInterrupts, EnableInterrupts, set_interrupt_limits, ThreadLocal
    <3>3. QED
      BY <2>1, <3>1, <3>2 DEF GuardInv, Armed, Roots
  <2>3. CASE ~EnablesInterrupts(guard)
    <3>1. live'.guard = guard
      BY <1>7, <2>3 DEF AllowInterrupts, TypeOK, Data
    <3>2. ~Due(live'.guard)
      BY <2>3, <3>1 DEF EnablesInterrupts, Due
    <3>3. QED
      BY <2>1, <3>2 DEF GuardInv, Armed
  <2>4. QED
    BY <2>2, <2>3
<1>8. ASSUME NEW t \in Thread, SetResourceConstraints(t) PROVE GuardInv'
  <2>1. /\ live'.guard = SetStackLimit(live.guard, CustomLimit[t]) /\ live.guard \in ThreadLocal
        /\ UNCHANGED <<archive, roots>>
    BY <1>8, LiveType DEF SetResourceConstraints, TypeOK, Data
  <2>2. QED
    BY <2>1, SetStackLimitArms DEF GuardInv
<1>9. ASSUME NEW t \in Thread, HandlePreempt(t) \/ HandleTerminate(t) PROVE GuardInv'
  <2>1. UNCHANGED archive /\ (\/ ContinueAfter("PREEMPT") \/ ContinueAfter("TERMINATE")
                              \/ UNCHANGED <<live, roots>>)
    BY <1>9 DEF HandlePreempt, HandleTerminate, Unlocking, ArchiveThread
  <2>2. QED
    BY <2>1, ContinueAfterArms DEF GuardInv, InterruptFlag
<1>10. ASSUME \/ \E t, id \in Thread : TerminateExecution(t, id)
              \/ TerminateCurrent \/ SwitcherPreempt \/ SwitcherCheck
       PROVE  GuardInv'
  <2>1. UNCHANGED archive /\ (\/ Interrupt("TERMINATE") \/ Interrupt("PREEMPT")
                              \/ UNCHANGED <<live, roots>>)
    BY <1>10 DEF TerminateExecution, TerminateCurrent, SwitcherPreempt, SwitcherCheck
  <2>2. QED
    BY <2>1, InterruptArms DEF GuardInv, InterruptFlag
<1>11. QED
  BY <1>1, <1>2, <1>3, <1>4, <1>5, <1>6, <1>7, <1>8, <1>9, <1>10 DEF Next, Step

\* An interrupt that is pending and not postponed makes the running thread's
\* stack checks fail, in the runtime and in generated code: none is lost in
\* postponing, archiving, restoring or changing the limit (StackGuard).
THEOREM InterruptsNoticed == Spec => []InterruptsSeen
<1>1. Init => GuardInv
  BY ClearedArmed DEF Init, GuardInv
<1>2. TypeOK /\ IInv /\ GuardInv /\ [Next]_vars => GuardInv'
  <2>1. ASSUME GuardInv, UNCHANGED vars PROVE GuardInv'
    BY <2>1 DEF vars, managerVars, GuardInv
  <2>2. QED
    BY <2>1, GuardStep
<1>3. GuardInv => InterruptsSeen
  BY DEF GuardInv, InterruptsSeen, Armed, Due
<1>4. QED
  BY <1>1, <1>2, <1>3, ThreadManagerInvariant, PTL DEF Spec

---------------------------------------------------------------------------
(* Termination.                                                             *)

Asked(data) == "TERMINATE" \in data.guard.flags

\* A step that leaves t's data where they are.
LEMMA PendingStays ==
  ASSUME NEW t \in Thread, TerminationPending(t), UNCHANGED <<threadState, inUse, archive>>,
         OwnsLive(t) => OwnsLive(t)' /\ (Asked(live) => Asked(live)'),
         threadState[t] \in inUse /\ terminateOnRestore[threadState[t]]
           => terminateOnRestore'[threadState[t]]
  PROVE  TerminationPending(t)'
BY DEF TerminationPending, LiveIs, OwnsLive, Asked

\* A step that changes no request, after which the same threads own the same data.
LEMMA PendingSame ==
  ASSUME NEW t \in Thread, TerminationPending(t), UNCHANGED <<managerVars, live>>,
         OwnsLive(t) => OwnsLive(t)'
  PROVE  TerminationPending(t)'
BY PendingStays DEF managerVars, Asked

\* While u runs, t's data are in a ThreadState.
LEMMA NotTheRunningOne ==
  ASSUME IInv, NEW u \in Thread, NEW t \in Thread \ {u},
         Running(u) \/ pc[u] \in {"initing", "interrupted", "joining"}
  PROVE  ~OwnsLive(t)
BY RunningOwns, RunningNotParked DEF IInv

\* The flags after an operation of the guard.
LEMMA RequestKeepsFlags ==
  ASSUME NEW g \in ThreadLocal, "TERMINATE" \in g.flags, NEW flag
  PROVE  "TERMINATE" \in Request(g, flag).flags
BY DEF Request, set_interrupt_limits, ThreadLocal

LEMMA ContinueKeepsFlags ==
  ASSUME NEW g \in ThreadLocal, "TERMINATE" \in g.flags, NEW flag, flag # "TERMINATE"
  PROVE  "TERMINATE" \in Continue(g, flag).flags
BY DEF Continue, reset_limits, ThreadLocal

LEMMA SetStackLimitKeepsFlags ==
  ASSUME NEW g \in ThreadLocal, NEW a PROVE SetStackLimit(g, a).flags = g.flags
BY DEF SetStackLimit, ThreadLocal

LEMMA PostponingKeepsFlags ==
  ASSUME NEW g \in ThreadLocal, NEW n \in Int
  PROVE  LET h == [g EXCEPT !.postpone = n]
         IN  h.flags = g.flags /\ reset_limits(h).flags = g.flags
               /\ EnableInterrupts(h).flags = g.flags
BY DEF reset_limits, EnableInterrupts, set_interrupt_limits, ThreadLocal

LEMMA PendingArchive ==
  ASSUME TypeOK, IInv, NEW u \in Thread, Running(u), ArchiveThread(u), Asked(live) => Asked(live)',
         NEW t \in Thread, TerminationPending(t)
  PROVE  TerminationPending(t)'
<1>1. CASE t = u
  <2>1. lazyThread' = t /\ NoState \notin inUse /\ threadState[t] = NoState
    BY <1>1, RunningHasNoState, ThreadAssumption DEF ArchiveThread, IInv, TypeOK
  <2>2. Asked(live)
    BY <2>1 DEF TerminationPending, Asked
  <2>3. QED
    BY <2>1, <2>2 DEF TerminationPending, LiveIs, Asked
<1>2. CASE t # u
  <2>1. ~OwnsLive(t)
    BY <1>2, NotTheRunningOne
  <2>2. /\ threadState'[t] = threadState[t]
        /\ UNCHANGED <<inUse, archive, terminateOnRestore>>
    BY <1>2 DEF ArchiveThread, TypeOK
  <2>3. QED
    BY <2>1, <2>2 DEF TerminationPending, LiveIs, OwnsLive
<1>3. QED
  BY <1>1, <1>2

\* What of t is away stays away, eagerly archived, when u is restored.
LEMMA PendingAfterArchiving ==
  ASSUME TypeOK, ArchiveInv, NEW t \in Thread, TerminationPending(t), OwnsLive(t) => lazyThread = t
  PROVE  /\ threadState[t] \in InUseAfterArchiving /\ threadState[t] \in ThreadState
         /\ \/ terminateOnRestore[threadState[t]]
            \/ Asked(ArchiveAfterArchiving[threadState[t]])
<1>1. CASE threadState[t] \in inUse
  <2>1. threadState[t] \in ThreadState /\ threadState[t] # lazyState
    BY <1>1 DEF TypeOK, ArchiveInv
  <2>2. ArchiveAfterArchiving[threadState[t]] = archive[threadState[t]]
    BY <2>1 DEF ArchiveAfterArchiving, TypeOK
  <2>3. ~OwnsLive(t)
    BY <2>1 DEF ArchiveInv, ArchiveOK
  <2>4. QED
    BY <1>1, <2>1, <2>2, <2>3 DEF TerminationPending, LiveIs, OwnsLive, Asked, InUseAfterArchiving
<1>2. CASE threadState[t] \notin inUse
  <2>1. lazyThread = t /\ Asked(live)
    BY <1>2 DEF TerminationPending, LiveIs, OwnsLive, Asked
  <2>2. Archiving /\ threadState[t] = lazyState /\ lazyState \in ThreadState
    BY <2>1, LazyFacts, ThreadAssumption DEF Archiving
  <2>3. ArchiveAfterArchiving[lazyState] = live
    BY <2>2 DEF ArchiveAfterArchiving, TypeOK
  <2>4. QED
    BY <2>1, <2>2, <2>3 DEF InUseAfterArchiving
<1>3. QED
  BY <1>1, <1>2

LEMMA PendingRestore ==
  ASSUME TypeOK, IInv, NEW u \in Thread, (RestoreTrue(u) /\ OwnsLive(u)') \/ RestoreNewThread(u),
         pc[u] \in {"restoring", "relocking"},
         NEW t \in Thread, TerminationPending(t)
  PROVE  TerminationPending(t)'
<1> DEFINE r == threadState[t]
<1>1. OwnsLive(t) => lazyThread = t
  <2>1. CASE t = u
    BY <2>1 DEF OwnsLive, Running, Inside
  <2>2. CASE t # u
    <3>1. ~Locked(t)
      BY <2>2, OthersOutside DEF Locked, IInv
    <3>2. QED
      BY <3>1 DEF OwnsLive, Locked
  <2>3. QED
    BY <2>1, <2>2
<1>2. CASE RestoreLazilyArchived(u)
  <2>1. CASE t = u
    <3>1. /\ OwnsLive(t)' /\ live' = live /\ ~RestoreNewThread(u)
          /\ lazyThread = t /\ threadState[t] \notin inUse
      BY <1>2, <2>1 DEF RestoreLazilyArchived, RestoreNewThread, IInv, ArchiveInv, ArchiveOK
    <3>2. QED
      BY <3>1 DEF TerminationPending, LiveIs, OwnsLive
  <2>2. CASE t # u
    <3>1. ~OwnsLive(t) /\ threadState'[t] = threadState[t]
          /\ UNCHANGED <<inUse, archive, terminateOnRestore>>
      BY <1>1, <1>2, <2>2 DEF RestoreLazilyArchived, TypeOK
    <3>2. QED
      BY <3>1 DEF TerminationPending, LiveIs, OwnsLive
  <2>3. QED
    BY <2>1, <2>2
<1>3. /\ r \in InUseAfterArchiving /\ r \in ThreadState /\ r # NoState
      /\ terminateOnRestore[r] \/ Asked(ArchiveAfterArchiving[r])
      /\ ArchiveAfterArchiving \in [ThreadState -> Data] /\ stateId[r] = t
  BY <1>1, PendingAfterArchiving, ArchivingType, LazyFacts, ThreadAssumption DEF IInv
<1>4. CASE RestoreArchived(u)
  <2>1. CASE t = u
    <3> DEFINE data == ArchiveAfterArchiving[r]
               guard == TerminateOnRestore(r, data.guard)
    <3>1. OwnsLive(t)' /\ live' = [data EXCEPT !.guard = guard]
      BY <1>4, <2>1 DEF RestoreArchived, RestoreNewThread
    <3>2. data \in Data /\ data.guard \in ThreadLocal
      BY <1>3 DEF Data
    <3>3. "TERMINATE" \in guard.flags
      BY <1>3, <3>2 DEF Asked, TerminateOnRestore, Request, set_interrupt_limits, ThreadLocal
    <3>4. Asked(live)'
      BY <3>1, <3>2, <3>3 DEF Asked, Data
    <3>5. QED
      BY <3>1, <3>4 DEF TerminationPending, LiveIs, OwnsLive, Asked
  <2>2. CASE t # u
    <3>1. threadState[u] # r
      BY <1>3, <1>4, <2>2 DEF RestoreArchived, IInv, ArchiveInv, ArchiveOK
    <3>2. /\ threadState'[t] = r /\ r \in inUse' /\ archive' = ArchiveAfterArchiving
          /\ terminateOnRestore'[r] = terminateOnRestore[r]
      BY <1>3, <1>4, <2>2, <3>1 DEF RestoreArchived, WithoutRequest, TypeOK
    <3>3. QED
      BY <1>3, <3>2 DEF TerminationPending, Asked
  <2>3. QED
    BY <2>1, <2>2
<1>5. CASE RestoreNewThread(u)
  <2>1. /\ threadState' = threadState /\ inUse' = InUseAfterArchiving
        /\ archive' = ArchiveAfterArchiving /\ UNCHANGED terminateOnRestore
    BY <1>5 DEF RestoreNewThread
  <2>2. QED
    BY <1>3, <2>1 DEF TerminationPending, Asked
<1>6. QED
  BY <1>2, <1>4, <1>5 DEF RestoreTrue

LEMMA PendingStep ==
  ASSUME TypeOK, IInv, Next, NEW t \in Thread, TerminationPending(t),
         ~HandleTerminate(t), ~LockerDestroy(t)
  PROVE  TerminationPending(t)'
<1> USE DEF managerVars
<1>1. ASSUME NEW u \in Thread, LockerLock(u) PROVE TerminationPending(t)'
  <2>1. /\ pc[u] = "idle" /\ UNCHANGED <<managerVars, live>>
        /\ \A v \in Thread \ {u} : pc'[v] = pc[v]
    BY <1>1, GotoEffect DEF LockerLock, MayPush
  <2>2. PICK b \in BOOLEAN : Push(u, "Locker", b) /\ (~b => UNCHANGED pc) /\ (b => mutex = NoThread)
    BY <1>1 DEF LockerLock, Lock
  <2>3. /\ \A v \in Thread \ {u} : frames'[v] = frames[v]
        /\ frames'[u] # <<>> /\ Top(u)'.kind = "Locker"
    BY <2>2, PushEffect DEF FrameKind
  <2>4. ASSUME Running(u) PROVE Running(u)'
    <3>1. mutex = u
      BY <2>4 DEF IInv, LockInv, Locked
    <3>2. UNCHANGED pc
      BY <2>2, <3>1, ThreadAssumption
    <3>3. QED
      BY <2>1, <2>3, <3>2 DEF Running, Inside, Top
  <2>5. OwnsLive(t) => OwnsLive(t)'
    <3>1. CASE t = u
      BY <2>1, <2>4, <3>1 DEF OwnsLive
    <3>2. CASE t # u
      BY <2>1, <2>3, <3>2, SameControl DEF OwnsLive
    <3>3. QED
      BY <3>1, <3>2
  <2>6. QED
    BY <2>1, <2>5, PendingSame
<1>2. ASSUME NEW u \in Thread, LockerEnter(u) PROVE TerminationPending(t)'
  <2>1. /\ pc[u] = "entering" /\ UNCHANGED <<managerVars, frames>> /\ Goto(u, "restoring")
        /\ running => live'.guard = live.guard
    BY <1>2 DEF LockerEnter, stackVars, TypeOK, Data
  <2>2. OwnsLive(t)' <=> OwnsLive(t)
    <3>1. ~Running(u) /\ ~Running(u)'
      BY <2>1, GotoEffect DEF Running, Inside
    <3>2. QED
      BY <2>1, <3>1, OwnsGoto
  <2>3. OwnsLive(t) => running
    BY NobodyBeforeStart DEF IInv
  <2>4. QED
    BY <2>1, <2>2, <2>3, PendingStays DEF Asked
<1>3. ASSUME NEW u \in Thread, LockerRestore(u) \/ UnlockerRestore(u) PROVE TerminationPending(t)'
  <2>1. /\ pc[u] \in {"restoring", "relocking"}
        /\ RestoreTrue(u) \/ RestoreNewThread(u)
    BY <1>3 DEF LockerRestore, UnlockerRestore
  <2>2. ASSUME RestoreTrue(u) PROVE OwnsLive(u)'
    <3>1. ~RestoreNewThread(u)
      BY <2>1, <2>2 DEF RestoreTrue, RestoreLazilyArchived, RestoreArchived, RestoreNewThread
    <3>2. CASE LockerRestore(u)
      <4>1. /\ frames' = [frames EXCEPT ![u] = Append(Popped(u), [Top(u) EXCEPT !.top_level = FALSE])]
            /\ pc[u] = "restoring" /\ Goto(u, "idle")
        BY <3>1, <3>2 DEF LockerRestore
      <4>2. frames[u] # <<>> /\ Top(u).kind = "Locker"
        BY <4>1 DEF IInv, FrameInv, FrameOK
      <4>3. pc'[u] = "idle"
        BY <4>1, GotoEffect DEF IInv
      <4>4. frames'[u] # <<>> /\ Top(u)'.kind = Top(u).kind
        BY <4>1, <4>2, SetTopEffect DEF IInv
      <4>5. QED
        BY <4>2, <4>3, <4>4 DEF OwnsLive, Running, Inside
    <3>3. CASE UnlockerRestore(u)
      <4>1. pc[u] = "relocking" /\ Pop(u)
        BY <3>3 DEF UnlockerRestore
      <4>2. frames'[u] # <<>> /\ Top(u)'.kind = "Locker"
        BY <4>1, PopNesting DEF IInv, FrameInv, FrameOK
      <4>3. pc'[u] \in {"idle", "interrupted"}
        BY <3>3, GotoEffect DEF UnlockerRestore
      <4>4. QED
        BY <4>2, <4>3 DEF OwnsLive, Running, Inside
    <3>4. QED
      BY <1>3, <3>2, <3>3
  <2>3. QED
    BY <2>1, <2>2, PendingRestore
<1>4. ASSUME NEW u \in Thread, LockerInit(u) PROVE TerminationPending(t)'
  <2>1. pc[u] = "initing" /\ UNCHANGED managerVars
    BY <1>4 DEF LockerInit
  <2>2. ~OwnsLive(u)
    BY <2>1, ThreadAssumption DEF IInv, ArchiveInv, ArchiveOK, OwnsLive, Running, Inside
  <2>3. ~OwnsLive(t)
    BY <2>1, <2>2, NotTheRunningOne
  <2>4. QED
    BY <2>1, <2>3, PendingStays
<1>5. ASSUME NEW u \in Thread, LockerDestroy(u) PROVE TerminationPending(t)'
  <2>1. Running(u) /\ t # u /\ ~OwnsLive(t)
    BY <1>5, NotTheRunningOne DEF LockerDestroy
  <2>2. ArchiveThread(u) \/ UNCHANGED managerVars
    BY <1>5 DEF LockerDestroy, FreeThreadResources
  <2>3. CASE UNCHANGED managerVars
    BY <2>1, <2>3, PendingStays
  <2>4. CASE ArchiveThread(u)
    <3>1. UNCHANGED <<inUse, archive, terminateOnRestore>> /\ threadState'[t] = threadState[t]
      BY <2>1, <2>4 DEF ArchiveThread, TypeOK
    <3>2. QED
      BY <2>1, <3>1 DEF TerminationPending, LiveIs, OwnsLive
  <2>5. QED
    BY <2>2, <2>3, <2>4
<1>6. ASSUME NEW u \in Thread, ReleaseMutex(u) \/ UnlockerLock(u) PROVE TerminationPending(t)'
  <2>1. /\ frames[u] = <<>> \/ Top(u).kind # "Locker"
        /\ pc[u] \in {"idle", "unlocking"} /\ UNCHANGED <<managerVars, frames, live>>
    BY <1>6 DEF ReleaseMutex, UnlockerLock, Inside, IInv, FrameInv, FrameOK, stackVars
  <2>2. PICK label \in {"idle", "relocking"} : Goto(u, label)
    BY <1>6 DEF ReleaseMutex, UnlockerLock
  <2>3. ~Running(u) /\ ~Running(u)'
    BY <2>1 DEF Running, Inside, Top
  <2>4. OwnsLive(t)' <=> OwnsLive(t)
    BY <2>1, <2>2, <2>3, OwnsGoto
  <2>5. QED
    BY <2>1, <2>4, PendingSame
<1>7. ASSUME NEW u \in Thread, UnlockerCreate(u) \/ HandlePreempt(u) PROVE TerminationPending(t)'
  <2>1. Running(u) /\ ArchiveThread(u)
    BY <1>7 DEF UnlockerCreate, HandlePreempt, Unlocking
  <2>2. ASSUME Asked(live) PROVE Asked(live)'
    <3>1. CASE UnlockerCreate(u)
      BY <2>2, <3>1 DEF UnlockerCreate
    <3>2. CASE HandlePreempt(u)
      <4>1. live'.guard = Continue(live.guard, "PREEMPT") /\ live.guard \in ThreadLocal
        BY <3>2, LiveType DEF HandlePreempt, ContinueAfter, TypeOK, Data
      <4>2. QED
        BY <2>2, <4>1, ContinueKeepsFlags DEF Asked
    <3>3. QED
      BY <1>7, <3>1, <3>2
  <2>3. QED
    BY <2>1, <2>2, PendingArchive
<1>8. ASSUME NEW u \in Thread, HandleTerminate(u) PROVE TerminationPending(t)'
  <2>1. t # u /\ (Running(u) \/ pc[u] = "interrupted") /\ UNCHANGED managerVars
    BY <1>8 DEF HandleTerminate
  <2>2. ~OwnsLive(t)
    BY <2>1, NotTheRunningOne
  <2>3. QED
    BY <2>1, <2>2, PendingStays
<1>9. ASSUME NEW u \in Thread, StopPreemption(u) \/ JoinSwitcher(u) PROVE TerminationPending(t)'
  <2>1. /\ pc[u] = "joining" \/ Running(u)
        /\ UNCHANGED <<managerVars, frames, live>>
    BY <1>9 DEF StopPreemption, JoinSwitcher, stackVars
  <2>2. PICK label \in {"idle", "joining"} : Goto(u, label)
    BY <1>9 DEF StopPreemption, JoinSwitcher
  <2>3. frames[u] # <<>> /\ Top(u).kind = "Locker"
    BY <2>1 DEF Running, Inside, IInv, FrameInv, FrameOK
  <2>4. label = "idle" => Running(u)'
    BY <2>1, <2>2, <2>3, GotoEffect DEF Running, Inside, Top
  <2>5. OwnsLive(t)' <=> OwnsLive(t)
    BY <2>1, <2>2, <2>4, OwnsGoto
  <2>6. QED
    BY <2>1, <2>5, PendingSame
<1>10. ASSUME NEW u \in Thread,
              \/ OpenScope(u) \/ CloseScope(u) \/ PostponeInterrupts(u) \/ AllowInterrupts(u)
              \/ SetResourceConstraints(u) \/ StartPreemption(u)
       PROVE  TerminationPending(t)'
  <2>1. UNCHANGED <<frames, pc, managerVars>>
    BY <1>10 DEF OpenScope, CloseScope, PostponeInterrupts, AllowInterrupts, SetResourceConstraints,
                 StartPreemption, stackVars
  <2>2. live \in Data /\ live.guard \in ThreadLocal /\ live.guard.postpone \in Int
    BY LiveType DEF TypeOK, ThreadLocal
  <2>3. ASSUME Asked(live) PROVE Asked(live)'
    <3>1. CASE OpenScope(u) \/ CloseScope(u) \/ StartPreemption(u)
      BY <2>2, <2>3, <3>1 DEF OpenScope, CloseScope, StartPreemption, Asked, Data
    <3>2. CASE PostponeInterrupts(u)
      <4>1. live'.guard = reset_limits([live.guard EXCEPT !.postpone = @ + 1])
        BY <2>2, <3>2 DEF PostponeInterrupts, Data
      <4>2. QED
        BY <2>2, <2>3, <4>1, PostponingKeepsFlags DEF Asked
    <3>3. CASE AllowInterrupts(u)
      <4> DEFINE g == [live.guard EXCEPT !.postpone = @ - 1]
      <4>1. live'.guard \in {g, EnableInterrupts(g)}
        BY <2>2, <3>3 DEF AllowInterrupts, Data
      <4>2. g.flags = live.guard.flags /\ EnableInterrupts(g).flags = live.guard.flags
        <5>1. live.guard.postpone - 1 \in Int
          BY <2>2
        <5>2. QED
          BY <2>2, <5>1, PostponingKeepsFlags
      <4> HIDE DEF g
      <4>3. QED
        BY <2>3, <4>1, <4>2 DEF Asked
    <3>4. CASE SetResourceConstraints(u)
      <4>1. live'.guard = SetStackLimit(live.guard, CustomLimit[u])
        BY <2>2, <3>4 DEF SetResourceConstraints, Data
      <4>2. QED
        BY <2>2, <2>3, <4>1, SetStackLimitKeepsFlags DEF Asked
    <3>5. QED
      BY <1>10, <3>1, <3>2, <3>3, <3>4
  <2>4. OwnsLive(t) => OwnsLive(t)'
    BY <2>1, SameControl DEF OwnsLive
  <2>5. QED
    BY <2>1, <2>3, <2>4, PendingStays
<1>11. ASSUME \/ TerminateCurrent \/ SwitcherCheck \/ SwitcherPreempt
              \/ \E u, id \in Thread : TerminateExecution(u, id)
       PROVE  TerminationPending(t)'
  <2>1. UNCHANGED <<frames, pc, lazyThread, threadState, inUse, archive>>
    BY <1>11 DEF TerminateCurrent, SwitcherCheck, SwitcherPreempt, TerminateExecution, stackVars
  <2>2. \/ Interrupt("TERMINATE") \/ Interrupt("PREEMPT") \/ UNCHANGED live
    BY <1>11 DEF TerminateCurrent, SwitcherCheck, SwitcherPreempt, TerminateExecution
  <2>3. ASSUME Asked(live) PROVE Asked(live)'
    <3>1. \A flag : Interrupt(flag) =>
            live'.guard = Request(live.guard, flag) /\ live.guard \in ThreadLocal
      BY LiveType DEF Interrupt, TypeOK, Data
    <3>2. QED
      BY <2>2, <2>3, <3>1, RequestKeepsFlags DEF Asked
  <2>4. threadState[t] \in inUse /\ terminateOnRestore[threadState[t]]
          => terminateOnRestore'[threadState[t]]
    BY <1>11 DEF TerminateCurrent, SwitcherCheck, SwitcherPreempt, TerminateExecution, TypeOK
  <2>5. OwnsLive(t) => OwnsLive(t)'
    BY <2>1, SameControl DEF OwnsLive
  <2>6. QED
    BY <2>1, <2>3, <2>4, <2>5, PendingStays
<1>12. QED
  BY <1>1, <1>2, <1>3, <1>4, <1>5, <1>6, <1>7, <1>8, <1>9, <1>10, <1>11 DEF Next, Step

\* A request to terminate a thread is neither dropped nor given to another by
\* archiving and restoring (ArchiveThread, EagerlyArchiveThread, RestoreThread):
\* only the thread's own stack check answers it, or it leaves its Locker.
THEOREM TerminationNotLost == Spec => TerminationKept
<1> DEFINE Kept == \A t \in Thread : TerminationPending(t) /\ ~TerminationPending(t)' =>
                     HandleTerminate(t) \/ LockerDestroy(t)
<1>1. TypeOK /\ IInv /\ [Next]_vars => [Kept]_vars
  BY PendingStep
<1>2. QED
  BY <1>1, ThreadManagerInvariant, PTL DEF Spec, TerminationKept
=============================================================================
