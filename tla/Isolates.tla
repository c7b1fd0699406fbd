------------------------------ MODULE Isolates ------------------------------
(* Entering, exiting and disposing isolates (isolate.cc, v8.cc, api.cc).  The *)
(* isolate a thread runs in is kept in two thread-local slots; what to go     *)
(* back to is kept on a stack that belongs to the isolate, not to the thread. *)
(*                                                                            *)
(* A thread's C++ stack is a sequence of Isolate::Scope, Locker and Unlocker  *)
(* objects.  A program keeps to the rules of v8.h: without Lockers an isolate *)
(* is entered by one thread at a time, with Lockers isolates are used only    *)
(* with the lock held (the default isolate's: there is no other Locker).      *)
(* Programs that use Lockers may also enter the default isolate with a Scope, *)
(* and may make a Locker while they are in another isolate: each is a kind.   *)
(*                                                                            *)
(* A PerIsolateThreadData is looked up under process_wide_mutex_, made when   *)
(* it is not found, and never removed: the pair it is keyed by stands for it. *)
EXTENDS Naturals, Sequences, SequencesExt

CONSTANTS Thread, NoThread,
          Isolate, NoIsolate,  \* the addresses of isolates
          default_isolate,
          initializer,         \* the thread that ran the static initializer
          Programs,            \* the kinds of program, by the objects they use
          MaxFrames,           \* bounds each thread's stack of objects
          MaxEntered           \* bounds how often the default isolate is entered
                               \* without a Scope, which a Locker never undoes

ASSUME IsolateAssumption ==
  /\ NoThread \notin Thread /\ NoIsolate \notin Isolate
  /\ default_isolate \in Isolate /\ initializer \in Thread
  /\ MaxFrames \in [Thread -> Nat] /\ MaxEntered \in Nat
  /\ Programs \subseteq SUBSET {"Locker", "ScopeOfDefault", "LockerInScope"}

VARIABLES
  allocated,    \* the isolates that have not been deleted
  initialized,  \* those whose state_ is INITIALIZED
  entryStack,   \* Isolate::entry_stack_, top entry last
  current,      \* isolate_key_, of each thread
  data,         \* per_isolate_thread_data_key_, of each thread
  running, setup, fatal, disposed,  \* the flags of class V8
  holder,       \* the thread that holds the default isolate's lock
  frames,       \* each thread's C++ stack
  auto,         \* threads that entered the default isolate without a Scope
  program       \* the kind of program that runs

entryVars == <<entryStack, current, data>>
stateVars == <<running, setup, fatal, disposed, initialized>>
vars == <<allocated, stateVars, entryVars, holder, frames, auto, program>>

NoData == [isolate |-> NoIsolate, thread |-> NoThread]
ThreadData == [isolate : Isolate, thread : Thread] \cup {NoData}
EntryStackItem == [count : Nat, data : ThreadData, isolate : Isolate \cup {NoIsolate}]
Frame == [kind : {"Scope", "Locker", "Unlocker"}, isolate : Isolate,
          has_lock : BOOLEAN, before : Isolate \cup {NoIsolate}]

Init ==
  /\ allocated = {default_isolate} /\ initialized = {}
  /\ entryStack = [i \in Isolate |-> <<>>]
  /\ current = [t \in Thread |-> IF t = initializer THEN default_isolate ELSE NoIsolate]
  /\ data = [t \in Thread |-> NoData]
  /\ running = FALSE /\ setup = FALSE /\ fatal = FALSE /\ disposed = FALSE
  /\ holder = NoThread
  /\ frames = [t \in Thread |-> <<>>]
  /\ auto = {}
  /\ program \in Programs

---------------------------------------------------------------------------
(* Isolate::Enter and Exit.                                                  *)

FaultyIsInUse(i) == entryStack[i] # <<>> /\ Last(entryStack[i]).data # NoData
IsInUse(i) == entryStack[i] # <<>>

\* EnsureDefaultIsolate changes only the isolate slot.
EnsureDefaultIsolate(t) == [current EXCEPT ![t] = default_isolate]

IsEntered(t, i) == data[t] # NoData /\ data[t].isolate = i

\* slot is the isolate slot of every thread at the time of the call.
Enter(t, i, slot) ==
  IF IsEntered(t, i)
    THEN /\ IsInUse(i)
         /\ entryStack' = [entryStack EXCEPT ![i][Len(entryStack[i])].count = @ + 1]
         /\ current' = slot /\ UNCHANGED data
    ELSE /\ entryStack' = [entryStack EXCEPT ![i] = Append(@,
              [count |-> 1, data |-> data[t],
               isolate |-> IF data[t] # NoData THEN data[t].isolate ELSE slot[t]])]
         /\ current' = [slot EXCEPT ![t] = i]
         /\ data' = [data EXCEPT ![t] = [isolate |-> i, thread |-> t]]

FaultyExit(t, i) ==
  /\ IsInUse(i)
  /\ entryStack' = [entryStack EXCEPT ![i] = Front(@)]
  /\ current' = [current EXCEPT ![t] = Last(entryStack[i]).isolate]
  /\ data' = [data EXCEPT ![t] = Last(entryStack[i]).data]
\* Exit takes the top entry from the stack, whoever pushed it.
Exit(t, i) ==
  /\ IsInUse(i)
  /\ LET item == Last(entryStack[i])
     IN IF item.count > 1
          THEN /\ entryStack' = [entryStack EXCEPT ![i][Len(entryStack[i])].count = @ - 1]
               /\ UNCHANGED <<current, data>>
          ELSE /\ entryStack' = [entryStack EXCEPT ![i] = Front(@)]
               /\ current' = [current EXCEPT ![t] = item.isolate]
               /\ data' = [data EXCEPT ![t] = item.data]

Counted(item, n) == item.count + n
EnterDefaultIsolate(t) ==
  IF IsEntered(t, default_isolate)
    THEN current' = EnsureDefaultIsolate(t) /\ UNCHANGED <<entryStack, data, auto>>
    ELSE /\ FoldSeq(Counted, 0, entryStack[default_isolate]) < MaxEntered
         /\ Enter(t, default_isolate, EnsureDefaultIsolate(t)) /\ auto' = auto \cup {t}

---------------------------------------------------------------------------
(* Initialising and tearing down.                                            *)

IsDead == fatal \/ disposed

\* Most API functions find that there is something to initialise.
NeedsInitialize(t) ==
  IF current[t] = default_isolate THEN ~running /\ ~IsDead ELSE current[t] \notin initialized

\* V8::Initialize of the isolate that a thread has entered succeeds.
FaultyInitializeCurrent(i) ==
  /\ i = default_isolate => ~IsDead
  /\ setup' = (setup \/ i = default_isolate)
  /\ initialized' = initialized \cup {i}
  /\ UNCHANGED <<running, fatal, disposed>>
InitializeCurrent(i) ==
  /\ i = default_isolate => ~IsDead
  /\ running' = (running \/ i = default_isolate)
  /\ setup' = (setup \/ i = default_isolate)
  /\ initialized' = IF i = default_isolate /\ running THEN initialized ELSE initialized \cup {i}
  /\ UNCHANGED <<fatal, disposed>>

\* What ApiCheck does when its condition does not hold.
SetFatalError == running' = FALSE /\ fatal' = TRUE /\ UNCHANGED <<setup, disposed, initialized>>

\* TearDown deletes an isolate unless it is the default one.
TearDown(i) ==
  /\ allocated' = allocated \ ({i} \ {default_isolate})
  /\ initialized' = initialized \ {i}

---------------------------------------------------------------------------
(* What a program does.                                                      *)

Top(t) == Last(frames[t])
HasEntered(t, i) ==
  \/ i = default_isolate /\ t \in auto
  \/ \E n \in DOMAIN frames[t] : frames[t][n].kind = "Scope" /\ frames[t][n].isolate = i
OnlyThreadIn(t, i) == \A u \in Thread \ {t} : ~HasEntered(u, i)
UseLockers == "Locker" \in program
MayEnter(t, i) ==
  /\ i = default_isolate /\ UseLockers => "ScopeOfDefault" \in program
  /\ OnlyThreadIn(t, i) \/ (UseLockers /\ i = default_isolate)
\* A Locker in another isolate leaves the thread in the default one.
MayLock(t) ==
  UseLockers /\ ("LockerInScope" \in program \/ data[t].isolate \in {default_isolate, NoIsolate})
MayUseV8(t) ==
  UseLockers => holder = t /\ frames[t] # <<>> /\ Top(t).kind # "Unlocker"

Push(t, kind, i, has_lock) ==
  frames' = [frames EXCEPT ![t] = Append(@,
    [kind |-> kind, isolate |-> i, has_lock |-> has_lock, before |-> current[t]])]
Pop(t) == frames' = [frames EXCEPT ![t] = Front(@)]

\* v8::Isolate::New, at any address that is free.
New(t, i) ==
  /\ MayUseV8(t) /\ i \notin allocated
  /\ allocated' = allocated \cup {i}
  /\ UNCHANGED <<stateVars, entryVars, holder, frames, auto, program>>

EnterScope(t, i) ==
  /\ MayUseV8(t) /\ MayEnter(t, i) /\ Len(frames[t]) < MaxFrames[t]
  /\ i \in allocated
  /\ Push(t, "Scope", i, FALSE)
  /\ Enter(t, i, current)
  /\ UNCHANGED <<allocated, stateVars, holder, auto, program>>

ExitScope(t) ==
  /\ MayUseV8(t)
  /\ frames[t] # <<>> /\ Top(t).kind = "Scope"
  /\ Exit(t, Top(t).isolate)
  /\ Pop(t)
  /\ UNCHANGED <<allocated, stateVars, holder, auto, program>>

\* Exit of the default isolate by a thread that was made to enter it.
ExitDefault(t) ==
  /\ ~UseLockers /\ t \in auto /\ frames[t] = <<>> /\ current[t] = default_isolate
  /\ Exit(t, default_isolate)
  /\ auto' = auto \ {t}
  /\ UNCHANGED <<allocated, stateVars, holder, frames, program>>

\* EnsureInitializedForIsolate, at the start of most API functions.
UseV8(t) ==
  /\ MayUseV8(t) /\ NeedsInitialize(t)
  /\ IF data[t] = NoData
       THEN /\ OnlyThreadIn(t, default_isolate)
            /\ EnterDefaultIsolate(t)
            /\ InitializeCurrent(default_isolate) \/ (IsDead /\ SetFatalError)
       ELSE /\ InitializeCurrent(current[t])
            /\ UNCHANGED <<entryVars, auto>>
  /\ UNCHANGED <<allocated, holder, frames, program>>

\* v8::Isolate::Dispose.
Dispose(t, i) ==
  /\ MayUseV8(t) /\ i \in allocated
  /\ IF IsInUse(i)
       THEN SetFatalError /\ UNCHANGED allocated
       ELSE TearDown(i) /\ UNCHANGED <<running, setup, fatal, disposed>>
  /\ UNCHANGED <<entryVars, holder, frames, auto, program>>

\* v8::V8::Dispose, which is for the default isolate only.
DisposeV8(t) ==
  /\ MayUseV8(t)
  /\ \/ /\ current[t] = default_isolate /\ setup /\ ~disposed
        /\ TearDown(default_isolate)
        /\ running' = FALSE /\ disposed' = TRUE
        /\ UNCHANGED <<setup, fatal>>
     \/ current[t] # default_isolate /\ SetFatalError /\ UNCHANGED allocated
  /\ UNCHANGED <<entryVars, holder, frames, auto, program>>

LockerCreate(t) ==
  /\ MayLock(t) /\ Len(frames[t]) < MaxFrames[t]
  /\ Push(t, "Locker", default_isolate, holder # t)
  /\ \/ /\ holder = t
        /\ current' = EnsureDefaultIsolate(t)
        /\ UNCHANGED <<entryStack, data, holder, auto, stateVars>>
     \/ /\ holder = NoThread /\ holder' = t
        /\ EnterDefaultIsolate(t)
        /\ \/ ~running /\ InitializeCurrent(default_isolate)
           \/ (running \/ IsDead) /\ UNCHANGED stateVars
  /\ UNCHANGED <<allocated, program>>

LockerDestroy(t) ==
  /\ frames[t] # <<>> /\ Top(t).kind = "Locker"
  /\ Top(t).has_lock => current[t] = default_isolate
  /\ holder' = IF Top(t).has_lock THEN NoThread ELSE holder
  /\ Pop(t)
  /\ UNCHANGED <<allocated, stateVars, entryVars, auto, program>>

UnlockerCreate(t) ==
  /\ UseLockers /\ MayUseV8(t) /\ current[t] = default_isolate /\ Len(frames[t]) < MaxFrames[t]
  /\ Push(t, "Unlocker", default_isolate, FALSE)
  /\ holder' = NoThread
  /\ UNCHANGED <<allocated, stateVars, entryVars, auto, program>>

UnlockerDestroy(t) ==
  /\ frames[t] # <<>> /\ Top(t).kind = "Unlocker"
  /\ holder = NoThread /\ holder' = t
  /\ Pop(t)
  /\ UNCHANGED <<allocated, stateVars, entryVars, auto, program>>

---------------------------------------------------------------------------
Step(t) ==
  \/ ExitScope(t) \/ ExitDefault(t) \/ UseV8(t) \/ DisposeV8(t)
  \/ LockerCreate(t) \/ LockerDestroy(t) \/ UnlockerCreate(t) \/ UnlockerDestroy(t)
  \/ \E i \in Isolate : New(t, i) \/ EnterScope(t, i) \/ Dispose(t, i)

Next == \E t \in Thread : Step(t)

Spec == Init /\ [][Next]_vars

---------------------------------------------------------------------------
(* Properties.                                                              *)

\* Types of the variables.
TypeOK ==
  /\ allocated \in SUBSET Isolate /\ initialized \in SUBSET Isolate
  /\ entryStack \in [Isolate -> Seq(EntryStackItem)]
  /\ current \in [Thread -> Isolate \cup {NoIsolate}]
  /\ data \in [Thread -> ThreadData]
  /\ running \in BOOLEAN /\ setup \in BOOLEAN /\ fatal \in BOOLEAN /\ disposed \in BOOLEAN
  /\ holder \in Thread \cup {NoThread}
  /\ frames \in [Thread -> Seq(Frame)]
  /\ auto \in SUBSET Thread /\ program \in Programs

\* In programs of these kinds an Exit finds the entry its own Enter has pushed.
\* In others one thread pops what another has pushed, or the isolate slot was
\* changed in between.
OwnEntries == "LockerInScope" \notin program /\ ~({"Locker", "ScopeOfDefault"} \subseteq program)

\* include/v8.h: Exit restores the isolate that was entered before, however
\* often isolates were entered again and whoever has entered others meanwhile.
ExitRestores ==
  [][\A t \in Thread : OwnEntries /\ ExitScope(t) => current'[t] = Top(t).before]_vars

\* Every isolate a thread runs in, or will go back to when it exits one, is
\* alive: Dispose cannot delete what a saved entry still refers to.  The
\* variables have their types, in programs of every kind.
NoDangling ==
  /\ TypeOK
  /\ OwnEntries =>
       /\ initialized \subseteq allocated
       /\ \A t \in Thread : /\ current[t] \in allocated \cup {NoIsolate}
                            /\ data[t].isolate \in allocated \cup {NoIsolate}
       /\ \A i \in Isolate : \A n \in DOMAIN entryStack[i] :
            entryStack[i][n].isolate \in allocated \cup {NoIsolate}

\* What a thread has to exit is in use, whoever's entries were taken from its
\* stack, in programs of every kind: no Exit finds the stack empty (the ASSERT
\* at isolate.cc:761) and no Dispose deletes it (api.cc:4184).
EnteredInUse ==
  \A t \in Thread, i \in Isolate : HasEntered(t, i) => IsInUse(i) /\ i \in allocated

\* The ASSERT at v8.cc:61: where V8::Initialize is called, in programs of every
\* kind, the two slots of a thread that has entered an isolate agree.  A nested
\* Locker in another isolate makes them differ, but not before V8 is running.
SlotsAgree ==
  \A t \in Thread : data[t] # NoData /\ NeedsInitialize(t) => data[t].isolate = current[t]
=============================================================================
