---------------------------- MODULE IsolatesInv ----------------------------
(* The inductive invariant of Isolates.  What it says of where the entries    *)
(* come from is said of programs in which every Exit finds its own.          *)
EXTENDS Isolates

\* The isolate that t is in when the n objects at the bottom of its stack are
\* left; the threads in auto entered the default isolate before any of them.
InAt(t, n) ==
  IF n = 0 THEN IF t \in auto THEN default_isolate ELSE NoIsolate ELSE frames[t][n].isolate
DataAt(t, n) ==
  IF InAt(t, n) = NoIsolate THEN NoData ELSE [isolate |-> InAt(t, n), thread |-> t]

\* What the isolate slot may hold in a thread whose data name isolate i.
SlotFor(i) == IF i = NoIsolate THEN {NoIsolate, default_isolate} ELSE {i}

\* The two slots of a thread follow its stack.
SlotOK(t) ==
  /\ data[t] = DataAt(t, Len(frames[t]))
  /\ current[t] \in SlotFor(InAt(t, Len(frames[t])))
SlotInv == \A t \in Thread : SlotOK(t)

\* Scopes remember the isolate to go back to; a Locker and an Unlocker leave
\* the thread in the default isolate.
FrameOK(t) == \A n \in 1 .. Len(frames[t]) :
  /\ frames[t][n].isolate \in allocated
  /\ IF frames[t][n].kind = "Scope"
       THEN /\ frames[t][n].before \in SlotFor(InAt(t, n - 1))
            /\ UseLockers => frames[t][n].isolate # default_isolate
       ELSE /\ UseLockers /\ t \in auto /\ frames[t][n].isolate = default_isolate
            /\ InAt(t, n - 1) = default_isolate
FrameInv == \A t \in Thread : FrameOK(t)

\* A stack that several threads push on: no thread takes entries from it.
Shared(i) == UseLockers /\ i = default_isolate

\* The entries of i's stack are those of t: start[k] is the object of t whose
\* Enter pushed the k-th, which counts the objects from there on that entered
\* i again without another isolate in between.
Entries(t, i, start) ==
  /\ start \in [1 .. Len(entryStack[i]) -> 0 .. Len(frames[t])]
  /\ \A k \in 1 .. Len(entryStack[i]) :
       LET e == entryStack[i][k]
       IN  /\ e.count > 0 /\ start[k] + e.count <= Len(frames[t]) + 1
           /\ \A n \in start[k] .. start[k] + e.count - 1 : InAt(t, n) = i
           /\ start[k] > 0 => InAt(t, start[k] - 1) # i
           /\ k < Len(entryStack[i]) => start[k] + e.count < start[k + 1]
           /\ e.isolate = IF start[k] = 0 THEN default_isolate ELSE frames[t][start[k]].before
           /\ e.data = IF start[k] = 0 THEN NoData ELSE DataAt(t, start[k] - 1)
  /\ \A n \in 0 .. Len(frames[t]) : InAt(t, n) = i =>
       \E k \in 1 .. Len(entryStack[i]) :
         n \in start[k] .. start[k] + entryStack[i][k].count - 1

EntriesOf(t, i) ==
  \E start \in [1 .. Len(entryStack[i]) -> 0 .. Len(frames[t])] : Entries(t, i, start)

StackInv ==
  /\ \A i \in Isolate : ~Shared(i) => \E t \in Thread : EntriesOf(t, i) /\ OnlyThreadIn(t, i)
  /\ UseLockers => \A n \in 1 .. Len(entryStack[default_isolate]) :
       entryStack[default_isolate][n].isolate = default_isolate

\* The types of the variables that say who is in which isolate.
EntryTypes ==
  /\ entryStack \in [Isolate -> Seq(EntryStackItem)]
  /\ current \in [Thread -> Isolate \cup {NoIsolate}]
  /\ data \in [Thread -> ThreadData]
  /\ frames \in [Thread -> Seq(Frame)]
  /\ auto \in SUBSET Thread /\ program \in Programs

\* The types of the other variables.
RestTypes ==
  /\ allocated \in SUBSET Isolate /\ initialized \in SUBSET allocated
  /\ running \in BOOLEAN /\ setup \in BOOLEAN /\ fatal \in BOOLEAN /\ disposed \in BOOLEAN
  /\ holder \in Thread \cup {NoThread}

\* Who holds the lock has entered the default isolate.
HolderInv == holder # NoThread => UseLockers /\ holder \in auto

\* What holds of programs in which an Exit finds the entry its Enter pushed.
OwnInv ==
  /\ EntryTypes /\ RestTypes /\ default_isolate \in allocated
  /\ SlotInv /\ FrameInv /\ StackInv /\ HolderInv

\* V8 has been running, and nobody clears both this and what it was followed by.
Ran == running \/ IsDead

\* The pair of slots <<d, i>> agrees, but where V8 has been running the isolate
\* slot may have been set to the default isolate alone.
Pair(d, i) == d # NoData => d.isolate = i \/ (i = default_isolate /\ Ran)

\* The slots of every thread are such a pair; those saved in entries agree.
PairInv ==
  /\ \A t \in Thread : Pair(data[t], current[t])
  /\ \A i \in Isolate : \A n \in 1 .. Len(entryStack[i]) :
       LET e == entryStack[i][n] IN e.data # NoData => e.data.isolate = e.isolate

\* A Locker has made V8 run.
RunsInv ==
  Ran \/ /\ holder = NoThread
         /\ \A t \in Thread : \A n \in 1 .. Len(frames[t]) : frames[t][n].kind = "Scope"

IInv == TypeOK /\ PairInv /\ RunsInv /\ (OwnEntries => OwnInv)
=============================================================================
