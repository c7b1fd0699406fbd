----------------------------- MODULE Scavenger ------------------------------
(* Heap::Scavenge (heap.cc, heap-inl.h): Cheney's algorithm with promotion to *)
(* old space, one page of which is shown with its region marks.  The objects  *)
(* copied to to-space are a queue from its bottom, the addresses of promoted  *)
(* ones a queue from its top.  A slot holds an object and the knowledge       *)
(* whether it is the address in from-space or the one it was moved to.        *)
(* Slots of cells and the list of contexts are visited as roots are.          *)
EXTENDS Integers, Sequences, FiniteSets

CONSTANTS Young, Old,    \* the objects in new space and in old space
          Root, Region,
          FieldCount,    \* the pointer fields of an object, 0 for data
          Shortcut,      \* cons strings whose second part is the empty string
          External,      \* external strings in new space
          SizeOf,        \* the words of a young object
          Capacity,      \* of a semispace, in words
          Threshold,     \* a quarter of it in the code; nothing depends on that
          Nil            \* a Smi or an object of no interest

Object == Young \cup Old
Fields(o) == {o} \X (1 .. FieldCount[o])
FieldSlot == UNION {Fields(o) : o \in Object}
Slot == Root \cup FieldSlot

ASSUME SpaceAssumption ==
  /\ Young \cap Old = {} /\ Nil \notin Object \cup Slot /\ Root \cap FieldSlot = {}
  /\ IsFiniteSet(Young)
ASSUME RegionAssumption == Region \subseteq Nat
ASSUME ObjectAssumption ==
  /\ FieldCount \in [Object -> Nat] /\ SizeOf \in [Young -> Nat \ {0}]
  /\ Shortcut \subseteq Young /\ \A o \in Shortcut : FieldCount[o] = 2
  /\ External \subseteq Young /\ \A o \in External : FieldCount[o] = 0
\* A map word and one field: what the address and the size of a promoted object
\* take in the queue is freed by moving the object.
ASSUME SizeAssumption == \A o \in Young : FieldCount[o] > 0 => SizeOf[o] >= 2
ASSUME BoundAssumption == Capacity \in Nat /\ Threshold \in Nat

\* The young objects lie beside each other in from-space, from the words at[o]
\* on: it was to-space when they were allocated.
Words(at, o) == at[o] .. at[o] + SizeOf[o] - 1
Layouts ==
  {at \in [Young -> 0 .. Capacity] :
     /\ \A o \in Young : Words(at, o) \subseteq 0 .. Capacity - 1
     /\ \A o, p \in Young : o # p => Words(at, o) \cap Words(at, p) = {}}
ASSUME FromSpaceAssumption == Layouts # {}

VARIABLES
  stage,
  target, updated,   \* what each slot points to; those with a new address
  before,            \* from-space: what slots held when the scavenge began
  where, forward,    \* the space of an object; its forwarding address
  aged,              \* young objects below the age mark
  region, marks,     \* of slots in old space; the marks of the page
  newmarks,          \* of IterateDirtyRegions
  left, slot, chain, \* slots still to visit in a stage; the one whose object
                     \* is a cons string being short-cut, and these strings
  copied, promoted,  \* the two queues
  top, inserted,     \* the words used in to-space; entries ever inserted
  strings, old_strings, finalized \* the external string table

heapVars == <<target, updated, before>>
moveVars == <<where, forward, region, copied, promoted, top, inserted>>
markVars == <<marks, newmarks>>
visitVars == <<left, slot, chain>>
tableVars == <<strings, old_strings, finalized>>
vars == <<stage, heapVars, moveVars, aged, markVars, visitVars, tableVars>>

Stage == {"mutator", "roots", "dirty", "copied", "promoted", "done"}

InFromSpace(s) == target[s] \in Young /\ s \notin updated
InToSpace(s) == target[s] \in Young /\ s \in updated /\ where[target[s]] = "to"
InNewSpace(s) == InFromSpace(s) \/ InToSpace(s)
OldSlots == UNION {Fields(o) : o \in {x \in Object : where[x] = "old"}}

\* The regions of an object's fields follow one another.
Regions(o) == {f \in [Fields(o) -> Region] :
                 \A s, t \in Fields(o) : s[2] <= t[2] => f[s] <= f[t]}

\* A string is made of strings that exist already.
Acyclic == \A S \in SUBSET Shortcut : S # {} => \E o \in S : target[<<o, 1>>] \notin S

\* Old objects that point to young ones do so in dirty regions.
InitHeap ==
  /\ target \in [Slot -> Object \cup {Nil}] /\ Acyclic
  /\ \A o \in Shortcut : target[<<o, 1>>] # Nil /\ target[<<o, 2>>] = Nil
  /\ aged \in SUBSET Young
  /\ region \in [FieldSlot -> Region] /\ marks \in SUBSET Region
  /\ \A s \in FieldSlot : s[1] \in Old /\ target[s] \in Young => region[s] \in marks

InitScavenger ==
  /\ stage = "mutator" /\ updated = {} /\ before = target
  /\ where = [o \in Object |-> IF o \in Young THEN "from" ELSE "old"]
  /\ forward = [o \in Young |-> Nil]
  /\ newmarks = {} /\ left = {} /\ slot = Nil /\ chain = {}
  /\ copied = <<>> /\ promoted = <<>> /\ top = 0 /\ inserted = 0
  /\ strings = External /\ old_strings = {} /\ finalized = {}

Init == InitHeap /\ InitScavenger

---------------------------------------------------------------------------
(* The program.                                                              *)

\* RecordWrite, after a pointer has been stored in s.
RecordWrite(s) == IF where[s[1]] = "old" THEN marks \cup {region[s]} ELSE marks

\* A handle's object is stored in a field of another's.
Write ==
  /\ stage = "mutator"
  /\ \E q, r \in Root : \E s \in FieldSlot :
       /\ s[1] = target[r] /\ s[1] \notin Shortcut
       /\ target' = [target EXCEPT ![s] = target[q]]
       /\ before' = target'
       /\ marks' = RecordWrite(s)
  /\ UNCHANGED <<stage, updated, moveVars, aged, newmarks, visitVars, tableVars>>

---------------------------------------------------------------------------
(* ScavengeObject.                                                           *)

\* The innermost slot, unless a cons string was short-cut on the way.
Current(s) == s \in left /\ (slot # Nil => s = slot)

\* Heap::DoScavenge looks for pointers to from-space in promoted objects, since
\* they may have been visited in part with the dirty regions.
FaultyToScavenge(s) == InNewSpace(s)
ToScavenge(s) == IF stage = "promoted" THEN InFromSpace(s) ELSE InNewSpace(s)

Skip(s) ==
  /\ Current(s) /\ ~ToScavenge(s)
  /\ left' = left \ {s}
  /\ UNCHANGED <<stage, heapVars, moveVars, aged, markVars, slot, chain, tableVars>>

\* The slot gets its value, and so do the map words of S.
Settle(s, S, p) ==
  /\ target' = [target EXCEPT ![s] = p] /\ updated' = updated \cup {s}
  /\ forward' = [x \in Young |-> IF x \in S THEN p ELSE forward[x]]
  /\ slot' = Nil /\ chain' = {}
  /\ UNCHANGED <<stage, before, aged, tableVars>>

\* The region of a slot that still points to new space stays or gets dirty.
FaultyRegionMask(s) == {region[<<s[1], 1>>]}
RegionMask(s) == {region[s]}
Mark(s, new) ==
  /\ marks' = IF stage = "promoted" /\ new THEN marks \cup RegionMask(s) ELSE marks
  /\ newmarks' = IF stage = "dirty" /\ new THEN newmarks \cup RegionMask(s) ELSE newmarks

Forwarded(s) ==
  /\ forward[target[s]] # Nil
  /\ Settle(s, chain, forward[target[s]])
  /\ Mark(s, forward[target[s]] \in Young /\ where[forward[target[s]]] = "to")
  /\ left' = left \ {s}
  /\ UNCHANGED <<where, region, copied, promoted, top, inserted>>

First(o) == before[<<o, 1>>]

\* EvacuateShortcutCandidate: the string is replaced by its first part, at once
\* when that is old, or else by what becomes of it.
ShortcutOld(s) ==
  /\ target[s] \in Shortcut /\ First(target[s]) \in Old
  /\ Settle(s, chain \cup {target[s]}, First(target[s]))
  /\ Mark(s, FALSE)
  /\ left' = left \ {s}
  /\ UNCHANGED <<where, region, copied, promoted, top, inserted>>

ShortcutYoung(s) ==
  /\ target[s] \in Shortcut /\ First(target[s]) \in Young
  /\ target' = [target EXCEPT ![s] = First(target[s])]
  /\ slot' = s /\ chain' = chain \cup {target[s]}
  /\ UNCHANGED <<stage, updated, before, moveVars, aged, markVars, left, tableVars>>

\* MigrateObject sets the map word of the object as well.
FaultyMigrated(o) == chain
Migrated(o) == chain \cup {o}

ShouldBePromoted(o) == o \in aged \/ top + SizeOf[o] >= Threshold
IsPointerObject(o) == FieldCount[o] > 0

\* The fields of a promoted object that IterateDirtyRegions comes to: those it
\* has not passed, in a dirty region below the old allocation watermark.
Ahead(o, from) ==
  {s \in Fields(o) : stage = "dirty" /\ s[2] >= from /\ region'[s] \in marks}

Promote(s, o) ==
  /\ ShouldBePromoted(o)
  /\ where' = [where EXCEPT ![o] = "old"]
  /\ Mark(s, FALSE)
  /\ \E f \in Regions(o) : region' = [x \in FieldSlot |-> IF x \in Fields(o) THEN f[x] ELSE region[x]]
  /\ \E from \in 1 .. FieldCount[o] + 1 : left' = (left \ {s}) \cup Ahead(o, from)
  /\ IF IsPointerObject(o) THEN promoted' = Append(promoted, o) /\ inserted' = inserted + 1
     ELSE UNCHANGED <<promoted, inserted>>
  /\ UNCHANGED <<copied, top>>

\* Also when there is no room in old space.
CopyToNewSpace(s, o) ==
  /\ where' = [where EXCEPT ![o] = "to"]
  /\ Mark(s, TRUE)
  /\ copied' = Append(copied, o) /\ top' = top + SizeOf[o]
  /\ left' = left \ {s}
  /\ UNCHANGED <<region, promoted, inserted>>

EvacuateObject(s) ==
  /\ target[s] \notin Shortcut
  /\ Settle(s, Migrated(target[s]), target[s])
  /\ Promote(s, target[s]) \/ CopyToNewSpace(s, target[s])

ScavengeObject(s) ==
  /\ Current(s) /\ ToScavenge(s)
  /\ \/ Forwarded(s)
     \/ /\ forward[target[s]] = Nil
        /\ ShortcutOld(s) \/ ShortcutYoung(s) \/ EvacuateObject(s)

VisitSlot == \E s \in left : Skip(s) \/ ScavengeObject(s)

---------------------------------------------------------------------------
(* Scavenge.                                                                 *)

Visited == left = {}

StartScavenge ==
  /\ stage = "mutator" /\ stage' = "roots"
  /\ left' = Root
  /\ UNCHANGED <<heapVars, moveVars, aged, markVars, slot, chain, tableVars>>

\* Objects promoted by now may lie where free blocks were.
DirtySlots(S) == {s \in UNION {Fields(o) : o \in S} : region[s] \in marks}
IterateDirtyRegions ==
  /\ stage = "roots" /\ Visited /\ stage' = "dirty"
  /\ \E S \in SUBSET {o \in Young : where[o] = "old"} : left' = DirtySlots(Old \cup S)
  /\ UNCHANGED <<heapVars, moveVars, aged, markVars, slot, chain, tableVars>>

SetRegionMarks ==
  /\ stage = "dirty" /\ Visited /\ stage' = "copied"
  /\ marks' = newmarks
  /\ UNCHANGED <<heapVars, moveVars, aged, newmarks, visitVars, tableVars>>

\* DoScavenge: copied objects are swept first, then promoted ones, and so on.
SweepCopied ==
  /\ stage = "copied" /\ Visited /\ copied # <<>>
  /\ left' = Fields(Head(copied)) /\ copied' = Tail(copied)
  /\ UNCHANGED <<stage, heapVars, where, forward, region, promoted, top, inserted, aged, markVars,
                 slot, chain, tableVars>>

AllCopiedSwept ==
  /\ stage = "copied" /\ Visited /\ copied = <<>> /\ stage' = "promoted"
  /\ UNCHANGED <<heapVars, moveVars, aged, markVars, visitVars, tableVars>>

FaultyRemove == promoted' = promoted
Remove == promoted' = Tail(promoted)
SweepPromoted ==
  /\ stage = "promoted" /\ Visited /\ promoted # <<>>
  /\ left' = Fields(Head(promoted)) /\ Remove
  /\ UNCHANGED <<stage, heapVars, where, forward, region, copied, top, inserted, aged, markVars,
                 slot, chain, tableVars>>

FaultyUnswept == FALSE
Unswept == copied # <<>>

\* UpdateNewSpaceReferencesInExternalStringTable
FaultyUpdateExternalStrings ==
  /\ strings' = {x \in strings : where[x] = "to"}
  /\ old_strings' = old_strings
  /\ finalized' = {x \in strings : forward[x] = Nil}
UpdateExternalStrings ==
  /\ strings' = {x \in strings : where[x] = "to"}
  /\ old_strings' = old_strings \cup {x \in strings : where[x] = "old"}
  /\ finalized' = {x \in strings : forward[x] = Nil}

AllPromotedSwept ==
  /\ stage = "promoted" /\ Visited /\ promoted = <<>>
  /\ IF Unswept THEN stage' = "copied" /\ UNCHANGED tableVars
     ELSE stage' = "done" /\ UpdateExternalStrings
  /\ UNCHANGED <<heapVars, moveVars, aged, markVars, visitVars>>

Scavenge ==
  \/ VisitSlot \/ IterateDirtyRegions \/ SetRegionMarks
  \/ SweepCopied \/ AllCopiedSwept \/ SweepPromoted \/ AllPromotedSwept

Next == Write \/ StartScavenge \/ Scavenge

\* A scavenge, once begun, goes on; nobody has to begin one.
Spec == Init /\ [][Next]_vars /\ WF_vars(Scavenge)

---------------------------------------------------------------------------
(* Properties.                                                               *)

\* An address is looked up in a map word only in from-space, where map words are
\* (ASSERTs at heap-inl.h:327 and heap.cc:1425): no slot is visited again that
\* has its new value, although promoted objects may lie in dirty regions.
VisitsFromSpaceOnly == \A s \in left : Current(s) /\ ToScavenge(s) => InFromSpace(s)

\* What becomes of an object: itself if it is old, or what its map word says.
NewAddress(o) == IF o \in Young THEN forward[o] ELSE o
LiveSlots == Root \cup UNION {Fields(o) : o \in {x \in Object : where[x] # "from"}}

\* The graph after the scavenge is the graph before: every slot that is left has
\* the new address of what it pointed to, and only empty parts of cons strings
\* have gone (heap.cc:928-1038, 1119-1170).
GraphPreserved ==
  /\ stage = "done" =>
       \A s \in LiveSlots : /\ target[s] = NewAddress(before[s]) /\ ~InFromSpace(s)
                            /\ target[s] = Nil => before[s] = Nil
  /\ \A o \in Young : forward[o] # Nil =>
       forward[o] = IF o \in Shortcut THEN NewAddress(First(o)) ELSE o

\* Between scavenges the regions of all pointers from old space to new space are
\* dirty, or the next scavenge would miss them (heap.cc:4002-4030, 4133-4160).
MarksComplete ==
  stage \in {"mutator", "done"} => \A s \in OldSlots : InNewSpace(s) => region[s] \in marks

\* The two ends of to-space never meet: moving an object frees what it takes
\* (comment at heap.cc:963-966, ASSERT at heap-inl.h:43).
RoomForQueue == top + 2 * inserted <= Capacity

\* S is closed under what a scavenge keeps.
Keeps(S) ==
  \A s \in Slot : /\ s \in Root \/ s[1] \in Old \cup S
                  /\ before[s] \in Young
                  => before[s] \in S
Moved == {o \in Young : forward[o] # Nil}

\* Only what roots or old objects reach survives, and an external string is
\* finalized exactly when it did not; the others are in the list of their space.
OnlyLiveSurvive ==
  /\ stage # "mutator" => \A S \in SUBSET Young : Keeps(S) => Moved \subseteq S
  /\ stage = "done" => /\ finalized = External \ Moved
                       /\ strings = {x \in External : where[x] = "to"}
                       /\ old_strings = {x \in External : where[x] = "old"}
                       /\ finalized \cup strings \cup old_strings = External

\* A scavenge comes to its end, however the two queues feed each other.
ScavengeEnds == stage = "roots" ~> stage = "done"
=============================================================================
