------------------------------ MODULE Marking -------------------------------
(* MarkCompactCollector::MarkLiveObjects (mark-compact.h, mark-compact.cc):   *)
(* marking with a stack of fixed size.  An object that does not fit on the    *)
(* stack gets its overflow bit set and is found again by a scan of the heap.  *)
(* Roots are followed by object groups, weak handles and groups once more.    *)
(* The heap does not change meanwhile.  Maps are edges of the graph as other  *)
(* fields are; that transitions of collectable maps are not followed means    *)
(* that they are no edges.  The order in which the stack is popped and the    *)
(* heap scanned depends on addresses, and is arbitrary here.                  *)
EXTENDS Integers, Sequences, FiniteSets

CONSTANTS Object,
          StackSize   \* the pointers that fit in from-space

ASSUME StackAssumption == StackSize \in Nat \ {0}
ASSUME ObjectAssumption == IsFiniteSet(Object)

VARIABLES
  fields,        \* the objects an object points to
  roots, weak,   \* what strong roots and weak global handles point to
  groups,        \* the object groups, each a set of objects
  marked, overflowed,      \* the mark and the overflow bits
  stack, stack_overflowed, \* the marking stack and its flag
  bodies,        \* the bodies being iterated, innermost last
  stage, todo,   \* the part of MarkLiveObjects, and what it has to visit
  draining,      \* in ProcessMarkingStack, or in the loop that stands for it
  groups_left, work_to_do, \* of ProcessObjectGroups
  pending        \* objects whose weak handles became PENDING

heapVars == <<fields, roots, weak, groups>>
markVars == <<marked, overflowed, stack, stack_overflowed>>
stageVars == <<stage, todo, draining, groups_left, work_to_do, pending>>
vars == <<heapVars, markVars, bodies, stageVars>>

Body == [object : Object, rest : SUBSET Object]
Stage == {"roots", "groups", "weak", "groups again", "done"}
GroupStage == {"groups", "groups again"}

InitHeap ==
  /\ fields \in [Object -> SUBSET Object] /\ roots \in SUBSET Object
  /\ weak \in SUBSET Object /\ groups \in SUBSET (SUBSET Object)

InitMarking ==
  /\ marked = {} /\ overflowed = {} /\ stack = {} /\ stack_overflowed = FALSE
  /\ bodies = <<>>
  /\ stage = "roots" /\ todo = roots /\ draining = FALSE
  /\ groups_left = groups /\ work_to_do = FALSE /\ pending = {}

Init == InitHeap /\ InitMarking

FaultyRoom == StackSize + 1 - Cardinality(stack)
Room == StackSize - Cardinality(stack)

---------------------------------------------------------------------------
(* The marking stack.                                                        *)

\* MarkUnmarkedObject pushes the objects of S one after the other; those that
\* find the stack full are marked as overflowed.
FaultyOverflow(S) ==
  /\ overflowed' = overflowed
  /\ stack_overflowed' = (stack_overflowed \/ S # {})
Overflow(S) ==
  /\ overflowed' = overflowed \cup S
  /\ stack_overflowed' = (stack_overflowed \/ S # {})

Push(S) ==
  \E fit \in SUBSET S :
    /\ Cardinality(fit) = IF Cardinality(S) <= Room THEN Cardinality(S) ELSE Room
    /\ stack' = stack \cup fit
    /\ Overflow(S \ fit)

Iterate(o) == [object |-> o, rest |-> fields[o]]

\* One turn of EmptyMarkingStack, which MarkObjectGroups does not call.
Pop ==
  /\ bodies = <<>>
  /\ draining \/ stage \in {"roots", "weak"}
  /\ \E o \in stack : stack' = stack \ {o} /\ bodies' = <<Iterate(o)>>
  /\ UNCHANGED <<heapVars, marked, overflowed, stack_overflowed, stageVars>>

Inner == bodies[Len(bodies)]
Visited(o) ==
  [bodies EXCEPT ![Len(bodies)] = [object |-> Inner.object, rest |-> Inner.rest \ {o}]]

VisitMarked(o) ==
  /\ o \in marked
  /\ bodies' = Visited(o)
  /\ UNCHANGED markVars

VisitUnmarked(o) ==
  /\ o \notin marked /\ marked' = marked \cup {o}
  /\ bodies' = Visited(o)
  /\ Push({o})

\* VisitUnmarkedObjects for a long range, unless the C++ stack is nearly used
\* up, and MarkMapContents: the body is iterated at once.
VisitNested(o) ==
  /\ o \notin marked /\ marked' = marked \cup {o}
  /\ bodies' = Append(Visited(o), Iterate(o))
  /\ UNCHANGED <<overflowed, stack, stack_overflowed>>

VisitField ==
  /\ bodies # <<>>
  /\ \E o \in Inner.rest : VisitMarked(o) \/ VisitUnmarked(o) \/ VisitNested(o)
  /\ UNCHANGED <<heapVars, stageVars>>

LeaveBody ==
  /\ bodies # <<>> /\ Inner.rest = {}
  /\ bodies' = SubSeq(bodies, 1, Len(bodies) - 1)
  /\ UNCHANGED <<heapVars, markVars, stageVars>>

Empty == bodies = <<>> /\ stack = {}

\* The scan stops when the stack is full, or else it has seen the whole heap.
FaultyClearOverflow(S) == overflowed' = overflowed
ClearOverflow(S) == overflowed' = overflowed \ S

RefillMarkingStack ==
  /\ draining /\ Empty /\ stack_overflowed
  /\ \E S \in SUBSET overflowed :
       /\ Cardinality(S) = IF Cardinality(overflowed) <= StackSize THEN Cardinality(overflowed)
                           ELSE StackSize
       /\ stack' = S
       /\ ClearOverflow(S)
       /\ stack_overflowed' = (Cardinality(S) >= StackSize)
  /\ UNCHANGED <<heapVars, marked, bodies, stageVars>>

---------------------------------------------------------------------------
(* MarkLiveObjects.                                                          *)

\* RootMarkingVisitor: it empties the stack after every root.
VisitRoot ==
  /\ stage \in {"roots", "weak"} /\ ~draining /\ Empty
  /\ \E o \in todo :
       /\ todo' = todo \ {o}
       /\ marked' = marked \cup {o}
       /\ bodies' = IF o \in marked THEN <<>> ELSE <<Iterate(o)>>
  /\ UNCHANGED <<heapVars, overflowed, stack, stack_overflowed, stage, draining, groups_left,
                 work_to_do, pending>>

RootsVisited ==
  /\ stage \in {"roots", "weak"} /\ ~draining /\ Empty /\ todo = {}
  /\ draining' = TRUE
  /\ UNCHANGED <<heapVars, markVars, bodies, stage, todo, groups_left, work_to_do, pending>>

\* MarkObjectGroups: a group with a marked object is marked and removed.
FaultyGroupMarked(g) == g \subseteq marked
GroupMarked(g) == g \cap marked # {}

MarkObjectGroup ==
  /\ stage \in GroupStage /\ ~draining
  /\ \E g \in todo :
       /\ todo' = todo \ {g}
       /\ IF GroupMarked(g)
          THEN marked' = marked \cup g /\ Push(g \ marked) /\ groups_left' = groups_left \ {g}
          ELSE UNCHANGED <<markVars, groups_left>>
  /\ UNCHANGED <<heapVars, bodies, stage, draining, work_to_do, pending>>

\* More groups may be marked once what these reach has been.
FaultyWorkToDo == FALSE
WorkToDo == stack # {}

GroupsVisited ==
  /\ stage \in GroupStage /\ ~draining /\ todo = {}
  /\ work_to_do' = WorkToDo
  /\ draining' = TRUE
  /\ UNCHANGED <<heapVars, markVars, bodies, stage, todo, groups_left, pending>>

\* A weak handle is pending when what it points to is not marked by now.
IdentifyWeakHandles == weak \ marked

FollowGroups ==
  /\ \/ stage = "roots" /\ stage' = "groups"
     \/ stage = "weak" /\ stage' = "groups again"
     \/ stage \in GroupStage /\ work_to_do /\ stage' = stage
  /\ todo' = groups_left
  /\ UNCHANGED pending

FollowWeakHandles ==
  /\ stage = "groups" /\ ~work_to_do /\ stage' = "weak"
  /\ pending' = IdentifyWeakHandles
  /\ todo' = weak

Finish ==
  /\ stage = "groups again" /\ ~work_to_do /\ stage' = "done"
  /\ UNCHANGED <<todo, pending>>

Drained ==
  /\ draining /\ Empty /\ ~stack_overflowed
  /\ FollowGroups \/ FollowWeakHandles \/ Finish
  /\ draining' = FALSE
  /\ UNCHANGED <<heapVars, markVars, bodies, groups_left, work_to_do>>

Next ==
  \/ Pop \/ VisitField \/ LeaveBody \/ RefillMarkingStack
  \/ VisitRoot \/ RootsVisited \/ MarkObjectGroup \/ GroupsVisited \/ Drained

\* The collector is one thread, which goes on.
Spec == Init /\ [][Next]_vars /\ WF_vars(Next)

---------------------------------------------------------------------------
(* Properties.                                                               *)

\* The type of every variable; the stack never exceeds its size
\* (mark-compact.h:68-86).
TypeOK ==
  /\ fields \in [Object -> SUBSET Object] /\ roots \in SUBSET Object
  /\ weak \in SUBSET Object /\ groups \in SUBSET (SUBSET Object)
  /\ marked \in SUBSET Object /\ overflowed \in SUBSET Object /\ stack \in SUBSET Object
  /\ stack_overflowed \in BOOLEAN /\ bodies \in Seq(Body)
  /\ stage \in Stage /\ draining \in BOOLEAN /\ work_to_do \in BOOLEAN
  /\ todo \in SUBSET (Object \cup groups)
  /\ groups_left \in SUBSET groups /\ pending \in SUBSET weak
  /\ Cardinality(stack) <= StackSize

\* What an object that is in no worklist points to is marked, or is about to be
\* visited by the body being iterated: no object is forgotten, whatever
\* overflowed, and a set overflow bit is announced by the flag of the stack
\* (mark-compact.cc:1000-1045).
ToVisit(o, p) == \E i \in 1 .. Len(bodies) : bodies[i].object = o /\ p \in bodies[i].rest
NothingForgotten ==
  /\ \A o \in marked \ (stack \cup overflowed) : \A p \in fields[o] : p \in marked \/ ToVisit(o, p)
  /\ stack \cup overflowed \subseteq marked
  /\ stack \cap overflowed = {}
  /\ overflowed # {} => stack_overflowed

\* S is closed under what keeps an object alive.
StronglyClosed(S) ==
  /\ roots \subseteq S
  /\ \A o \in S : fields[o] \subseteq S
  /\ \A g \in groups : g \cap S # {} => g \subseteq S
Closed(S) == StronglyClosed(S) /\ weak \subseteq S

\* When marking is done the marked objects are the least set that is closed
\* under roots, weak handles, fields and object groups, and no overflow bit is
\* left in a map word (comments at mark-compact.cc:1083-1110).
MarkedIsLive ==
  /\ stage = "done" => Closed(marked) /\ overflowed = {} /\ stack = {}
  /\ \A S \in SUBSET Object : Closed(S) => marked \subseteq S

\* A weak handle is pending destruction exactly when no strong root and no
\* group reaches its object, although weak handles are followed afterwards
\* (global-handles.cc:379-388, mark-compact.cc:1089-1096).
PendingIsWeaklyReachable ==
  stage \in {"weak", "groups again", "done"} =>
    pending = {o \in weak : \E S \in SUBSET Object : StronglyClosed(S) /\ o \notin S}

\* Marking ends, however often the stack overflows.
MarkingEnds == <>(stage = "done")
=============================================================================
