--------------------------- MODULE Marking_proofs ---------------------------
(* MarkLiveObjects marks exactly what is alive, for every heap and every size *)
(* of the marking stack: IInv is inductive and implies the properties.        *)
EXTENDS MarkingInv, FiniteSetTheorems, SequenceTheorems, TLAPS

---------------------------------------------------------------------------
(* Lemmas about the operators.                                               *)

\* Of what is pushed on the stack a part fits, the rest is overflowed.
LEMMA PushEffect ==
  ASSUME TypeOK, NEW S \in SUBSET Object, S \cap stack = {}, Push(S)
  PROVE  /\ stack \subseteq stack' /\ stack' \subseteq stack \cup S
         /\ overflowed' = overflowed \cup (S \ stack')
         /\ stack_overflowed' = (stack_overflowed \/ S \ stack' # {})
         /\ S # {} => stack' # {}
         /\ Cardinality(stack') <= StackSize
<1>1. IsFiniteSet(S) /\ IsFiniteSet(stack) /\ stack \in SUBSET Object
  BY ObjectAssumption, FS_Subset DEF TypeOK
<1>2. PICK fit \in SUBSET S :
        /\ Cardinality(fit) = IF Cardinality(S) <= Room THEN Cardinality(S) ELSE Room
        /\ stack' = stack \cup fit
        /\ Overflow(S \ fit)
  BY DEF Push
<1>3. IsFiniteSet(fit) /\ stack \cap fit = {} /\ S \ fit = S \ stack'
  BY <1>1, <1>2, FS_Subset
<1>4. /\ Cardinality(fit) \in Nat /\ Cardinality(S) \in Nat /\ Cardinality(stack) \in Nat
      /\ StackSize \in Nat \ {0} /\ Cardinality(stack) <= StackSize
  BY <1>1, <1>3, FS_CardinalityType, StackAssumption DEF TypeOK
<1>5. Cardinality(stack') = Cardinality(stack) + Cardinality(fit)
  <2>1. Cardinality(stack \cap fit) = 0
    BY <1>3, FS_EmptySet
  <2>2. Cardinality(stack \cup fit) =
          Cardinality(stack) + Cardinality(fit) - Cardinality(stack \cap fit)
    BY <1>1, <1>3, FS_Union
  <2> QED
    BY <2>1, <2>2, <1>2, <1>4
<1>6. Cardinality(stack') <= StackSize
  BY <1>2, <1>4, <1>5 DEF Room
<1>7. ASSUME S # {}, stack = {} PROVE fit # {}
  <2>1. Cardinality(S) # 0 /\ Cardinality(stack) = 0
    BY <1>1, <1>7, FS_EmptySet
  <2>2. Cardinality(fit) # 0
    BY <2>1, <1>2, <1>4 DEF Room
  <2> QED
    BY <2>2, FS_EmptySet
<1>8. S # {} => stack' # {}
  BY <1>2, <1>7
<1>9. /\ overflowed' = overflowed \cup (S \ stack')
      /\ stack_overflowed' = (stack_overflowed \/ S \ stack' # {})
  BY <1>2, <1>3 DEF Overflow
<1> QED
  BY <1>2, <1>6, <1>8, <1>9

\* A scan that does not fill the stack has found every overflowed object.
LEMMA RefillEffect ==
  ASSUME TypeOK, RefillMarkingStack
  PROVE  /\ stack' \subseteq overflowed /\ overflowed' = overflowed \ stack'
         /\ Cardinality(stack') <= StackSize
         /\ stack_overflowed' \in BOOLEAN
         /\ overflowed' # {} => stack_overflowed'
<1>1. IsFiniteSet(overflowed)
  BY ObjectAssumption, FS_Subset DEF TypeOK
<1>2. PICK S \in SUBSET overflowed :
        /\ Cardinality(S) = IF Cardinality(overflowed) <= StackSize
                            THEN Cardinality(overflowed) ELSE StackSize
        /\ stack' = S
        /\ overflowed' = overflowed \ S
        /\ stack_overflowed' = (Cardinality(S) >= StackSize)
  BY DEF RefillMarkingStack, ClearOverflow
<1>3. Cardinality(overflowed) \in Nat /\ Cardinality(S) \in Nat /\ StackSize \in Nat
  BY <1>1, <1>2, FS_CardinalityType, FS_Subset, StackAssumption
<1>4. ASSUME Cardinality(S) < StackSize PROVE S = overflowed
  <2>1. Cardinality(overflowed) = Cardinality(S)
    BY <1>2, <1>3, <1>4
  <2> QED
    BY <2>1, <1>1, <1>2, FS_Subset
<1>5. Cardinality(stack') <= StackSize /\ stack_overflowed' \in BOOLEAN
  BY <1>2, <1>3
<1>6. overflowed' # {} => stack_overflowed'
  <2>1. CASE Cardinality(S) < StackSize
    BY <2>1, <1>2, <1>4
  <2>2. CASE Cardinality(S) >= StackSize
    BY <2>2, <1>2
  <2> QED
    BY <2>1, <2>2, <1>3
<1> QED
  BY <1>2, <1>5, <1>6

\* Visiting a field takes it out of what is left of the innermost body.
LEMMA VisitedEffect ==
  ASSUME TypeOK, bodies # <<>>, NEW o \in Object
  PROVE  /\ Visited(o) \in Seq(Body) /\ Len(Visited(o)) = Len(bodies)
         /\ \A i \in 1 .. Len(bodies) :
              /\ Visited(o)[i].object = bodies[i].object
              /\ Visited(o)[i].rest = IF i = Len(bodies) THEN bodies[i].rest \ {o}
                                      ELSE bodies[i].rest
<1>1. bodies \in Seq(Body) /\ Len(bodies) \in 1 .. Len(bodies)
  BY DEF TypeOK
<1>2. bodies[Len(bodies)] \in Body
  BY <1>1
<1> DEFINE rec == [object |-> Inner.object, rest |-> Inner.rest \ {o}]
<1>3. rec \in Body /\ rec.object = bodies[Len(bodies)].object
      /\ rec.rest = bodies[Len(bodies)].rest \ {o}
  BY <1>2 DEF Body, Inner
<1>4. Visited(o) = [bodies EXCEPT ![Len(bodies)] = rec]
  BY DEF Visited
<1> HIDE DEF rec
<1>5. Visited(o) \in Seq(Body) /\ Len(Visited(o)) = Len(bodies)
  BY <1>1, <1>3, <1>4
<1>6. ASSUME NEW i \in 1 .. Len(bodies)
      PROVE  /\ Visited(o)[i].object = bodies[i].object
             /\ Visited(o)[i].rest = IF i = Len(bodies) THEN bodies[i].rest \ {o}
                                     ELSE bodies[i].rest
  <2>1. Visited(o)[i] = IF i = Len(bodies) THEN rec ELSE bodies[i]
    BY <1>1, <1>4
  <2> QED
    BY <2>1, <1>3
<1> QED
  BY <1>5, <1>6

\* The innermost body is one of a marked object; its fields are objects.
LEMMA InnerField ==
  ASSUME TypeOK, BodiesInv, bodies # <<>>, NEW o \in Inner.rest
  PROVE  o \in Object /\ \E x \in marked : o \in fields[x]
<1>1. Len(bodies) \in 1 .. Len(bodies) /\ Inner = bodies[Len(bodies)]
  BY DEF TypeOK, Inner
<1>2. Inner.object \in marked /\ Inner.rest \subseteq fields[Inner.object]
  BY <1>1 DEF BodiesInv
<1> QED
  BY <1>2 DEF TypeOK

\* VisitField, with what it does to the bodies spelt out.
LEMMA VisitCases ==
  ASSUME TypeOK, BodiesInv, VisitField
  PROVE  \E o \in Inner.rest :
           /\ bodies # <<>> /\ o \in Object /\ \E x \in marked : o \in fields[x]
           /\ VisitMarked(o) \/ VisitUnmarked(o) \/ VisitNested(o)
  BY InnerField DEF VisitField

LEMMA IterateBody == ASSUME TypeOK, NEW o \in Object PROVE Iterate(o) \in Body /\ <<Iterate(o)>> \in Seq(Body)
  BY DEF Iterate, Body, TypeOK

---------------------------------------------------------------------------
(* Steps that leave the stage alone.                                         *)

\* Marking only what every closed set with the marked objects has.
LEMMA LeastPreserved ==
  ASSUME LeastInv, UNCHANGED heapVars, stage' \in {"roots", "groups"} => stage \in {"roots", "groups"},
         \A S \in SUBSET Object : StronglyClosed(S) /\ marked \subseteq S => marked' \subseteq S
  PROVE  LeastInv'
<1>1. \A S \in SUBSET Object : StronglyClosed(S)' <=> StronglyClosed(S)
  BY DEF StronglyClosed, heapVars
<1>2. \A S \in SUBSET Object : Closed(S)' <=> Closed(S)
  BY <1>1 DEF Closed, heapVars
<1>3. \A S \in SUBSET Object : Closed(S) => marked' \subseteq S
  BY DEF LeastInv, Closed
<1>4. stage' \in {"roots", "groups"} =>
        \A S \in SUBSET Object : StronglyClosed(S) => marked' \subseteq S
  BY DEF LeastInv
<1> QED
  BY <1>1, <1>2, <1>3, <1>4 DEF LeastInv

\* Which weak handles are pending is settled when the stage "weak" begins.
LEMMA PendingPreserved ==
  ASSUME PendingIsWeaklyReachable, UNCHANGED heapVars, pending' = pending,
         stage' \in {"weak", "groups again", "done"} => stage \in {"weak", "groups again", "done"}
  PROVE  PendingIsWeaklyReachable'
<1>1. \A S \in SUBSET Object : StronglyClosed(S)' <=> StronglyClosed(S)
  BY DEF StronglyClosed, heapVars
<1>2. {o \in weak' : \E S \in SUBSET Object : StronglyClosed(S)' /\ o \notin S} =
      {o \in weak : \E S \in SUBSET Object : StronglyClosed(S) /\ o \notin S}
  BY <1>1 DEF heapVars
<1> QED
  BY <1>2 DEF PendingIsWeaklyReachable

LEMMA PopInv == ASSUME IInv, Pop PROVE IInv'
<1> USE DEF IInv
<1>1. PICK o \in stack : stack' = stack \ {o} /\ bodies' = <<Iterate(o)>>
  BY DEF Pop
<1>2. /\ bodies = <<>> /\ UNCHANGED <<heapVars, marked, overflowed, stack_overflowed, stageVars>>
      /\ draining \/ stage \in {"roots", "weak"}
  BY DEF Pop
<1>3. o \in Object /\ o \in marked
  BY DEF TypeOK, NothingForgotten
<1>4. Len(bodies') = 1 /\ bodies'[1].object = o /\ bodies'[1].rest = fields[o]
  BY <1>1 DEF Iterate
<1>5. TypeOK'
  <2>1. IsFiniteSet(stack) /\ stack \ {o} \in SUBSET stack
    BY ObjectAssumption, FS_Subset DEF TypeOK
  <2>2. Cardinality(stack') <= Cardinality(stack) /\ Cardinality(stack') \in Nat
        /\ Cardinality(stack) \in Nat
    BY <2>1, <1>1, FS_Subset, FS_CardinalityType
  <2>3. Cardinality(stack') <= StackSize
    BY <2>2, StackAssumption DEF TypeOK
  <2>4. bodies' \in Seq(Body)
    BY <1>1, <1>3, IterateBody
  <2> QED
    BY <2>3, <2>4, <1>1, <1>2 DEF TypeOK, heapVars, stageVars
<1>6. NothingForgotten'
  <2>1. ASSUME NEW x \in marked' \ (stack' \cup overflowed'), NEW p \in fields'[x]
        PROVE  p \in marked' \/ ToVisit(x, p)'
    <3>1. CASE x = o
      BY <3>1, <2>1, <1>2, <1>4 DEF ToVisit, heapVars
    <3>2. CASE x # o
      <4>1. ~ToVisit(x, p)
        BY <1>2 DEF ToVisit
      <4> QED
        BY <3>2, <2>1, <4>1, <1>1, <1>2 DEF NothingForgotten, heapVars
    <3> QED
      BY <3>1, <3>2
  <2> QED
    BY <2>1, <1>1, <1>2 DEF NothingForgotten
<1>7. BodiesInv'
  <2>1. \A i \in 1 .. Len(bodies') : /\ bodies'[i].object \in marked'
                                     /\ bodies'[i].rest \subseteq fields'[bodies'[i].object]
    BY <1>2, <1>3, <1>4 DEF heapVars
  <2>2. ~(stage' \in GroupStage /\ ~draining')
    BY <1>2 DEF stageVars, GroupStage
  <2> QED
    BY <2>1, <2>2 DEF BodiesInv
<1>8. StageInv' /\ GroupsInv'
  <2>1. StageInv'
    BY <1>2 DEF StageInv, heapVars, stageVars
  <2>2. stack # {}
    OBVIOUS
  <2>3. ~(stage \in GroupStage /\ draining /\ ~work_to_do) /\ stage # "done"
    BY <2>2 DEF GroupsInv, Quiet
  <2>4. ~(stage \in GroupStage /\ ~draining)
    BY <1>2 DEF GroupStage
  <2>5. GroupsInv'
    BY <2>3, <2>4, <1>2 DEF GroupsInv, heapVars, stageVars
  <2> QED
    BY <2>1, <2>5
<1>9. LeastInv' /\ PendingIsWeaklyReachable'
  BY <1>2, LeastPreserved, PendingPreserved DEF stageVars
<1> QED
  BY <1>5, <1>6, <1>7, <1>8, <1>9

LEMMA LeaveBodyInv == ASSUME IInv, LeaveBody PROVE IInv'
<1> USE DEF IInv
<1>1. /\ bodies # <<>> /\ bodies \in Seq(Body) /\ bodies[Len(bodies)].rest = {}
      /\ bodies' = SubSeq(bodies, 1, Len(bodies) - 1)
      /\ UNCHANGED <<heapVars, markVars, stageVars>>
  BY DEF LeaveBody, Inner, TypeOK
<1>2. Len(bodies) \in Nat \ {0}
  BY <1>1
<1>3. /\ bodies' \in Seq(Body) /\ Len(bodies') = Len(bodies) - 1
      /\ \A i \in 1 .. Len(bodies') : bodies'[i] = bodies[i]
  <2> DEFINE n == Len(bodies) - 1
  <2>1. n \in Nat /\ Len(bodies) = n + 1 /\ \A i \in 1 .. n : bodies[i] \in Body
    BY <1>1, <1>2
  <2> HIDE DEF n
  <2>2. bodies' = SubSeq(bodies, 1, n)
    BY <1>1 DEF n
  <2>3. bodies' = [i \in 1 .. n |-> bodies[i]]
    <3>1. bodies' = [i \in 1 .. (1 + n - 1) |-> bodies[i + 1 - 1]]
      BY <2>1, <2>2, <1>1
    <3> QED
      BY <3>1, <2>1
  <2>4. Len(bodies') = n
    BY <2>1, <2>3
  <2>5. \A i \in 1 .. n : bodies'[i] = bodies[i]
    BY <2>3
  <2> QED
    BY <2>1, <2>3, <2>4, <2>5 DEF n
<1>4. TypeOK'
  BY <1>1, <1>3 DEF TypeOK, heapVars, markVars, stageVars
<1>5. NothingForgotten'
  <2>1. ASSUME NEW x, NEW p, ToVisit(x, p) PROVE ToVisit(x, p)'
    <3>1. PICK i \in 1 .. Len(bodies) : bodies[i].object = x /\ p \in bodies[i].rest
      BY <2>1 DEF ToVisit
    <3>2. i # Len(bodies)
      BY <3>1, <1>1
    <3>3. i \in 1 .. Len(bodies') /\ bodies'[i] = bodies[i]
      BY <3>2, <1>2, <1>3
    <3> QED
      BY <3>1, <3>3 DEF ToVisit
  <2>2. /\ UNCHANGED <<marked, overflowed, stack, stack_overflowed, fields>>
    BY <1>1 DEF markVars, heapVars
  <2> QED
    BY <2>1, <2>2 DEF NothingForgotten
<1>6. BodiesInv'
  <2>1. \A i \in 1 .. Len(bodies') : i \in 1 .. Len(bodies)
    BY <1>2, <1>3
  <2>2. ~(stage \in GroupStage /\ ~draining)
    BY <1>1 DEF BodiesInv
  <2> QED
    BY <2>1, <2>2, <1>1, <1>3 DEF BodiesInv, heapVars, markVars, stageVars
<1>7. StageInv'
  BY <1>1 DEF StageInv, heapVars, markVars, stageVars
<1>8. GroupsInv'
  <2>1. ~Quiet
    BY <1>1 DEF Quiet
  <2> QED
    BY <2>1, <1>1 DEF GroupsInv, GroupsUnmarked, heapVars, markVars, stageVars
<1>9. LeastInv' /\ PendingIsWeaklyReachable'
  BY <1>1, LeastPreserved, PendingPreserved DEF stageVars, markVars
<1> QED
  BY <1>4, <1>5, <1>6, <1>7, <1>8, <1>9

LEMMA RefillInv == ASSUME IInv, RefillMarkingStack PROVE IInv'
<1> USE DEF IInv
<1>1. /\ bodies = <<>> /\ stack = {} /\ stack_overflowed /\ draining
      /\ UNCHANGED <<heapVars, marked, bodies, stageVars>>
  BY DEF RefillMarkingStack, Empty
<1>2. /\ stack' \subseteq overflowed /\ overflowed' = overflowed \ stack'
      /\ Cardinality(stack') <= StackSize
      /\ stack_overflowed' \in BOOLEAN
      /\ overflowed' # {} => stack_overflowed'
  BY RefillEffect
<1>3. TypeOK'
  BY <1>1, <1>2 DEF TypeOK, heapVars, stageVars
<1>4. NothingForgotten'
  <2>1. \A x, p : ~ToVisit(x, p)
    BY <1>1 DEF ToVisit
  <2>2. \A x \in marked' \ (stack' \cup overflowed') : x \in marked \ (stack \cup overflowed)
    BY <1>1, <1>2
  <2>3. \A x \in marked \ (stack \cup overflowed) : \A p \in fields[x] : p \in marked
    BY <2>1 DEF NothingForgotten
  <2>4. \A x \in marked' \ (stack' \cup overflowed') : \A p \in fields'[x] : p \in marked'
    BY <2>2, <2>3, <1>1 DEF heapVars
  <2>5. stack' \cup overflowed' \subseteq marked' /\ stack' \cap overflowed' = {}
    BY <1>1, <1>2 DEF NothingForgotten
  <2> QED
    BY <2>4, <2>5, <1>2 DEF NothingForgotten
<1>5. BodiesInv' /\ StageInv'
  BY <1>1 DEF BodiesInv, StageInv, heapVars, stageVars
<1>6. GroupsInv'
  <2>1. ~Quiet
    BY <1>1 DEF Quiet
  <2> QED
    BY <2>1, <1>1 DEF GroupsInv, heapVars, stageVars
<1>7. LeastInv' /\ PendingIsWeaklyReachable'
  BY <1>1, LeastPreserved, PendingPreserved DEF stageVars
<1> QED
  BY <1>3, <1>4, <1>5, <1>6, <1>7

\* What VisitField does, apart from the choice between stack and nesting:
\* the object is marked, and kept on the stack, overflowed or being iterated.
LEMMA VisitFieldEffect ==
  ASSUME IInv, VisitField
  PROVE  \E o \in Object :
           /\ marked' = marked \cup {o}
           /\ \E x \in marked : o \in fields[x]
           /\ stack \subseteq stack' /\ stack' \subseteq stack \cup ({o} \ marked)
           /\ overflowed \subseteq overflowed' /\ overflowed' \subseteq overflowed \cup ({o} \ marked)
           /\ stack' \cap overflowed' = {}
           /\ overflowed' # overflowed => stack_overflowed'
           /\ stack_overflowed => stack_overflowed'
           /\ stack_overflowed' \in BOOLEAN
           /\ Cardinality(stack') <= StackSize
           /\ bodies' \in Seq(Body) /\ Len(bodies) <= Len(bodies')
           /\ \A i \in 1 .. Len(bodies) :
                /\ bodies'[i].object = bodies[i].object
                /\ bodies'[i].rest \subseteq bodies[i].rest /\ bodies[i].rest \ {o} \subseteq bodies'[i].rest
           /\ \A i \in 1 .. Len(bodies') \ 1 .. Len(bodies) : bodies'[i] = Iterate(o)
           /\ o \notin marked /\ o \notin stack' \cup overflowed' =>
                \E i \in 1 .. Len(bodies') : bodies'[i] = Iterate(o)
<1> USE DEF IInv
<1>1. PICK o \in Inner.rest : /\ bodies # <<>> /\ o \in Object /\ \E x \in marked : o \in fields[x]
                              /\ VisitMarked(o) \/ VisitUnmarked(o) \/ VisitNested(o)
  BY VisitCases
<1>2. /\ Visited(o) \in Seq(Body) /\ Len(Visited(o)) = Len(bodies) /\ Len(bodies) \in Nat
      /\ \A i \in 1 .. Len(bodies) :
           /\ Visited(o)[i].object = bodies[i].object
           /\ Visited(o)[i].rest \subseteq bodies[i].rest
           /\ bodies[i].rest \ {o} \subseteq Visited(o)[i].rest
  <2>1. /\ Visited(o) \in Seq(Body) /\ Len(Visited(o)) = Len(bodies)
        /\ \A i \in 1 .. Len(bodies) :
             /\ Visited(o)[i].object = bodies[i].object
             /\ Visited(o)[i].rest = IF i = Len(bodies) THEN bodies[i].rest \ {o}
                                     ELSE bodies[i].rest
    BY <1>1, VisitedEffect
  <2>2. Len(bodies) \in Nat
    BY DEF TypeOK
  <2>3. ASSUME NEW i \in 1 .. Len(bodies)
        PROVE  Visited(o)[i].rest \subseteq bodies[i].rest /\ bodies[i].rest \ {o} \subseteq Visited(o)[i].rest
    <3>1. Visited(o)[i].rest = bodies[i].rest \ {o} \/ Visited(o)[i].rest = bodies[i].rest
      BY <2>1, <2>3
    <3> QED
      BY <3>1
  <2> QED
    BY <2>1, <2>2, <2>3
<1>3. /\ stack \cap overflowed = {} /\ stack \cup overflowed \subseteq marked
      /\ stack_overflowed \in BOOLEAN /\ Cardinality(stack) <= StackSize
  BY DEF NothingForgotten, TypeOK
<1>4. CASE VisitMarked(o)
  <2>1. bodies' = Visited(o) /\ o \in marked /\ UNCHANGED <<marked, overflowed, stack, stack_overflowed>>
    BY <1>4 DEF VisitMarked, markVars
  <2>2. marked' = marked \cup {o}
    BY <2>1
  <2> QED
    BY <2>1, <2>2, <1>1, <1>2, <1>3
<1>5. CASE VisitUnmarked(o)
  <2>1. o \notin marked /\ marked' = marked \cup {o} /\ bodies' = Visited(o) /\ Push({o})
    BY <1>5 DEF VisitUnmarked
  <2>2. {o} \in SUBSET Object /\ stack \cap {o} = {}
    BY <2>1, <1>1, <1>3
  <2>3. /\ stack \subseteq stack' /\ stack' \subseteq stack \cup {o}
        /\ overflowed' = overflowed \cup ({o} \ stack')
        /\ stack_overflowed' = (stack_overflowed \/ {o} \ stack' # {})
        /\ Cardinality(stack') <= StackSize
    BY <2>1, <2>2, PushEffect
  <2>4. /\ overflowed' # overflowed => stack_overflowed'
        /\ stack_overflowed => stack_overflowed' /\ stack_overflowed' \in BOOLEAN
    BY <2>3
  <2>5. /\ stack' \cap overflowed' = {} /\ o \in stack' \cup overflowed'
        /\ overflowed' \subseteq overflowed \cup ({o} \ marked)
        /\ stack' \subseteq stack \cup ({o} \ marked)
    BY <2>1, <2>3, <1>3
  <2> QED
    BY <2>1, <2>3, <2>4, <2>5, <1>1, <1>2
<1>6. CASE VisitNested(o)
  <2>1. /\ o \notin marked /\ marked' = marked \cup {o} /\ bodies' = Append(Visited(o), Iterate(o))
        /\ UNCHANGED <<overflowed, stack, stack_overflowed>>
    BY <1>6 DEF VisitNested
  <2>2. Iterate(o) \in Body
    BY <1>1, IterateBody
  <2>3. /\ bodies' \in Seq(Body) /\ Len(bodies') = Len(bodies) + 1
        /\ \A i \in 1 .. Len(bodies) : bodies'[i] = Visited(o)[i]
        /\ bodies'[Len(bodies) + 1] = Iterate(o)
    BY <2>1, <2>2, <1>2
  <2>4. /\ Len(bodies) <= Len(bodies') /\ Len(bodies) + 1 \in 1 .. Len(bodies')
        /\ \A i \in 1 .. Len(bodies') \ 1 .. Len(bodies) : bodies'[i] = Iterate(o)
    BY <2>3, <1>2
  <2>5. \A i \in 1 .. Len(bodies) :
           /\ bodies'[i].object = bodies[i].object
           /\ bodies'[i].rest \subseteq bodies[i].rest
           /\ bodies[i].rest \ {o} \subseteq bodies'[i].rest
    BY <2>3, <1>2
  <2>6. \E i \in 1 .. Len(bodies') : bodies'[i] = Iterate(o)
    BY <2>3, <2>4
  <2> QED
    BY <2>1, <2>3, <2>4, <2>5, <2>6, <1>1, <1>3
<1> QED
  BY <1>1, <1>4, <1>5, <1>6

LEMMA VisitFieldInv == ASSUME IInv, VisitField PROVE IInv'
<1> USE DEF IInv
<1>1. PICK o \in Object :
           /\ marked' = marked \cup {o}
           /\ \E x \in marked : o \in fields[x]
           /\ stack \subseteq stack' /\ stack' \subseteq stack \cup ({o} \ marked)
           /\ overflowed \subseteq overflowed' /\ overflowed' \subseteq overflowed \cup ({o} \ marked)
           /\ stack' \cap overflowed' = {}
           /\ overflowed' # overflowed => stack_overflowed'
           /\ stack_overflowed => stack_overflowed'
           /\ stack_overflowed' \in BOOLEAN
           /\ Cardinality(stack') <= StackSize
           /\ bodies' \in Seq(Body) /\ Len(bodies) <= Len(bodies')
           /\ \A i \in 1 .. Len(bodies) :
                /\ bodies'[i].object = bodies[i].object
                /\ bodies'[i].rest \subseteq bodies[i].rest /\ bodies[i].rest \ {o} \subseteq bodies'[i].rest
           /\ \A i \in 1 .. Len(bodies') \ 1 .. Len(bodies) : bodies'[i] = Iterate(o)
           /\ o \notin marked /\ o \notin stack' \cup overflowed' =>
                \E i \in 1 .. Len(bodies') : bodies'[i] = Iterate(o)
  BY VisitFieldEffect
<1>2. UNCHANGED <<heapVars, stageVars>> /\ bodies # <<>> /\ Len(bodies) \in Nat /\ Len(bodies') \in Nat
  BY <1>1 DEF VisitField, TypeOK
<1>3. Iterate(o).object = o /\ Iterate(o).rest = fields[o]
  BY DEF Iterate
<1>4. TypeOK'
  <2>1. marked' \in SUBSET Object /\ overflowed' \in SUBSET Object /\ stack' \in SUBSET Object
    BY <1>1 DEF TypeOK
  <2>2. /\ fields' = fields /\ roots' = roots /\ weak' = weak /\ groups' = groups
        /\ stage' = stage /\ todo' = todo /\ draining' = draining /\ groups_left' = groups_left
        /\ work_to_do' = work_to_do /\ pending' = pending
    BY <1>2 DEF heapVars, stageVars
  <2>3. bodies' \in Seq(Body) /\ stack_overflowed' \in BOOLEAN /\ Cardinality(stack') <= StackSize
    BY <1>1
  <2> QED
    BY <2>1, <2>2, <2>3 DEF TypeOK
<1>5. NothingForgotten'
  <2>1. ASSUME NEW x \in marked' \ (stack' \cup overflowed'), NEW p \in fields'[x]
        PROVE  p \in marked' \/ ToVisit(x, p)'
    <3>1. fields' = fields
      BY <1>2 DEF heapVars
    <3>2. CASE x \notin marked
      <4>1. x = o
        BY <3>2, <2>1, <1>1
      <4>2. PICK i \in 1 .. Len(bodies') : bodies'[i] = Iterate(o)
        BY <4>1, <3>2, <2>1, <1>1
      <4> QED
        BY <4>1, <4>2, <3>1, <2>1, <1>3 DEF ToVisit
    <3>3. CASE x \in marked /\ p \notin marked'
      <4>1. x \in marked \ (stack \cup overflowed) /\ p \in fields[x] /\ p \notin marked /\ p # o
        BY <3>1, <3>3, <2>1, <1>1
      <4>2. PICK i \in 1 .. Len(bodies) : bodies[i].object = x /\ p \in bodies[i].rest
        BY <4>1 DEF NothingForgotten, ToVisit
      <4>3. i \in 1 .. Len(bodies') /\ bodies'[i].object = x /\ p \in bodies'[i].rest
        BY <4>1, <4>2, <1>1, <1>2
      <4> QED
        BY <4>3 DEF ToVisit
    <3> QED
      BY <3>2, <3>3
  <2>2. stack' \cup overflowed' \subseteq marked' /\ stack' \cap overflowed' = {}
    BY <1>1 DEF NothingForgotten
  <2>3. overflowed' # {} => stack_overflowed'
    BY <1>1 DEF NothingForgotten
  <2> QED
    BY <2>1, <2>2, <2>3 DEF NothingForgotten
<1>6. BodiesInv'
  <2>1. ASSUME NEW i \in 1 .. Len(bodies')
        PROVE  bodies'[i].object \in marked' /\ bodies'[i].rest \subseteq fields'[bodies'[i].object]
    <3>1. CASE i \in 1 .. Len(bodies)
      BY <3>1, <1>1, <1>2 DEF BodiesInv, heapVars
    <3>2. CASE i \notin 1 .. Len(bodies)
      BY <3>2, <1>1, <1>2, <1>3 DEF heapVars
    <3> QED
      BY <3>1, <3>2
  <2>2. ~(stage' \in GroupStage /\ ~draining')
    BY <1>2 DEF BodiesInv, stageVars
  <2> QED
    BY <2>1, <2>2 DEF BodiesInv
<1>7. StageInv'
  <2>1. marked \subseteq marked'
    BY <1>1
  <2> QED
    BY <2>1, <1>2 DEF StageInv, heapVars, stageVars
<1>8. GroupsInv'
  <2>1. ~Quiet /\ ~(stage \in GroupStage /\ ~draining)
    BY <1>2 DEF Quiet, BodiesInv
  <2>2. marked \subseteq marked'
    BY <1>1
  <2> QED
    BY <2>1, <2>2, <1>2 DEF GroupsInv, heapVars, stageVars
<1>9. LeastInv' /\ PendingIsWeaklyReachable'
  <2>1. \A S \in SUBSET Object : StronglyClosed(S) /\ marked \subseteq S => marked' \subseteq S
    BY <1>1 DEF StronglyClosed
  <2> QED
    BY <2>1, <1>2, LeastPreserved, PendingPreserved DEF stageVars
<1> QED
  BY <1>4, <1>5, <1>6, <1>7, <1>8, <1>9

---------------------------------------------------------------------------
(* Steps of the stages.                                                      *)

LEMMA VisitRootInv == ASSUME IInv, VisitRoot PROVE IInv'
<1> USE DEF IInv
<1>1. PICK o \in todo : /\ todo' = todo \ {o} /\ marked' = marked \cup {o}
                        /\ bodies' = IF o \in marked THEN <<>> ELSE <<Iterate(o)>>
  BY DEF VisitRoot
<1>2. /\ bodies = <<>> /\ stage \in {"roots", "weak"} /\ ~draining
      /\ UNCHANGED <<heapVars, overflowed, stack, stack_overflowed, stage, draining, groups_left,
                     work_to_do, pending>>
  BY DEF VisitRoot, Empty
<1>3. /\ o \in Object
      /\ stage = "roots" => o \in roots
      /\ stage = "weak" => o \in weak
  BY <1>1, <1>2 DEF StageInv, TypeOK
<1>4. /\ bodies' \in Seq(Body)
      /\ o \notin marked => bodies' = <<Iterate(o)>>
      /\ \A i \in 1 .. Len(bodies') : i = 1 /\ bodies'[i] = Iterate(o)
  <2>1. CASE o \in marked
    BY <2>1, <1>1
  <2>2. CASE o \notin marked
    BY <2>2, <1>1, <1>3, IterateBody
  <2> QED
    BY <2>1, <2>2
<1>5. TypeOK'
  BY <1>1, <1>2, <1>3, <1>4 DEF TypeOK, heapVars
<1>6. NothingForgotten'
  <2>1. ASSUME NEW x \in marked' \ (stack' \cup overflowed'), NEW p \in fields'[x]
        PROVE  p \in marked' \/ ToVisit(x, p)'
    <3>1. fields' = fields /\ stack' = stack /\ overflowed' = overflowed
      BY <1>2 DEF heapVars
    <3>2. CASE x \in marked
      <4>1. ~ToVisit(x, p)
        BY <1>2 DEF ToVisit
      <4> QED
        BY <3>1, <3>2, <4>1, <2>1, <1>1 DEF NothingForgotten
    <3>3. CASE x \notin marked
      <4>1. x = o /\ bodies' = <<Iterate(o)>>
        BY <3>3, <2>1, <1>1, <1>4
      <4>2. 1 \in 1 .. Len(bodies') /\ bodies'[1].object = x /\ bodies'[1].rest = fields[x]
        BY <4>1 DEF Iterate
      <4> QED
        BY <4>2, <3>1, <2>1 DEF ToVisit
    <3> QED
      BY <3>2, <3>3
  <2> QED
    BY <2>1, <1>1, <1>2 DEF NothingForgotten
<1>7. BodiesInv'
  <2>1. \A i \in 1 .. Len(bodies') : /\ bodies'[i].object \in marked'
                                     /\ bodies'[i].rest \subseteq fields'[bodies'[i].object]
    BY <1>1, <1>2, <1>4 DEF Iterate, heapVars
  <2>2. ~(stage' \in GroupStage /\ ~draining')
    BY <1>2 DEF GroupStage
  <2> QED
    BY <2>1, <2>2 DEF BodiesInv
<1>8. StageInv'
  BY <1>1, <1>2, <1>3 DEF StageInv, GroupStage, heapVars
<1>9. GroupsInv'
  <2>1. stage' \notin GroupStage /\ stage' # "done"
    BY <1>2 DEF GroupStage
  <2> QED
    BY <2>1, <1>1, <1>2 DEF GroupsInv, heapVars
<1>10. LeastInv' /\ PendingIsWeaklyReachable'
  <2>1. \A S \in SUBSET Object : (StronglyClosed(S)' <=> StronglyClosed(S)) /\ (Closed(S)' <=> Closed(S))
    BY <1>2 DEF StronglyClosed, Closed, heapVars
  <2>2. \A S \in SUBSET Object : Closed(S) => marked' \subseteq S
    BY <1>1, <1>2, <1>3 DEF LeastInv, Closed, StronglyClosed
  <2>3. stage' \in {"roots", "groups"} =>
          \A S \in SUBSET Object : StronglyClosed(S) => marked' \subseteq S
    BY <1>1, <1>2, <1>3 DEF LeastInv, StronglyClosed
  <2>4. PendingIsWeaklyReachable'
    BY <1>2, PendingPreserved
  <2> QED
    BY <2>1, <2>2, <2>3, <2>4 DEF LeastInv
<1> QED
  BY <1>5, <1>6, <1>7, <1>8, <1>9, <1>10

LEMMA RootsVisitedInv == ASSUME IInv, RootsVisited PROVE IInv'
<1> USE DEF IInv
<1>1. /\ stage \in {"roots", "weak"} /\ bodies = <<>> /\ todo = {} /\ draining' = TRUE
      /\ UNCHANGED <<heapVars, markVars, bodies, stage, todo, groups_left, work_to_do, pending>>
  BY DEF RootsVisited, Empty
<1>2. stage \notin GroupStage /\ stage # "done"
  BY <1>1 DEF GroupStage
<1>3. TypeOK'
  BY <1>1 DEF TypeOK, heapVars, markVars
<1>4. NothingForgotten' /\ BodiesInv'
  BY <1>1, <1>2 DEF NothingForgotten, BodiesInv, ToVisit, heapVars, markVars
<1>5. StageInv' /\ GroupsInv'
  BY <1>1, <1>2 DEF StageInv, GroupsInv, heapVars, markVars
<1>6. LeastInv' /\ PendingIsWeaklyReachable'
  BY <1>1, LeastPreserved, PendingPreserved DEF markVars
<1> QED
  BY <1>3, <1>4, <1>5, <1>6

LEMMA MarkObjectGroupInv == ASSUME IInv, MarkObjectGroup PROVE IInv'
<1> USE DEF IInv
<1>1. PICK g \in todo :
        /\ todo' = todo \ {g}
        /\ IF GroupMarked(g)
           THEN marked' = marked \cup g /\ Push(g \ marked) /\ groups_left' = groups_left \ {g}
           ELSE UNCHANGED <<markVars, groups_left>>
  BY DEF MarkObjectGroup
<1>2. /\ stage \in GroupStage /\ ~draining
      /\ UNCHANGED <<heapVars, bodies, stage, draining, work_to_do, pending>>
  BY DEF MarkObjectGroup
<1>3. g \in groups_left /\ g \in groups /\ g \in SUBSET Object /\ bodies = <<>>
  BY <1>1, <1>2 DEF StageInv, TypeOK, BodiesInv
<1>4. \A x, p : ~ToVisit(x, p)
  BY <1>3 DEF ToVisit
<1>5. PendingIsWeaklyReachable'
  BY <1>2, PendingPreserved
<1>6. CASE ~GroupMarked(g)
  <2>1. UNCHANGED <<markVars, groups_left>> /\ g \cap marked = {}
    BY <1>1, <1>6 DEF GroupMarked
  <2>2. TypeOK'
    BY <1>1, <1>2, <2>1 DEF TypeOK, heapVars, markVars
  <2>3. NothingForgotten' /\ BodiesInv'
    BY <1>2, <2>1 DEF NothingForgotten, BodiesInv, ToVisit, heapVars, markVars
  <2>4. StageInv'
    BY <1>1, <1>2, <2>1 DEF StageInv, GroupStage, heapVars, markVars
  <2>5. stack = {} => GroupsUnmarked(groups_left \ todo)' /\ ~stack_overflowed
    BY <1>1, <1>2, <2>1 DEF GroupsInv, GroupsUnmarked, markVars
  <2>6. GroupsInv'
    BY <2>5, <1>2, <2>1 DEF GroupsInv, GroupStage, heapVars, markVars
  <2>7. LeastInv'
    BY <1>2, <2>1, LeastPreserved DEF markVars
  <2> QED
    BY <2>2, <2>3, <2>4, <2>6, <2>7, <1>5
<1>7. CASE GroupMarked(g)
  <2>1. /\ marked' = marked \cup g /\ Push(g \ marked) /\ groups_left' = groups_left \ {g}
        /\ g \cap marked # {}
    BY <1>1, <1>7 DEF GroupMarked
  <2>2. g \ marked \in SUBSET Object /\ (g \ marked) \cap stack = {}
    BY <1>3 DEF NothingForgotten
  <2>3. /\ stack \subseteq stack' /\ stack' \subseteq stack \cup (g \ marked)
        /\ overflowed' = overflowed \cup ((g \ marked) \ stack')
        /\ stack_overflowed' = (stack_overflowed \/ (g \ marked) \ stack' # {})
        /\ g \ marked # {} => stack' # {}
        /\ Cardinality(stack') <= StackSize
    BY <2>1, <2>2, PushEffect
  <2>4. /\ stack_overflowed' \in BOOLEAN
        /\ overflowed' # overflowed => stack_overflowed'
        /\ stack_overflowed => stack_overflowed'
        /\ (g \ marked) \ stack' = {} /\ ~stack_overflowed => ~stack_overflowed'
    BY <2>3 DEF TypeOK
  <2>5. TypeOK'
    <3>1. marked' \in SUBSET Object /\ overflowed' \in SUBSET Object /\ stack' \in SUBSET Object
      BY <1>3, <2>1, <2>3 DEF TypeOK
    <3>2. todo' \in SUBSET (Object \cup groups) /\ groups_left' \in SUBSET groups
      BY <1>1, <2>1 DEF TypeOK
    <3> QED
      BY <3>1, <3>2, <2>3, <2>4, <1>2 DEF TypeOK, heapVars
  <2>6. NothingForgotten'
    <3>1. \A x \in marked' \ (stack' \cup overflowed') : x \in marked \ (stack \cup overflowed)
      BY <2>1, <2>3
    <3>2. \A x \in marked' \ (stack' \cup overflowed') : \A p \in fields'[x] : p \in marked'
      BY <3>1, <1>2, <1>4, <2>1 DEF NothingForgotten, heapVars
    <3>3. stack' \cup overflowed' \subseteq marked' /\ stack' \cap overflowed' = {}
      BY <2>1, <2>3 DEF NothingForgotten
    <3>4. overflowed' # {} => stack_overflowed'
      BY <2>4 DEF NothingForgotten
    <3> QED
      BY <3>2, <3>3, <3>4 DEF NothingForgotten
  <2>7. BodiesInv'
    BY <1>2, <1>3 DEF BodiesInv
  <2>8. StageInv'
    <3>1. marked \subseteq marked' /\ todo' \subseteq groups_left'
      BY <1>1, <1>2, <2>1 DEF StageInv
    <3>2. stage # "roots" /\ stage # "weak"
      BY <1>2 DEF GroupStage
    <3> QED
      BY <3>1, <3>2, <1>2 DEF StageInv, heapVars
  <2>9. GroupsInv'
    <3>1. \A h \in groups' \ groups_left' : h \subseteq marked'
      BY <1>2, <2>1 DEF GroupsInv, heapVars
    <3>2. stack' = {} => ~stack_overflowed' /\ GroupsUnmarked(groups_left \ todo)'
      <4>1. SUFFICES ASSUME stack' = {} PROVE ~stack_overflowed' /\ GroupsUnmarked(groups_left \ todo)'
        OBVIOUS
      <4>2. g \ marked = {} /\ stack = {} /\ marked' = marked
        BY <4>1, <2>1, <2>3
      <4>3. ~stack_overflowed /\ GroupsUnmarked(groups_left \ todo)
        BY <4>2, <1>2 DEF GroupsInv
      <4>4. groups_left' \ todo' \subseteq groups_left \ todo
        BY <1>1, <2>1
      <4>5. ~stack_overflowed'
        BY <4>2, <4>3, <2>4
      <4>6. GroupsUnmarked(groups_left \ todo)'
        BY <4>2, <4>3, <4>4 DEF GroupsUnmarked
      <4> QED
        BY <4>5, <4>6
    <3>3. ~draining' /\ stage' # "done"
      BY <1>2 DEF GroupStage
    <3> QED
      BY <3>1, <3>2, <3>3 DEF GroupsInv
  <2>10. LeastInv'
    <3>1. \A S \in SUBSET Object : StronglyClosed(S) /\ marked \subseteq S => marked' \subseteq S
      BY <1>3, <2>1 DEF StronglyClosed
    <3> QED
      BY <3>1, <1>2, LeastPreserved
  <2> QED
    BY <2>5, <2>6, <2>7, <2>8, <2>9, <2>10, <1>5
<1> QED
  BY <1>6, <1>7

LEMMA GroupsVisitedInv == ASSUME IInv, GroupsVisited PROVE IInv'
<1> USE DEF IInv
<1>1. /\ stage \in GroupStage /\ ~draining /\ todo = {} /\ draining' = TRUE
      /\ work_to_do' = (stack # {})
      /\ UNCHANGED <<heapVars, markVars, bodies, stage, todo, groups_left, pending>>
  BY DEF GroupsVisited, WorkToDo
<1>2. bodies = <<>>
  BY <1>1 DEF BodiesInv
<1>3. TypeOK'
  BY <1>1 DEF TypeOK, heapVars, markVars
<1>4. NothingForgotten' /\ BodiesInv'
  BY <1>1, <1>2 DEF NothingForgotten, BodiesInv, ToVisit, heapVars, markVars
<1>5. StageInv'
  BY <1>1 DEF StageInv, GroupStage, heapVars, markVars
<1>6. ~work_to_do' => Quiet' /\ GroupsUnmarked(groups_left)'
  <2>1. SUFFICES ASSUME stack = {} PROVE Quiet' /\ GroupsUnmarked(groups_left)'
    BY <1>1
  <2>2. ~stack_overflowed /\ GroupsUnmarked(groups_left \ todo)
    BY <2>1, <1>1 DEF GroupsInv
  <2> QED
    BY <2>1, <2>2, <1>1, <1>2 DEF Quiet, GroupsUnmarked, markVars
<1>7. GroupsInv'
  <2>1. draining' /\ stage' # "done"
    BY <1>1 DEF GroupStage
  <2>2. \A h \in groups' \ groups_left' : h \subseteq marked'
    BY <1>1 DEF GroupsInv, heapVars, markVars
  <2> QED
    BY <2>1, <2>2, <1>6 DEF GroupsInv
<1>8. LeastInv' /\ PendingIsWeaklyReachable'
  BY <1>1, LeastPreserved, PendingPreserved DEF markVars
<1> QED
  BY <1>3, <1>4, <1>5, <1>7, <1>8

\* Once the stack is drained, what marked objects point to is marked.
LEMMA DrainedClosed ==
  ASSUME IInv, bodies = <<>>, stack = {}, ~stack_overflowed
  PROVE  overflowed = {} /\ \A o \in marked : fields[o] \subseteq marked
<1>1. overflowed = {}
  BY DEF IInv, NothingForgotten
<1>2. \A x, p : ~ToVisit(x, p)
  BY DEF ToVisit
<1> QED
  BY <1>1, <1>2 DEF IInv, NothingForgotten

\* When no group is left to mark, groups agree with the marks.
LEMMA GroupsClosed ==
  ASSUME GroupsInv, GroupsUnmarked(groups_left), NEW g \in groups, g \cap marked # {}
  PROVE  g \subseteq marked
  BY DEF GroupsInv, GroupsUnmarked

LEMMA DrainedInv == ASSUME IInv, Drained PROVE IInv'
<1> USE DEF IInv
<1>1. /\ draining /\ bodies = <<>> /\ stack = {} /\ ~stack_overflowed
      /\ FollowGroups \/ FollowWeakHandles \/ Finish
      /\ draining' = FALSE
      /\ UNCHANGED <<heapVars, markVars, bodies, groups_left, work_to_do>>
  BY DEF Drained, Empty
<1>2. todo = {}
  BY <1>1 DEF StageInv
<1>3. \A x, p : ~ToVisit(x, p) /\ ~ToVisit(x, p)'
  BY <1>1 DEF ToVisit
<1>4. NothingForgotten'
  BY <1>1, <1>3 DEF NothingForgotten, heapVars, markVars
<1>5. BodiesInv'
  BY <1>1 DEF BodiesInv
<1>6. Quiet' /\ ~draining'
  BY <1>1 DEF Quiet, markVars
<1>7. \A h \in groups' \ groups_left' : h \subseteq marked'
  BY <1>1 DEF GroupsInv, heapVars, markVars
<1>8. CASE FollowGroups
  <2>1. /\ todo' = groups_left /\ pending' = pending /\ stage' \in GroupStage /\ stage' \in Stage
        /\ stage' = "groups" => stage \in {"roots", "groups"}
        /\ stage' = "groups again" => stage \in {"weak", "groups again"}
    BY <1>8 DEF FollowGroups, GroupStage, Stage
  <2>2. TypeOK'
    BY <2>1, <1>1 DEF TypeOK, heapVars, markVars
  <2>3. StageInv'
    BY <2>1, <1>1, <1>2 DEF StageInv, GroupStage, heapVars, markVars
  <2>4. GroupsUnmarked(groups_left \ todo)'
    BY <2>1, <1>1 DEF GroupsUnmarked
  <2>5. stage' # "done"
    BY <2>1 DEF GroupStage
  <2>6. GroupsInv'
    BY <2>4, <2>5, <1>6, <1>7 DEF GroupsInv, Quiet
  <2>7. stage' \in {"roots", "groups"} => stage \in {"roots", "groups"}
    BY <2>1 DEF GroupStage
  <2>8. stage' \in {"weak", "groups again", "done"} => stage \in {"weak", "groups again", "done"}
    BY <2>1 DEF GroupStage
  <2>9. LeastInv' /\ PendingIsWeaklyReachable'
    BY <2>1, <2>7, <2>8, <1>1, LeastPreserved, PendingPreserved DEF markVars
  <2> QED
    BY <2>2, <2>3, <2>6, <2>9, <1>4, <1>5
<1>9. CASE FollowWeakHandles
  <2>1. stage = "groups" /\ ~work_to_do /\ stage' = "weak" /\ pending' = weak \ marked /\ todo' = weak
    BY <1>9 DEF FollowWeakHandles, IdentifyWeakHandles
  <2>2. TypeOK'
    BY <2>1, <1>1 DEF TypeOK, Stage, heapVars, markVars
  <2>3. StageInv'
    BY <2>1, <1>1, <1>2 DEF StageInv, GroupStage, heapVars, markVars
  <2>4. GroupsInv'
    BY <2>1, <1>7 DEF GroupsInv, GroupStage
  <2>5. LeastInv'
    BY <2>1, <1>1, LeastPreserved DEF markVars
  <2>6. StronglyClosed(marked)
    <3>1. GroupsUnmarked(groups_left)
      BY <2>1, <1>1 DEF GroupsInv, GroupStage
    <3>2. roots \subseteq marked
      BY <2>1 DEF StageInv
    <3> QED
      BY <3>1, <3>2, <1>1, DrainedClosed, GroupsClosed DEF StronglyClosed
  <2>7. marked \in SUBSET Object /\ \A S \in SUBSET Object : StronglyClosed(S) => marked \subseteq S
    BY <2>1 DEF TypeOK, LeastInv
  <2>8. pending' = {o \in weak : \E S \in SUBSET Object : StronglyClosed(S) /\ o \notin S}
    BY <2>1, <2>6, <2>7
  <2>9. \A S \in SUBSET Object : StronglyClosed(S)' <=> StronglyClosed(S)
    BY <1>1 DEF StronglyClosed, heapVars
  <2>10. PendingIsWeaklyReachable'
    BY <2>8, <2>9, <1>1 DEF PendingIsWeaklyReachable, heapVars
  <2> QED
    BY <2>2, <2>3, <2>4, <2>5, <2>10, <1>4, <1>5
<1>10. CASE Finish
  <2>1. stage = "groups again" /\ ~work_to_do /\ stage' = "done" /\ todo' = todo /\ pending' = pending
    BY <1>10 DEF Finish
  <2>2. TypeOK'
    BY <2>1, <1>1 DEF TypeOK, Stage, heapVars, markVars
  <2>3. StageInv'
    BY <2>1, <1>1, <1>2 DEF StageInv, GroupStage, heapVars, markVars
  <2>4. GroupsUnmarked(groups_left)'
    BY <2>1, <1>1 DEF GroupsInv, GroupStage, GroupsUnmarked, markVars
  <2>5. GroupsInv'
    BY <2>1, <2>4, <1>6, <1>7 DEF GroupsInv, GroupStage
  <2>6. LeastInv' /\ PendingIsWeaklyReachable'
    BY <2>1, <1>1, LeastPreserved, PendingPreserved DEF markVars
  <2> QED
    BY <2>2, <2>3, <2>5, <2>6, <1>4, <1>5
<1> QED
  BY <1>1, <1>8, <1>9, <1>10

---------------------------------------------------------------------------
(* The invariant.                                                            *)

LEMMA InitInv == ASSUME Init PROVE IInv
<1>1. Cardinality(stack) <= StackSize
  BY FS_EmptySet, StackAssumption DEF Init, InitMarking
<1>2. TypeOK
  <2>1. Init /\ bodies \in Seq(Body) /\ stage \in Stage
    BY DEF Init, InitMarking, Stage
  <2> QED
    BY <1>1, <2>1 DEF Init, InitHeap, InitMarking, TypeOK
<1>3. NothingForgotten /\ BodiesInv /\ StageInv /\ GroupsInv
  BY DEF Init, InitMarking, NothingForgotten, BodiesInv, StageInv, GroupsInv, GroupStage
<1>4. LeastInv /\ PendingIsWeaklyReachable
  BY DEF Init, InitMarking, LeastInv, PendingIsWeaklyReachable
<1> QED
  BY <1>2, <1>3, <1>4 DEF IInv

LEMMA StutterInv == ASSUME IInv, UNCHANGED vars PROVE IInv'
<1>1. TypeOK' /\ NothingForgotten' /\ BodiesInv'
  BY DEF IInv, TypeOK, NothingForgotten, BodiesInv, ToVisit, vars, heapVars, markVars, stageVars
<1>2. StageInv' /\ GroupsInv'
  BY DEF IInv, StageInv, GroupsInv, GroupsUnmarked, Quiet, vars, heapVars, markVars, stageVars
<1>3. LeastInv' /\ PendingIsWeaklyReachable'
  <2>1. LeastInv /\ PendingIsWeaklyReachable /\ UNCHANGED heapVars /\ stage' = stage
        /\ marked' = marked /\ pending' = pending
    BY DEF IInv, vars, markVars, stageVars
  <2> QED
    BY <2>1, LeastPreserved, PendingPreserved
<1> QED
  BY <1>1, <1>2, <1>3 DEF IInv

LEMMA NextInv == ASSUME IInv, [Next]_vars PROVE IInv'
<1>1. CASE Pop
  BY <1>1, PopInv
<1>2. CASE VisitField
  BY <1>2, VisitFieldInv
<1>3. CASE LeaveBody
  BY <1>3, LeaveBodyInv
<1>4. CASE RefillMarkingStack
  BY <1>4, RefillInv
<1>5. CASE VisitRoot
  BY <1>5, VisitRootInv
<1>6. CASE RootsVisited
  BY <1>6, RootsVisitedInv
<1>7. CASE MarkObjectGroup
  BY <1>7, MarkObjectGroupInv
<1>8. CASE GroupsVisited
  BY <1>8, GroupsVisitedInv
<1>9. CASE Drained
  BY <1>9, DrainedInv
<1>10. CASE UNCHANGED vars
  BY <1>10, StutterInv
<1> QED
  BY <1>1, <1>2, <1>3, <1>4, <1>5, <1>6, <1>7, <1>8, <1>9, <1>10 DEF Next

LEMMA Invariant == Spec => []IInv
  BY InitInv, NextInv, PTL DEF Spec

\* Every variable has its type and the stack its bound, whatever the heap.
THEOREM TypeCorrect == Spec => []TypeOK
<1>1. IInv => TypeOK
  BY DEF IInv
<1> QED
  BY <1>1, Invariant, PTL

\* No marked object is forgotten, whatever fits on the marking stack.
THEOREM NoObjectForgotten == Spec => []NothingForgotten
<1>1. IInv => NothingForgotten
  BY DEF IInv
<1> QED
  BY <1>1, Invariant, PTL

\* MarkLiveObjects marks the live objects and no other, for every heap and
\* every size of the marking stack.
THEOREM MarksExactlyTheLive == Spec => []MarkedIsLive
<1>1. ASSUME IInv, stage = "done" PROVE Closed(marked) /\ overflowed = {} /\ stack = {}
  <2>1. Quiet /\ GroupsUnmarked(groups_left) /\ GroupsInv
    BY <1>1 DEF IInv, GroupsInv
  <2>2. roots \subseteq marked /\ weak \subseteq marked
    BY <1>1 DEF IInv, StageInv
  <2>3. overflowed = {} /\ stack = {} /\ \A o \in marked : fields[o] \subseteq marked
    BY <1>1, <2>1, DrainedClosed DEF Quiet
  <2> QED
    BY <2>1, <2>2, <2>3, GroupsClosed DEF Closed, StronglyClosed
<1>2. IInv => MarkedIsLive
  BY <1>1 DEF IInv, LeastInv, MarkedIsLive
<1> QED
  BY <1>2, Invariant, PTL

\* Weak handles are pending exactly when only weak handles reach their object.
THEOREM PendingExact == Spec => []PendingIsWeaklyReachable
<1>1. IInv => PendingIsWeaklyReachable
  BY DEF IInv
<1> QED
  BY <1>1, Invariant, PTL
=============================================================================
