-------------------------- MODULE Scavenger_proofs --------------------------
(* Theorems about Scavenger, for any heap: the graph of objects is preserved, *)
(* nothing but what is alive survives, no map word is read outside of         *)
(* from-space, the region marks are complete, and to-space has room.          *)
EXTENDS ScavengerInv, SequenceTheorems, FiniteSetTheorems, TLAPS

---------------------------------------------------------------------------
(* Slots and the scavenge's steps.                                            *)

\* A field belongs to one object, and is no root.
LEMMA FieldFacts ==
  /\ \A t \in FieldSlot : t[1] \in Object /\ t \in Fields(t[1]) /\ t \notin Root
  /\ \A o \in Object : Fields(o) \subseteq FieldSlot /\ \A t \in Fields(o) : t[1] = o
  /\ Slot = Root \cup FieldSlot /\ Nil \notin Slot /\ Nil \notin Object
  /\ \A t \in FieldSlot : FieldCount[t[1]] > 0
<1>1. \A o \in Object : Fields(o) \subseteq FieldSlot
  BY DEF FieldSlot
<1>2. \A o \in Object : \A t \in Fields(o) : t[1] = o
  BY DEF Fields
<1>3. \A t \in FieldSlot : t[1] \in Object /\ t \in Fields(t[1])
  BY <1>2 DEF FieldSlot
<1>4. \A t \in FieldSlot : FieldCount[t[1]] > 0
  <2> TAKE t \in FieldSlot
  <2>1. t[1] \in Object /\ t \in {t[1]} \X (1 .. FieldCount[t[1]])
    BY <1>3 DEF Fields
  <2>2. FieldCount[t[1]] \in Nat
    BY <2>1, ObjectAssumption
  <2>3. t[2] \in 1 .. FieldCount[t[1]]
    BY <2>1
  <2> QED
    BY <2>2, <2>3
<1> QED
  BY <1>1, <1>2, <1>3, <1>4, SpaceAssumption DEF Slot

\* The first part of a cons string is in a slot.
LEMMA FirstSlot ==
  ASSUME NEW o \in Shortcut
  PROVE  <<o, 1>> \in FieldSlot /\ o \in Young
<1>1. o \in Object /\ o \in Young /\ FieldCount[o] = 2
  BY ObjectAssumption DEF Object
<1>2. <<o, 1>> \in Fields(o)
  BY <1>1 DEF Fields
<1> QED
  BY <1>1, <1>2, FieldFacts

\* A slot that is scavenged still has the address in from-space, and what it
\* held is the object it shows or a cons string that leads there.
LEMMA VisitFacts ==
  ASSUME Types, SlotInv, ChainInv, VisitInv, NEW s \in left, Current(s), ToScavenge(s)
  PROVE  /\ s \in Slot /\ s \notin updated /\ target[s] \in Young
         /\ stage \in {"roots", "dirty", "copied", "promoted"}
         /\ \/ slot = Nil /\ chain = {} /\ before[s] = target[s]
            \/ slot = s /\ before[s] \in chain /\ \E c \in chain : First(c) = target[s]
         /\ \A c \in chain : First(c) \in chain \cup {target[s]}
<1>1. s \in Slot /\ stage \in Stage /\ stage \notin {"mutator", "done"}
  BY DEF Types, VisitInv
<1>2. s \notin updated /\ target[s] \in Young
  BY DEF ToScavenge, InNewSpace, InFromSpace, InToSpace, VisitInv
<1>3. CASE slot = Nil
  BY <1>1, <1>2, <1>3, SpaceAssumption DEF SlotInv, ChainInv, Stage
<1>4. CASE slot # Nil
  BY <1>1, <1>2, <1>4 DEF ChainInv, Current, Stage
<1> QED
  BY <1>3, <1>4

\* What becomes of a slot that is settled with p: S are the objects whose map
\* words are set.
Settles(s, S, p) ==
  /\ Settle(s, S, p)
  /\ s \in left /\ s \in Slot \ updated /\ p \in Object /\ target[s] \in Young
  /\ S \subseteq chain \cup {target[s]} /\ S \subseteq Young
  /\ \A x \in S : forward[x] = Nil
  /\ \A x \in S : IF x \in Shortcut THEN First(x) \in S \/ (First(x) \notin S /\ p = NewAddress(First(x)))
                  ELSE p = x
  /\ before[s] \in Young
  /\ before[s] \in S \/ (before[s] \notin S /\ forward[before[s]] = p)
  /\ slot # Nil => slot = s

\* Nothing is moved.
Stays(s, S, p) ==
  /\ S \subseteq Shortcut
  /\ p \in Young => where[p] # "from"
  /\ where' = where /\ region' = region /\ copied' = copied /\ promoted' = promoted
  /\ left' = left \ {s}
  /\ Mark(s, p \in Young /\ where[p] = "to")

\* Object p is moved to old space or to to-space.
Moves(s, S, p) ==
  /\ p = target[s] /\ p \in S \ Shortcut /\ S \subseteq Shortcut \cup {p}
  /\ where[p] = "from"
  /\ \E space \in {"old", "to"} :
       /\ where' = [where EXCEPT ![p] = space]
       /\ Mark(s, space = "to")
       /\ left \ {s} \subseteq left' /\ left' \subseteq (left \ {s}) \cup Fields(p)
       /\ stage # "dirty" \/ space = "to" => left' = left \ {s}
       /\ copied' = IF space = "to" THEN Append(copied, p) ELSE copied
       /\ promoted' = IF space = "old" /\ IsPointerObject(p) THEN Append(promoted, p) ELSE promoted
       /\ region' \in [FieldSlot -> Region]
       /\ \A t \in FieldSlot \ Fields(p) : region'[t] = region[t]

\* The slot shows the first part of the string it showed, whose visit goes on.
Shortens(s) ==
  /\ ShortcutYoung(s)
  /\ s \in left /\ s \in Slot \ updated
  /\ forward[target[s]] = Nil
  /\ slot # Nil => slot = s
  /\ before[s] \in chain \cup {target[s]}

\* Every visit settles the slot or takes the first part of a cons string.
LEMMA VisitCases ==
  ASSUME Types, PlaceInv, SlotInv, ChainInv, VisitInv, NEW s \in left, ScavengeObject(s)
  PROVE  \/ Shortens(s)
         \/ \E S, p : Settles(s, S, p) /\ (Stays(s, S, p) \/ Moves(s, S, p))
<1>1. Current(s) /\ ToScavenge(s)
  BY DEF ScavengeObject
<1>2. /\ s \in Slot /\ s \notin updated /\ target[s] \in Young
      /\ \/ slot = Nil /\ chain = {} /\ before[s] = target[s]
         \/ slot = s /\ before[s] \in chain /\ \E c \in chain : First(c) = target[s]
      /\ \A c \in chain : First(c) \in chain \cup {target[s]}
  BY <1>1, VisitFacts
<1>3. chain \subseteq Shortcut /\ chain \subseteq Young /\ \A c \in chain : forward[c] = Nil
  BY ObjectAssumption DEF Types, ChainInv
<1>4. before[s] \in Young /\ (slot # Nil => slot = s) /\ target[s] \in Object
  BY <1>2, <1>3 DEF Object
<1>5. CASE Forwarded(s)
  <2> DEFINE p == forward[target[s]]
  <2>1. p # Nil /\ p \in Object
    BY <1>2, <1>5 DEF Forwarded, Types
  <2>2. target[s] \notin chain
    BY <1>3, <2>1
  <2>3. Settle(s, chain, p) /\ Mark(s, p \in Young /\ where[p] = "to")
        /\ UNCHANGED <<where, region, copied, promoted>> /\ left' = left \ {s}
    BY <1>5 DEF Forwarded
  <2>4. p \in Young => where[p] # "from"
    BY <1>2 DEF PlaceInv
  <2>5. Stays(s, chain, p)
    BY <1>3, <2>3, <2>4 DEF Stays
  <2>6. \A x \in chain : First(x) \in chain \/ (First(x) \notin chain /\ p = NewAddress(First(x)))
    BY <1>2, <2>2 DEF NewAddress
  <2>7. before[s] \in chain \/ (before[s] \notin chain /\ forward[before[s]] = p)
    BY <1>2, <2>2
  <2>8. Settles(s, chain, p)
    BY <1>2, <1>3, <1>4, <2>1, <2>3, <2>6, <2>7 DEF Settles
  <2> QED
    BY <2>5, <2>8
<1>6. CASE forward[target[s]] = Nil /\ ShortcutOld(s)
  <2> DEFINE p == First(target[s])
             S == chain \cup {target[s]}
  <2>1. p \in Old /\ p \in Object /\ p \notin Young /\ target[s] \in Shortcut
    BY <1>6, SpaceAssumption DEF ShortcutOld, Object
  <2>2. Settle(s, S, p) /\ Mark(s, FALSE)
        /\ UNCHANGED <<where, region, copied, promoted>> /\ left' = left \ {s}
    BY <1>6 DEF ShortcutOld
  <2>3. Stays(s, S, p)
    <3>1. Mark(s, p \in Young /\ where[p] = "to")
      BY <2>1, <2>2 DEF Mark
    <3> QED
      BY <1>3, <2>1, <2>2, <3>1 DEF Stays
  <2>4. p = NewAddress(First(target[s])) /\ p \notin S
    BY <1>2, <1>3, <2>1 DEF NewAddress
  <2>5. \A x \in S : x \in Shortcut /\ forward[x] = Nil /\ x \in Young
                     /\ (First(x) \in S \/ (First(x) \notin S /\ p = NewAddress(First(x))))
    BY <1>2, <1>3, <1>6, <2>1, <2>4
  <2>6. before[s] \in S
    BY <1>2
  <2>7. Settles(s, S, p)
    BY <1>2, <1>4, <2>1, <2>2, <2>5, <2>6 DEF Settles
  <2> QED
    BY <2>3, <2>7
<1>7. CASE forward[target[s]] = Nil /\ EvacuateObject(s)
  <2> DEFINE p == target[s]
             S == chain \cup {target[s]}
  <2>1. p \notin Shortcut /\ Settle(s, S, p) /\ (Promote(s, p) \/ CopyToNewSpace(s, p))
    BY <1>7 DEF EvacuateObject, Migrated
  <2>2. where[p] = "from"
    BY <1>2, <1>7, <2>1 DEF PlaceInv
  <2>3. Fields(p) \subseteq FieldSlot
    BY <1>4, FieldFacts
  <2>4. Moves(s, S, p)
    <3>1. CASE CopyToNewSpace(s, p)
      <4>1. /\ where' = [where EXCEPT ![p] = "to"] /\ Mark(s, "to" = "to")
            /\ copied' = Append(copied, p) /\ promoted' = promoted /\ left' = left \ {s}
            /\ region' = region
        BY <3>1 DEF CopyToNewSpace
      <4>2. region \in [FieldSlot -> Region]
        BY DEF Types
      <4> QED
        BY <1>3, <2>1, <2>2, <4>1, <4>2 DEF Moves
    <3>2. CASE Promote(s, p)
      <4>1. /\ where' = [where EXCEPT ![p] = "old"] /\ Mark(s, "old" = "to")
            /\ copied' = copied
            /\ promoted' = IF IsPointerObject(p) THEN Append(promoted, p) ELSE promoted
        BY <3>2 DEF Promote
      <4>2. PICK f \in Regions(p) :
              region' = [x \in FieldSlot |-> IF x \in Fields(p) THEN f[x] ELSE region[x]]
        BY <3>2 DEF Promote
      <4>3. region' \in [FieldSlot -> Region] /\ \A t \in FieldSlot \ Fields(p) : region'[t] = region[t]
        BY <4>2 DEF Regions, Types
      <4>4. PICK from \in 1 .. FieldCount[p] + 1 : left' = (left \ {s}) \cup Ahead(p, from)
        BY <3>2 DEF Promote
      <4>5. left \ {s} \subseteq left' /\ left' \subseteq (left \ {s}) \cup Fields(p)
            /\ (stage # "dirty" => left' = left \ {s})
        BY <4>4 DEF Ahead
      <4> QED
        BY <1>3, <2>1, <2>2, <4>1, <4>3, <4>5 DEF Moves
    <3> QED
      BY <2>1, <3>1, <3>2
  <2>5. \A x \in S : /\ forward[x] = Nil /\ x \in Young
                     /\ IF x \in Shortcut THEN First(x) \in S ELSE p = x
    BY <1>2, <1>3, <1>7, <2>1
  <2>6. before[s] \in S
    BY <1>2
  <2>7. Settles(s, S, p)
    BY <1>2, <1>4, <2>1, <2>5, <2>6 DEF Settles
  <2> QED
    BY <2>4, <2>7
<1>8. CASE forward[target[s]] = Nil /\ ShortcutYoung(s)
  BY <1>2, <1>4, <1>8 DEF Shortens
<1> QED
  BY <1>5, <1>6, <1>7, <1>8 DEF ScavengeObject

\* The kinds of steps that the invariant is shown for.
LEMMA StepCases ==
  ASSUME Types, PlaceInv, SlotInv, ChainInv, VisitInv, [Next]_vars
  PROVE  \/ UNCHANGED vars
         \/ Write \/ StartScavenge
         \/ \E s \in left : Skip(s)
         \/ \E s \in left : Shortens(s)
         \/ \E s \in left : \E S, p : Settles(s, S, p) /\ Stays(s, S, p)
         \/ \E s \in left : \E S, p : Settles(s, S, p) /\ Moves(s, S, p)
         \/ IterateDirtyRegions \/ SetRegionMarks
         \/ SweepCopied \/ AllCopiedSwept \/ SweepPromoted \/ AllPromotedSwept
<1>1. CASE VisitSlot
  <2>1. PICK s \in left : Skip(s) \/ ScavengeObject(s)
    BY <1>1 DEF VisitSlot
  <2> QED
    BY <2>1, VisitCases
<1> QED
  BY <1>1 DEF Next, Scavenge

---------------------------------------------------------------------------
(* The parts of the invariant.                                                *)

\* Types are preserved by every step.
LEMMA TypesNext ==
  ASSUME Types, PlaceInv, SlotInv, ChainInv, VisitInv, [Next]_vars
  PROVE  Types'
<1> USE DEF Types
<1>0. Object \cup {Nil} # {} /\ Young \subseteq Object /\ Root \subseteq Slot /\ FieldSlot \subseteq Slot
  BY DEF Object, Slot
<1>1. CASE UNCHANGED vars
  BY <1>1 DEF vars, heapVars, moveVars, markVars, visitVars, tableVars
<1>2. CASE Write
  <2>1. PICK q, r \in Root : \E s \in FieldSlot :
          target' = [target EXCEPT ![s] = target[q]]
    BY <1>2 DEF Write
  <2>2. target' \in [Slot -> Object \cup {Nil}] /\ before' = target'
    BY <2>1, <1>0, <1>2 DEF Write
  <2> QED
    BY <1>2, <2>2 DEF Write, moveVars, visitVars
<1>3. CASE StartScavenge
  BY <1>0, <1>3 DEF StartScavenge, heapVars, moveVars, Stage
<1>4. ASSUME NEW s \in left, Skip(s) PROVE Types'
  BY <1>4 DEF Skip, heapVars, moveVars
<1>5. ASSUME NEW s \in left, Shortens(s) PROVE Types'
  <2>1. target[s] \in Shortcut /\ target' = [target EXCEPT ![s] = First(target[s])]
        /\ First(target[s]) \in Young /\ slot' = s /\ chain' = chain \cup {target[s]}
    BY <1>5 DEF Shortens, ShortcutYoung
  <2> QED
    BY <2>1, <1>0, <1>5 DEF Shortens, ShortcutYoung, moveVars
<1>6. ASSUME NEW s \in left, NEW S, NEW p, Settles(s, S, p) PROVE
        /\ target' \in [Slot -> Object \cup {Nil}] /\ before' \in [Slot -> Object \cup {Nil}]
        /\ forward' \in [Young -> Object \cup {Nil}]
        /\ updated' \subseteq Slot /\ slot' \in Slot \cup {Nil} /\ chain' \subseteq Shortcut
        /\ stage' \in Stage
  BY <1>0, <1>6 DEF Settles, Settle
<1>7. ASSUME NEW s \in left, NEW S, NEW p, Settles(s, S, p), Stays(s, S, p) PROVE Types'
  BY <1>6, <1>7 DEF Stays
<1>8. ASSUME NEW s \in left, NEW S, NEW p, Settles(s, S, p), Moves(s, S, p) PROVE Types'
  <2>1. p \in Young /\ Fields(p) \subseteq Slot
    BY <1>0, <1>8, FieldFacts DEF Settles, Moves
  <2>2. PICK space \in {"old", "to"} :
         /\ where' = [where EXCEPT ![p] = space]
         /\ left' \subseteq (left \ {s}) \cup Fields(p)
         /\ copied' = IF space = "to" THEN Append(copied, p) ELSE copied
         /\ promoted' = IF space = "old" /\ IsPointerObject(p) THEN Append(promoted, p) ELSE promoted
         /\ region' \in [FieldSlot -> Region]
    BY <1>8 DEF Moves
  <2> QED
    BY <1>0, <1>6, <1>8, <2>1, <2>2
<1>9. CASE IterateDirtyRegions
  <2>1. PICK S \in SUBSET {o \in Young : where[o] = "old"} : left' = DirtySlots(Old \cup S)
    BY <1>9 DEF IterateDirtyRegions
  <2>2. left' \subseteq Slot
    BY <1>0, <2>1, FieldFacts DEF DirtySlots, Object
  <2> QED
    BY <1>9, <2>2 DEF IterateDirtyRegions, heapVars, moveVars, Stage
<1>10. CASE SetRegionMarks
  BY <1>10 DEF SetRegionMarks, heapVars, moveVars, visitVars, Stage
<1>11. CASE SweepCopied
  <2>1. Head(copied) \in Young /\ Tail(copied) \in Seq(Young)
    BY <1>11, HeadTailProperties DEF SweepCopied
  <2>2. Fields(Head(copied)) \subseteq Slot
    BY <1>0, <2>1, FieldFacts
  <2> QED
    BY <1>11, <2>1, <2>2 DEF SweepCopied, heapVars
<1>12. CASE AllCopiedSwept
  BY <1>12 DEF AllCopiedSwept, heapVars, moveVars, visitVars, Stage
<1>13. CASE SweepPromoted
  <2>1. Head(promoted) \in Young /\ Tail(promoted) \in Seq(Young)
    BY <1>13, HeadTailProperties DEF SweepPromoted
  <2>2. Fields(Head(promoted)) \subseteq Slot
    BY <1>0, <2>1, FieldFacts
  <2> QED
    BY <1>13, <2>1, <2>2 DEF SweepPromoted, Remove, heapVars
<1>14. CASE AllPromotedSwept
  BY <1>14 DEF AllPromotedSwept, heapVars, moveVars, visitVars, Stage
<1> QED
  BY <1>1, <1>2, <1>3, <1>4, <1>5, <1>7, <1>8, <1>9, <1>10, <1>11, <1>12, <1>13, <1>14, StepCases

\* New addresses that were known do not change with a slot that is settled,
\* whose own is known then.
LEMMA SettledAddresses ==
  ASSUME Types, NEW s, NEW S, NEW p, Settles(s, S, p)
  PROVE  /\ \A x \in S : x \in Young /\ forward'[x] = p
         /\ \A x \in Young \ S : forward'[x] = forward[x]
         /\ \A b \in Object : NewAddress(b) # Nil => NewAddress(b)' = NewAddress(b)
         /\ \A o \in Shortcut : First(o)' = First(o) /\ First(o) \in Object \cup {Nil}
         /\ NewAddress(before[s])' = p
         /\ p # Nil /\ before' = before
<1>1. /\ forward' = [x \in Young |-> IF x \in S THEN p ELSE forward[x]] /\ before' = before
      /\ S \subseteq Young /\ p \in Object /\ \A x \in S : forward[x] = Nil
      /\ before[s] \in Young /\ (before[s] \in S \/ (before[s] \notin S /\ forward[before[s]] = p))
  BY DEF Settles, Settle
<1>2. \A o \in Shortcut : First(o)' = First(o) /\ First(o) \in Object \cup {Nil}
  BY <1>1, FirstSlot DEF Types, Slot, First
<1>3. \A b \in Object : NewAddress(b) # Nil => NewAddress(b)' = NewAddress(b)
  BY <1>1 DEF NewAddress
<1>4. NewAddress(before[s])' = p
  BY <1>1 DEF NewAddress
<1> QED
  BY <1>1, <1>2, <1>3, <1>4, SpaceAssumption

\* A step of the scavenge's own loops changes neither objects nor slots.
LEMMA StageSteps ==
  ASSUME \/ StartScavenge \/ (\E s \in left : Skip(s)) \/ IterateDirtyRegions \/ SetRegionMarks
         \/ SweepCopied \/ AllCopiedSwept \/ SweepPromoted \/ AllPromotedSwept \/ UNCHANGED vars
  PROVE  /\ UNCHANGED <<target, updated, before, where, forward, region, slot, chain>>
         /\ stage' # "mutator" \/ stage' = stage
  BY DEF StartScavenge, Skip, IterateDirtyRegions, SetRegionMarks, SweepCopied, AllCopiedSwept,
         SweepPromoted, AllPromotedSwept, vars, heapVars, moveVars, visitVars

\* Map words keep saying where objects are.
LEMMA PlaceNext ==
  ASSUME Types, PlaceInv, SlotInv, ChainInv, VisitInv, [Next]_vars
  PROVE  PlaceInv'
<1>1. ASSUME UNCHANGED <<before, where, forward>>, stage' # "mutator" \/ stage' = stage
      PROVE  PlaceInv'
  BY <1>1 DEF PlaceInv, NewAddress, First
<1>2. CASE Write
  <2>1. stage = "mutator" /\ where' = where /\ forward' = forward /\ stage' = stage
    BY <1>2 DEF Write, moveVars
  <2>2. \A o \in Young : forward[o] = Nil /\ Nil \notin Young
    BY <2>1, SpaceAssumption DEF PlaceInv, Object
  <2> QED
    BY <2>1, <2>2 DEF PlaceInv
<1>3. ASSUME NEW s \in left, Shortens(s) PROVE PlaceInv'
  BY <1>1, <1>3 DEF Shortens, ShortcutYoung, moveVars
<1>4. ASSUME NEW s \in left, NEW S, NEW p, Settles(s, S, p)
      PROVE  \A o \in Young : forward'[o] # Nil =>
               forward'[o] = IF o \in Shortcut THEN NewAddress(First(o))' ELSE o
  <2> SUFFICES ASSUME NEW o \in Young, forward'[o] # Nil
               PROVE  forward'[o] = IF o \in Shortcut THEN NewAddress(First(o))' ELSE o
    OBVIOUS
  <2>1. /\ \A x \in S : x \in Young /\ forward'[x] = p
        /\ \A x \in Young \ S : forward'[x] = forward[x]
        /\ \A b \in Object : NewAddress(b) # Nil => NewAddress(b)' = NewAddress(b)
        /\ \A x \in Shortcut : First(x)' = First(x) /\ First(x) \in Object \cup {Nil}
        /\ p # Nil
    BY <1>4, SettledAddresses
  <2>2. \A x \in Shortcut : NewAddress(First(x))' = IF First(x) \in Young THEN forward'[First(x)] ELSE First(x)
    BY <2>1 DEF NewAddress
  <2>3. CASE o \in S
    <3>1. IF o \in Shortcut THEN First(o) \in S \/ (First(o) \notin S /\ p = NewAddress(First(o)))
          ELSE p = o
      BY <1>4, <2>3 DEF Settles
    <3>2. CASE o \in Shortcut /\ First(o) \in S
      BY <2>1, <2>2, <2>3, <3>2
    <3>3. CASE o \in Shortcut /\ First(o) \notin S /\ p = NewAddress(First(o))
      BY <2>1, <2>2, <2>3, <3>3 DEF NewAddress
    <3> QED
      BY <2>1, <2>3, <3>1, <3>2, <3>3
  <2>4. CASE o \notin S
    <3>1. forward'[o] = forward[o]
      BY <2>1, <2>4
    <3>2. forward[o] = IF o \in Shortcut THEN NewAddress(First(o)) ELSE o
      BY <3>1 DEF PlaceInv
    <3>3. CASE o \in Shortcut
      <4>1. NewAddress(First(o)) # Nil
        BY <3>1, <3>2, <3>3
      <4>2. First(o) \in Object
        BY <2>1, <3>3, <4>1, SpaceAssumption DEF NewAddress, Object
      <4>3. NewAddress(First(o))' = NewAddress(First(o))
        <5>1. CASE First(o) \in Young
          BY <2>1, <2>2, <3>3, <4>1, <5>1, <1>4 DEF NewAddress, Settles
        <5>2. CASE First(o) \notin Young
          BY <2>2, <3>3, <5>2 DEF NewAddress
        <5> QED
          BY <5>1, <5>2
      <4> QED
        BY <3>1, <3>2, <3>3, <4>3
    <3> QED
      BY <3>1, <3>2, <3>3
  <2> QED
    BY <2>3, <2>4
<1>5. ASSUME NEW s \in left, NEW S, NEW p, Settles(s, S, p), Stays(s, S, p) PROVE PlaceInv'
  <2>1. /\ \A x \in S : x \in Young /\ forward'[x] = p
        /\ \A x \in Young \ S : forward'[x] = forward[x]
    BY <1>5, SettledAddresses
  <2>2. where' = where /\ S \subseteq Shortcut /\ (p \in Young => where[p] # "from") /\ stage' = stage
    BY <1>5 DEF Stays, Settles, Settle
  <2>3. stage # "mutator"
    BY <1>5 DEF VisitInv
  <2>4. \A o \in Young \ Shortcut : where'[o] = "from" <=> forward'[o] = Nil
    BY <2>1, <2>2 DEF PlaceInv
  <2>5. \A o \in Young : forward'[o] \in Young => where'[forward'[o]] # "from"
    BY <2>1, <2>2 DEF PlaceInv
  <2> QED
    BY <1>4, <1>5, <2>2, <2>3, <2>4, <2>5 DEF PlaceInv
<1>6. ASSUME NEW s \in left, NEW S, NEW p, Settles(s, S, p), Moves(s, S, p) PROVE PlaceInv'
  <2>1. /\ \A x \in S : x \in Young /\ forward'[x] = p
        /\ \A x \in Young \ S : forward'[x] = forward[x]
        /\ p # Nil
    BY <1>6, SettledAddresses
  <2>2. /\ p \in S \ Shortcut /\ S \subseteq Shortcut \cup {p} /\ stage' = stage /\ p \in Young
        /\ p \in Object /\ p \notin Old
    BY <1>6, SpaceAssumption DEF Moves, Settles, Settle, Object
  <2>3. PICK space \in {"old", "to"} : where' = [where EXCEPT ![p] = space]
    BY <1>6 DEF Moves
  <2>4. where'[p] = space /\ \A o \in Object \ {p} : where'[o] = where[o]
    BY <2>2, <2>3 DEF Types
  <2>5. stage # "mutator"
    BY <1>6 DEF VisitInv
  <2>6. \A o \in Young \ Shortcut : where'[o] = "from" <=> forward'[o] = Nil
    BY <2>1, <2>2, <2>4 DEF PlaceInv, Object
  <2>7. \A o \in Young : forward'[o] \in Young => where'[forward'[o]] # "from"
    BY <2>1, <2>2, <2>4 DEF PlaceInv, Object
  <2>8. /\ \A o \in Old : where'[o] = "old"
        /\ \A o \in Shortcut : where'[o] = "from"
    BY <2>2, <2>4, ObjectAssumption DEF PlaceInv, Object
  <2> QED
    BY <1>4, <1>6, <2>2, <2>5, <2>6, <2>7, <2>8 DEF PlaceInv
<1> QED
  BY <1>1, <1>2, <1>3, <1>5, <1>6, StepCases, StageSteps

\* Slots keep their old address or have the new one.
LEMMA SlotNext ==
  ASSUME Types, PlaceInv, SlotInv, ChainInv, VisitInv, [Next]_vars
  PROVE  SlotInv'
<1>1. ASSUME UNCHANGED <<target, updated, before, forward, slot>> PROVE SlotInv'
  BY <1>1 DEF SlotInv, NewAddress
<1>2. CASE Write
  <2>1. stage = "mutator" /\ updated' = updated /\ before' = target'
    BY <1>2 DEF Write
  <2> QED
    BY <2>1 DEF VisitInv, SlotInv
<1>3. ASSUME NEW s \in left, Shortens(s) PROVE SlotInv'
  <2>1. /\ target' = [target EXCEPT ![s] = First(target[s])] /\ slot' = s
        /\ UNCHANGED <<updated, before, forward>> /\ s \notin updated /\ (slot # Nil => slot = s)
    BY <1>3 DEF Shortens, ShortcutYoung, moveVars
  <2>2. \A t \in Slot \ {s} : target'[t] = target[t] /\ t # Nil
    BY <2>1, SpaceAssumption DEF Types
  <2>3. updated \subseteq Slot
    BY DEF Types
  <2> QED
    BY <2>1, <2>2, <2>3 DEF SlotInv, NewAddress
<1>4. ASSUME NEW s \in left, NEW S, NEW p, Settles(s, S, p) PROVE SlotInv'
  <2>1. /\ \A b \in Object : NewAddress(b) # Nil => NewAddress(b)' = NewAddress(b)
        /\ NewAddress(before[s])' = p /\ p # Nil /\ before' = before
    BY <1>4, SettledAddresses
  <2>2. /\ target' = [target EXCEPT ![s] = p] /\ updated' = updated \cup {s}
        /\ s \in Slot /\ before[s] \in Object /\ (slot # Nil => slot = s) /\ slot' = Nil
    BY <1>4 DEF Settles, Settle, Object
  <2>3. target'[s] = p /\ \A t \in Slot \ {s} : target'[t] = target[t] /\ t # Nil
    BY <2>2, SpaceAssumption DEF Types
  <2>4. \A t \in Slot : t \notin updated' /\ t # slot' => target'[t] = before'[t]
    BY <2>1, <2>2, <2>3 DEF SlotInv
  <2>5. ASSUME NEW t \in updated'
        PROVE  before'[t] \in Object /\ target'[t] = NewAddress(before[t])' /\ target'[t] # Nil
    <3>1. CASE t = s
      BY <2>1, <2>2, <2>3, <3>1
    <3>2. CASE t # s
      <4>1. t \in updated /\ t \in Slot
        BY <2>2, <3>2 DEF Types
      <4>2. before[t] \in Object /\ target[t] = NewAddress(before[t]) /\ target[t] # Nil
        BY <4>1 DEF SlotInv
      <4> QED
        BY <2>1, <2>3, <3>2, <4>1, <4>2
    <3> QED
      BY <3>1, <3>2
  <2> QED
    BY <2>4, <2>5 DEF SlotInv
<1> QED
  BY <1>1, <1>2, <1>3, <1>4, StepCases, StageSteps

\* The strings being short-cut keep leading to what the slot shows.
LEMMA ChainNext ==
  ASSUME Types, PlaceInv, SlotInv, ChainInv, VisitInv, [Next]_vars
  PROVE  ChainInv'
<1>0. UNCHANGED vars => ChainInv'
  BY DEF vars, heapVars, moveVars, visitVars, ChainInv, First
<1>1. ASSUME slot = Nil, UNCHANGED <<slot, chain>> PROVE ChainInv'
  BY <1>1 DEF ChainInv
<1>2. CASE Write
  <2>1. slot = Nil
    BY <1>2 DEF Write, VisitInv, ChainInv
  <2> QED
    BY <1>1, <1>2, <2>1 DEF Write, visitVars
<1>3. ASSUME NEW s \in left, Shortens(s) PROVE ChainInv'
  <2>1. /\ target' = [target EXCEPT ![s] = First(target[s])] /\ slot' = s
        /\ chain' = chain \cup {target[s]} /\ First(target[s]) \in Young
        /\ UNCHANGED <<updated, before, forward, left>> /\ s \in Slot \ updated /\ (slot # Nil => slot = s)
        /\ forward[target[s]] = Nil /\ before[s] \in chain \cup {target[s]}
    BY <1>3 DEF Shortens, ShortcutYoung, moveVars
  <2>2. target'[s] = First(target[s]) /\ \A c : First(c)' = First(c)
    BY <2>1 DEF Types, First
  <2>3. \A c \in chain : First(c) \in chain \cup {target[s]} /\ forward[c] = Nil
    BY <2>1 DEF ChainInv
  <2> QED
    BY <2>1, <2>2, <2>3, SpaceAssumption DEF ChainInv
<1>4. ASSUME NEW s \in left, NEW S, NEW p, Settles(s, S, p) PROVE ChainInv'
  BY <1>4 DEF Settles, Settle, ChainInv
<1>5. ASSUME NEW s \in left, Skip(s) PROVE ChainInv'
  <2>1. ~ToScavenge(s) /\ UNCHANGED <<slot, chain>> /\ (slot # Nil => s = slot)
    BY <1>5 DEF Skip, Current
  <2>2. slot = Nil
    BY <2>1 DEF ChainInv, ToScavenge, InNewSpace, InFromSpace
  <2> QED
    BY <1>1, <2>1, <2>2
<1>6. ASSUME left = {} PROVE slot = Nil
  BY <1>6 DEF ChainInv
<1>7. CASE StartScavenge
  BY <1>1, <1>6, <1>7 DEF StartScavenge, VisitInv
<1>8. CASE IterateDirtyRegions \/ SetRegionMarks \/ SweepCopied \/ AllCopiedSwept
            \/ SweepPromoted \/ AllPromotedSwept
  <2>1. left = {}
    BY <1>8 DEF IterateDirtyRegions, SetRegionMarks, SweepCopied, AllCopiedSwept, SweepPromoted,
                AllPromotedSwept, Visited
  <2> QED
    BY <1>1, <1>6, <1>8, <2>1, StageSteps
<1> QED
  BY <1>0, <1>2, <1>3, <1>4, <1>5, <1>7, <1>8, StepCases

\* Objects leave from-space only by a move.
LEMMA VisitNext ==
  ASSUME Types, PlaceInv, SlotInv, ChainInv, VisitInv, QueuesInv, [Next]_vars
  PROVE  VisitInv'
<1>0. UNCHANGED vars => VisitInv'
  BY DEF vars, heapVars, moveVars, visitVars, VisitInv, Owned
<1>1. CASE Write
  BY <1>1 DEF Write, moveVars, visitVars, VisitInv, Owned
<1>2. CASE StartScavenge
  <2>1. /\ stage' = "roots" /\ left' = Root /\ updated = {}
        /\ UNCHANGED <<updated, where, copied, promoted>>
    BY <1>2 DEF StartScavenge, heapVars, moveVars, VisitInv
  <2> QED
    BY <2>1, FieldFacts DEF VisitInv
<1>3. ASSUME NEW s \in left, Skip(s) PROVE VisitInv'
  <2>1. left' = left \ {s} /\ UNCHANGED <<stage, updated, where, copied, promoted>>
    BY <1>3 DEF Skip, heapVars, moveVars
  <2> QED
    BY <2>1 DEF VisitInv, Owned
<1>4. ASSUME NEW s \in left, Shortens(s) PROVE VisitInv'
  <2>1. UNCHANGED <<stage, updated, where, left, copied, promoted>>
    BY <1>4 DEF Shortens, ShortcutYoung, moveVars
  <2> QED
    BY <2>1 DEF VisitInv, Owned
<1>5. ASSUME NEW s \in left, NEW S, NEW p, Settles(s, S, p), Stays(s, S, p) PROVE VisitInv'
  <2>1. /\ left' = left \ {s} /\ updated' = updated \cup {s}
        /\ UNCHANGED <<stage, where, copied, promoted>>
    BY <1>5 DEF Settles, Settle, Stays
  <2> QED
    BY <2>1 DEF VisitInv, Owned
<1>6. ASSUME NEW s \in left, NEW S, NEW p, Settles(s, S, p), Moves(s, S, p) PROVE VisitInv'
  <2>1. /\ updated' = updated \cup {s} /\ stage' = stage /\ p \in Object /\ where[p] = "from"
    BY <1>6 DEF Settles, Settle, Moves
  <2>2. PICK space \in {"old", "to"} :
         /\ where' = [where EXCEPT ![p] = space]
         /\ left \ {s} \subseteq left' /\ left' \subseteq (left \ {s}) \cup Fields(p)
         /\ stage # "dirty" \/ space = "to" => left' = left \ {s}
    BY <1>6 DEF Moves
  <2>3. where'[p] = space /\ \A o \in Object \ {p} : where'[o] = where[o]
    BY <2>1, <2>2 DEF Types
  <2>4. \A t \in left \cup updated : t \in FieldSlot =>
          t[1] \in Object /\ t[1] # p /\ where'[t[1]] = where[t[1]] /\ where[t[1]] # "from"
    BY <2>1, <2>3, FieldFacts DEF VisitInv
  <2>5. \A t \in Fields(p) : t \in FieldSlot /\ t[1] = p /\ t \notin left \cup updated
    BY <2>1, <2>4, FieldFacts
  <2>6. \A t \in left' \cup updated' : t \in FieldSlot => where'[t[1]] # "from"
    BY <2>1, <2>2, <2>3, <2>4, <2>5
  <2>7. stage # "promoted" => \A t \in left' : t \notin updated'
    BY <2>1, <2>2, <2>5 DEF VisitInv
  <2>8. stage \in {"roots", "dirty", "copied", "promoted"}
    BY DEF Types, VisitInv, Stage
  <2>9. stage = "copied" => \A t \in left' : t \in FieldSlot /\ where'[t[1]] = "to"
    BY <2>2, <2>4 DEF VisitInv, Owned
  <2>10. stage = "promoted" => \A t \in left' : t \in FieldSlot /\ where'[t[1]] = "old"
    BY <2>2, <2>4 DEF VisitInv, Owned
  <2>11. stage = "dirty" => \A t \in left' : t \in FieldSlot /\ where'[t[1]] = "old"
    BY <2>2, <2>3, <2>4, <2>5 DEF VisitInv, Owned
  <2>12. stage = "roots" => left' \subseteq Root /\ updated' \subseteq Root
    BY <2>1, <2>2 DEF VisitInv
  <2> QED
    BY <2>1, <2>6, <2>7, <2>8, <2>9, <2>10, <2>11, <2>12 DEF VisitInv, Owned
<1>7. CASE IterateDirtyRegions
  <2>1. PICK S \in SUBSET {o \in Young : where[o] = "old"} : left' = DirtySlots(Old \cup S)
    BY <1>7 DEF IterateDirtyRegions
  <2>2. /\ stage = "roots" /\ stage' = "dirty" /\ UNCHANGED <<updated, where>>
    BY <1>7 DEF IterateDirtyRegions, heapVars, moveVars
  <2>3. \A o \in Old \cup S : o \in Object /\ where[o] = "old"
    BY <2>1 DEF PlaceInv, Object
  <2>4. \A t \in left' : t \in FieldSlot /\ where[t[1]] = "old" /\ t \notin Root
    BY <2>1, <2>3, FieldFacts DEF DirtySlots
  <2>5. updated \subseteq Root
    BY <2>2 DEF VisitInv
  <2> QED
    BY <2>2, <2>4, <2>5 DEF VisitInv, Owned
<1>8. CASE SetRegionMarks \/ AllCopiedSwept
  <2>1. left = {} /\ stage' \in {"copied", "promoted"} /\ UNCHANGED <<left, updated, where>>
    BY <1>8 DEF SetRegionMarks, AllCopiedSwept, Visited, heapVars, moveVars, visitVars
  <2> QED
    BY <2>1 DEF VisitInv, Owned
<1>9. CASE SweepCopied
  <2>1. /\ stage = "copied" /\ stage' = stage /\ copied # <<>> /\ left' = Fields(Head(copied))
        /\ UNCHANGED <<updated, where>>
    BY <1>9 DEF SweepCopied, heapVars
  <2>2. /\ Head(copied) = copied[1] /\ 1 \in 1 .. Len(copied) /\ copied[1] \in Object
    BY <2>1, HeadTailProperties, LenProperties DEF Types, Object
  <2>3. where[copied[1]] = "to" /\ \A t \in Fields(copied[1]) : t \notin left \cup updated
    BY <2>2 DEF QueuesInv
  <2>4. \A t \in left' : t \in FieldSlot /\ where[t[1]] = "to" /\ t \notin updated
    BY <2>1, <2>2, <2>3, FieldFacts
  <2> QED
    BY <2>1, <2>4 DEF VisitInv, Owned
<1>10. CASE SweepPromoted
  <2>1. /\ stage = "promoted" /\ stage' = stage /\ promoted # <<>> /\ left' = Fields(Head(promoted))
        /\ UNCHANGED <<updated, where>>
    BY <1>10 DEF SweepPromoted, heapVars
  <2>2. /\ Head(promoted) = promoted[1] /\ 1 \in 1 .. Len(promoted) /\ promoted[1] \in Object
    BY <2>1, HeadTailProperties, LenProperties DEF Types, Object
  <2>3. \A t \in left' : t \in FieldSlot /\ where[t[1]] = "old"
    BY <2>1, <2>2, FieldFacts DEF QueuesInv
  <2> QED
    BY <2>1, <2>3 DEF VisitInv, Owned
<1>11. CASE AllPromotedSwept
  <2>1. /\ left = {} /\ promoted = <<>> /\ stage' \in {"copied", "done"}
        /\ stage' = "done" => copied = <<>>
        /\ UNCHANGED <<left, updated, where, copied, promoted>>
    BY <1>11 DEF AllPromotedSwept, Visited, Unswept, heapVars, moveVars, visitVars
  <2> QED
    BY <2>1 DEF VisitInv, Owned
<1> QED
  BY <1>0, <1>1, <1>2, <1>3, <1>4, <1>5, <1>6, <1>7, <1>8, <1>9, <1>10, <1>11, StepCases

\* What is in a queue when an object is put at its end and when one is taken.
LEMMA QueuedAppend ==
  ASSUME NEW q \in Seq(Young), NEW o \in Young
  PROVE  /\ \A t : Queued(t, q) => Queued(t, Append(q, o))
         /\ \A t \in Fields(o) : Queued(t, Append(q, o))
<1>1. /\ Len(q) \in Nat /\ Len(Append(q, o)) = Len(q) + 1
      /\ \A i \in 1 .. Len(q) : Append(q, o)[i] = q[i]
      /\ Append(q, o)[Len(q) + 1] = o
  BY AppendProperties, LenProperties
<1> QED
  BY <1>1 DEF Queued

\* Taking the head of a queue leaves the others in it.
LEMMA QueuedTail ==
  ASSUME NEW q \in Seq(Young), q # <<>>
  PROVE  \A t : Queued(t, q) => t \in Fields(Head(q)) \/ Queued(t, Tail(q))
<1>1. /\ Len(q) \in Nat /\ Len(Tail(q)) = Len(q) - 1 /\ Head(q) = q[1]
      /\ \A i \in 1 .. Len(Tail(q)) : Tail(q)[i] = q[i + 1]
  BY HeadTailProperties, LenProperties
<1> SUFFICES ASSUME NEW t, NEW i \in 1 .. Len(q), t \in Fields(q[i]), i # 1
             PROVE  \E j \in 1 .. Len(Tail(q)) : t \in Fields(Tail(q)[j])
  BY <1>1 DEF Queued
<1>2. i - 1 \in 1 .. Len(Tail(q)) /\ Tail(q)[i - 1] = q[i]
  BY <1>1
<1> QED
  BY <1>2

\* The two queues keep holding moved objects, each copied one once.
LEMMA QueuesNext ==
  ASSUME Types, PlaceInv, SlotInv, ChainInv, VisitInv, QueuesInv, [Next]_vars
  PROVE  QueuesInv'
<1>0. /\ Len(copied) \in Nat /\ \A i \in 1 .. Len(copied) : copied[i] \in Young
      /\ Len(promoted) \in Nat /\ \A i \in 1 .. Len(promoted) : promoted[i] \in Young
      /\ Young \subseteq Object
  BY LenProperties DEF Types, Object
<1>1. ASSUME left' \subseteq left, UNCHANGED <<updated, where, copied, promoted>> PROVE QueuesInv'
  BY <1>1 DEF QueuesInv
<1>2. CASE Write
  <2>1. left = {} /\ copied = <<>> /\ promoted = <<>>
        /\ UNCHANGED <<left, updated, where, copied, promoted>>
    BY <1>2 DEF Write, VisitInv, moveVars, visitVars
  <2> QED
    BY <2>1, <1>1
<1>3. CASE StartScavenge
  <2>1. /\ copied = <<>> /\ promoted = <<>> /\ UNCHANGED <<copied, promoted>>
    BY <1>3 DEF StartScavenge, VisitInv, moveVars
  <2>2. Len(copied') = 0 /\ Len(promoted') = 0
    BY <2>1
  <2> QED
    BY <2>2 DEF QueuesInv
<1>4. ASSUME NEW s \in left, Skip(s) PROVE QueuesInv'
  BY <1>1, <1>4 DEF Skip, heapVars, moveVars
<1>5. ASSUME NEW s \in left, Shortens(s) PROVE QueuesInv'
  BY <1>1, <1>5 DEF Shortens, ShortcutYoung, moveVars
<1>6. ASSUME NEW s \in left, NEW S, NEW p, Settles(s, S, p), Stays(s, S, p) PROVE QueuesInv'
  <2>1. /\ left' = left \ {s} /\ updated' = updated \cup {s} /\ UNCHANGED <<where, copied, promoted>>
    BY <1>6 DEF Settles, Settle, Stays
  <2> QED
    BY <2>1 DEF QueuesInv
<1>7. ASSUME NEW s \in left, NEW S, NEW p, Settles(s, S, p), Moves(s, S, p) PROVE QueuesInv'
  <2>1. /\ updated' = updated \cup {s} /\ p \in Young /\ p \in Object /\ where[p] = "from"
    BY <1>7, <1>0 DEF Settles, Settle, Moves
  <2>2. PICK space \in {"old", "to"} :
         /\ where' = [where EXCEPT ![p] = space]
         /\ left' \subseteq (left \ {s}) \cup Fields(p)
         /\ stage # "dirty" \/ space = "to" => left' = left \ {s}
         /\ copied' = IF space = "to" THEN Append(copied, p) ELSE copied
         /\ promoted' = IF space = "old" /\ IsPointerObject(p) THEN Append(promoted, p) ELSE promoted
    BY <1>7 DEF Moves
  <2>3. where'[p] = space /\ \A o \in Object \ {p} : where'[o] = where[o]
    BY <2>1, <2>2 DEF Types
  <2>4. \A t \in Fields(p) : t \in FieldSlot /\ t[1] = p /\ t \notin left \cup updated
    BY <2>1, FieldFacts DEF VisitInv
  <2>5. \A i \in 1 .. Len(copied) : /\ copied[i] # p /\ where'[copied[i]] = "to"
                                    /\ \A t \in Fields(copied[i]) : t \notin left' \cup updated'
    <3> SUFFICES ASSUME NEW i \in 1 .. Len(copied)
                 PROVE  /\ copied[i] # p /\ where'[copied[i]] = "to"
                        /\ \A t \in Fields(copied[i]) : t \notin left' \cup updated'
      OBVIOUS
    <3>1. where[copied[i]] = "to" /\ copied[i] \in Object
      BY <1>0 DEF QueuesInv
    <3>2. copied[i] # p /\ where'[copied[i]] = "to"
      BY <2>1, <2>3, <3>1
    <3>3. \A t \in Fields(copied[i]) : t \notin left \cup updated /\ t \notin Fields(p)
      BY <2>1, <3>1, <3>2, FieldFacts DEF QueuesInv
    <3> QED
      BY <2>1, <2>2, <3>2, <3>3
  <2>6. \A i \in 1 .. Len(promoted) : where'[promoted[i]] = "old"
    BY <1>0, <2>1, <2>3 DEF QueuesInv
  <2>7. CASE space = "to"
    <3>1. /\ copied' = Append(copied, p) /\ promoted' = promoted /\ left' = left \ {s}
      BY <2>2, <2>7
    <3>2. /\ Len(copied') = Len(copied) + 1 /\ copied'[Len(copied) + 1] = p
          /\ \A i \in 1 .. Len(copied) : copied'[i] = copied[i]
      BY <2>1, <3>1, AppendProperties DEF Types
    <3>3. \A i \in 1 .. Len(copied') : i \in 1 .. Len(copied) \/ i = Len(copied) + 1
      BY <1>0, <3>2
    <3>4. \A t \in Fields(p) : t \notin left' \cup updated'
      <4>1. s \in left
        BY <1>7
      <4> QED
        BY <2>1, <2>4, <3>1, <4>1
    <3>5. \A i \in 1 .. Len(copied') : /\ where'[copied'[i]] = "to"
                                       /\ \A t \in Fields(copied'[i]) : t \notin left' \cup updated'
      BY <2>3, <2>5, <2>7, <3>2, <3>3, <3>4
    <3>6. \A i, j \in 1 .. Len(copied') : copied'[i] = copied'[j] => i = j
      BY <2>5, <3>2, <3>3 DEF QueuesInv
    <3> QED
      BY <2>6, <3>1, <3>5, <3>6 DEF QueuesInv
  <2>8. CASE space = "old"
    <3>1. copied' = copied
      BY <2>2, <2>8
    <3>2. \A i \in 1 .. Len(promoted') : where'[promoted'[i]] = "old"
      <4>1. CASE IsPointerObject(p)
        <5>1. promoted' = Append(promoted, p)
          BY <2>2, <2>8, <4>1
        <5>2. /\ Len(promoted') = Len(promoted) + 1 /\ promoted'[Len(promoted) + 1] = p
              /\ \A i \in 1 .. Len(promoted) : promoted'[i] = promoted[i]
          BY <2>1, <5>1, AppendProperties DEF Types
        <5>3. \A i \in 1 .. Len(promoted') : i \in 1 .. Len(promoted) \/ i = Len(promoted) + 1
          BY <1>0, <5>2
        <5> QED
          BY <2>3, <2>6, <2>8, <5>2, <5>3
      <4>2. CASE ~IsPointerObject(p)
        BY <2>2, <2>6, <4>2
      <4> QED
        BY <4>1, <4>2
    <3> QED
      BY <2>5, <3>1, <3>2 DEF QueuesInv
  <2> QED
    BY <2>7, <2>8
<1>8. CASE IterateDirtyRegions
  <2>1. PICK S \in SUBSET {o \in Young : where[o] = "old"} : left' = DirtySlots(Old \cup S)
    BY <1>8 DEF IterateDirtyRegions
  <2>2. UNCHANGED <<updated, where, copied, promoted>>
    BY <1>8 DEF IterateDirtyRegions, heapVars, moveVars
  <2>3. \A o \in Old \cup S : o \in Object /\ where[o] = "old"
    BY <2>1 DEF PlaceInv, Object
  <2>4. \A t \in left' : where[t[1]] = "old"
    BY <2>1, <2>3, FieldFacts DEF DirtySlots
  <2>5. \A i \in 1 .. Len(copied) : \A t \in Fields(copied[i]) : t \notin left'
    BY <2>4, <1>0, FieldFacts DEF QueuesInv
  <2> QED
    BY <2>2, <2>5 DEF QueuesInv
<1>9. CASE SetRegionMarks \/ AllCopiedSwept \/ AllPromotedSwept \/ UNCHANGED vars
  BY <1>1, <1>9 DEF SetRegionMarks, AllCopiedSwept, AllPromotedSwept, vars, heapVars, moveVars, visitVars
<1>10. CASE SweepCopied
  <2>1. /\ copied # <<>> /\ left' = Fields(Head(copied)) /\ copied' = Tail(copied)
        /\ UNCHANGED <<updated, where, promoted>>
    BY <1>10 DEF SweepCopied, heapVars
  <2>2. /\ Head(copied) = copied[1] /\ Len(copied') = Len(copied) - 1
        /\ \A i \in 1 .. Len(copied') : copied'[i] = copied[i + 1]
    BY <2>1, HeadTailProperties DEF Types
  <2>3. \A i \in 1 .. Len(copied') : i + 1 \in 1 .. Len(copied) /\ i + 1 # 1 /\ 1 \in 1 .. Len(copied)
    BY <1>0, <2>2
  <2>4. \A i \in 1 .. Len(copied') : copied[i + 1] # copied[1]
    BY <2>3 DEF QueuesInv
  <2>5. \A i \in 1 .. Len(copied') : \A t \in Fields(copied'[i]) : t \notin left'
    BY <1>0, <2>1, <2>2, <2>3, <2>4, FieldFacts
  <2>6. \A i \in 1 .. Len(copied') : /\ where'[copied'[i]] = "to"
                                     /\ \A t \in Fields(copied'[i]) : t \notin left' \cup updated'
    BY <2>1, <2>2, <2>3, <2>5 DEF QueuesInv
  <2>7. ASSUME NEW i \in 1 .. Len(copied'), NEW j \in 1 .. Len(copied'), copied'[i] = copied'[j]
        PROVE  i = j
    <3>1. i + 1 = j + 1
      BY <2>2, <2>3, <2>7 DEF QueuesInv
    <3> QED
      BY <3>1
  <2> QED
    BY <2>1, <2>6, <2>7 DEF QueuesInv
<1>11. CASE SweepPromoted
  <2>1. /\ promoted # <<>> /\ left' = Fields(Head(promoted)) /\ promoted' = Tail(promoted)
        /\ UNCHANGED <<updated, where, copied>>
    BY <1>11 DEF SweepPromoted, Remove, heapVars
  <2>2. /\ Head(promoted) = promoted[1] /\ Len(promoted') = Len(promoted) - 1
        /\ \A i \in 1 .. Len(promoted') : promoted'[i] = promoted[i + 1]
    BY <2>1, HeadTailProperties DEF Types
  <2>3. Len(promoted) # 0
    BY <2>1 DEF Types
  <2>4. \A i \in 1 .. Len(promoted') : i + 1 \in 1 .. Len(promoted)
    BY <1>0, <2>2
  <2>5. 1 \in 1 .. Len(promoted)
    BY <1>0, <2>3
  <2>6. \A t \in left' : where[t[1]] = "old"
    BY <1>0, <2>1, <2>2, <2>5, FieldFacts DEF QueuesInv
  <2>7. \A i \in 1 .. Len(copied) : \A t \in Fields(copied[i]) : t \notin left'
    BY <1>0, <2>6, FieldFacts DEF QueuesInv
  <2> QED
    BY <2>1, <2>2, <2>4, <2>7 DEF QueuesInv
<1> QED
  BY <1>2, <1>3, <1>4, <1>5, <1>6, <1>7, <1>8, <1>9, <1>10, <1>11, StepCases

\* Objects are never made live by anything but a move.
LEMMA LiveSlotFacts ==
  /\ \A t : t \in LiveSlots <=> t \in Root \/ (t \in FieldSlot /\ where[t[1]] # "from")
  /\ \A t : t \in OldSlots <=> t \in FieldSlot /\ where[t[1]] = "old"
  BY FieldFacts DEF LiveSlots, OldSlots

\* A pointer to from-space in what is kept stays to be visited.
LEMMA PendingNext ==
  ASSUME Types, PlaceInv, SlotInv, ChainInv, VisitInv, QueuesInv, PendingInv, MarkInv, [Next]_vars
  PROVE  PendingInv'
<1>0. \A t : t \in LiveSlots' <=> t \in Root \/ (t \in FieldSlot /\ where'[t[1]] # "from")
  BY FieldFacts DEF LiveSlots
<1>1. ASSUME UNCHANGED <<target, updated, where, stage>>, stage # "mutator",
             NEW s, ~InFromSpace(s), left \ {s} \subseteq left', UNCHANGED <<copied, promoted>>
      PROVE  PendingInv'
  BY <1>1 DEF PendingInv, LiveSlots, InFromSpace, Pending, Queued
<1>2. CASE Write
  BY <1>2 DEF Write, PendingInv
<1>3. CASE StartScavenge
  <2>1. /\ stage = "mutator" /\ stage' = "roots" /\ left' = Root /\ where' = where
    BY <1>3 DEF StartScavenge, moveVars
  <2>2. \A o \in Young : where[o] = "from"
    BY <2>1 DEF PlaceInv
  <2>3. \A t \in LiveSlots' : t \in Root \/ (t \in FieldSlot /\ t[1] \in Old)
    BY <1>0, <2>1, <2>2, FieldFacts DEF Object
  <2> QED
    BY <2>1, <2>3 DEF PendingInv, Pending
<1>4. ASSUME NEW s \in left, Skip(s) PROVE PendingInv'
  <2>1. ~InFromSpace(s)
    BY <1>4 DEF Skip, ToScavenge, InNewSpace
  <2>2. stage # "mutator"
    BY <1>4 DEF VisitInv
  <2> QED
    BY <1>1, <1>4, <2>1, <2>2 DEF Skip, heapVars, moveVars
<1>5. ASSUME NEW s \in left, Shortens(s) PROVE PendingInv'
  <2>1. /\ target' = [target EXCEPT ![s] = First(target[s])] /\ s \in Slot /\ stage # "mutator"
        /\ UNCHANGED <<stage, updated, where, left, copied, promoted>>
    BY <1>5 DEF Shortens, ShortcutYoung, moveVars, VisitInv
  <2>2. \A t \in LiveSlots' : t \in Slot /\ t \in LiveSlots
    BY <1>0, <2>1, LiveSlotFacts, FieldFacts
  <2>3. \A t \in Slot \ {s} : target'[t] = target[t]
    BY <2>1 DEF Types
  <2>4. \A t : Pending(t) <=> Pending(t)'
    BY <2>1 DEF Pending, Queued
  <2>5. s \in left'
    BY <1>5, <2>1
  <2> QED
    BY <2>1, <2>2, <2>3, <2>4, <2>5 DEF PendingInv, InFromSpace, Pending
<1>6. ASSUME NEW s \in left, NEW S, NEW p, Settles(s, S, p)
      PROVE  /\ stage' = stage /\ stage # "mutator"
             /\ \A t \in Slot : InFromSpace(t)' => t # s /\ InFromSpace(t)
  <2>1. /\ target' = [target EXCEPT ![s] = p] /\ updated' = updated \cup {s} /\ stage' = stage
    BY <1>6 DEF Settles, Settle
  <2>2. \A t \in Slot \ {s} : target'[t] = target[t]
    BY <2>1 DEF Types
  <2>3. stage # "mutator"
    BY <1>6 DEF VisitInv
  <2> QED
    BY <2>1, <2>2, <2>3 DEF InFromSpace
<1>7. ASSUME NEW s \in left, NEW S, NEW p, Settles(s, S, p), Stays(s, S, p) PROVE PendingInv'
  <2>1. left' = left \ {s} /\ UNCHANGED <<where, copied, promoted>>
    BY <1>7 DEF Stays
  <2>2. \A t \in LiveSlots' : t \in Slot /\ t \in LiveSlots
    BY <1>0, <2>1, LiveSlotFacts, FieldFacts
  <2>3. \A t : t # s /\ Pending(t) => Pending(t)'
    BY <1>6, <1>7, <2>1 DEF Pending, Queued
  <2> QED
    BY <1>6, <1>7, <2>2, <2>3 DEF PendingInv
<1>8. ASSUME NEW s \in left, NEW S, NEW p, Settles(s, S, p), Moves(s, S, p) PROVE PendingInv'
  <2>1. p \in Young /\ p \in Object /\ where[p] = "from"
    BY <1>8 DEF Settles, Moves, Object
  <2>2. PICK space \in {"old", "to"} :
         /\ where' = [where EXCEPT ![p] = space]
         /\ left \ {s} \subseteq left'
         /\ copied' = IF space = "to" THEN Append(copied, p) ELSE copied
         /\ promoted' = IF space = "old" /\ IsPointerObject(p) THEN Append(promoted, p) ELSE promoted
    BY <1>8 DEF Moves
  <2>3. \A o \in Object \ {p} : where'[o] = where[o]
    BY <2>1, <2>2 DEF Types
  <2>4. \A t : /\ Queued(t, copied) => Queued(t, copied')
               /\ Queued(t, promoted) => Queued(t, promoted')
    BY <2>1, <2>2, QueuedAppend DEF Types
  <2>5. \A t : t # s /\ Pending(t) => Pending(t)'
    <3> SUFFICES ASSUME NEW t, t # s, Pending(t) PROVE Pending(t)'
      OBVIOUS
    <3>1. Queued(t, copied)' <=> Queued(t, copied')
      BY DEF Queued
    <3>2. Queued(t, promoted)' <=> Queued(t, promoted')
      BY DEF Queued
    <3> QED
      BY <1>6, <1>8, <2>2, <2>4, <3>1, <3>2 DEF Pending
  <2>6. ASSUME NEW t \in Fields(p) PROVE Pending(t)'
    <3>1. t \in FieldSlot /\ t[1] = p
      BY <2>1, FieldFacts
    <3>2. IsPointerObject(p)
      BY <3>1, FieldFacts DEF IsPointerObject
    <3>3. CASE space = "to"
      <4>1. Queued(t, copied')
        BY <2>1, <2>2, <3>3, QueuedAppend DEF Types
      <4> QED
        BY <4>1 DEF Pending, Queued
    <3>4. CASE space = "old"
      <4>1. Queued(t, promoted')
        BY <2>1, <2>2, <3>2, <3>4, QueuedAppend DEF Types
      <4> QED
        BY <4>1 DEF Pending, Queued
    <3> QED
      BY <3>3, <3>4
  <2>7. \A t \in LiveSlots' : t \in Slot /\ (t \in LiveSlots \/ t \in Fields(p))
    <3> TAKE t \in LiveSlots'
    <3>1. CASE t \in Root
      BY <3>1, LiveSlotFacts, FieldFacts
    <3>2. CASE t \in FieldSlot /\ where'[t[1]] # "from"
      <4>1. t[1] \in Object /\ t \in Fields(t[1]) /\ t \in Slot
        BY <3>2, FieldFacts
      <4> QED
        BY <2>3, <3>2, <4>1, LiveSlotFacts
    <3> QED
      BY <1>0, <3>1, <3>2
  <2> QED
    BY <1>6, <1>8, <2>5, <2>6, <2>7 DEF PendingInv
<1>9. CASE IterateDirtyRegions
  <2>1. PICK S \in SUBSET {o \in Young : where[o] = "old"} : left' = DirtySlots(Old \cup S)
    BY <1>9 DEF IterateDirtyRegions
  <2>2. /\ stage = "roots" /\ stage' = "dirty" /\ left = {}
        /\ UNCHANGED <<target, updated, where, copied, promoted>>
    BY <1>9 DEF IterateDirtyRegions, heapVars, moveVars, Visited
  <2> SUFFICES ASSUME NEW t \in LiveSlots, InFromSpace(t) PROVE Pending(t)'
    BY <2>2 DEF PendingInv, LiveSlots, InFromSpace
  <2>3. \/ Queued(t, copied) \/ Queued(t, promoted)
        \/ t \in FieldSlot /\ t[1] \in Old
    BY <2>2 DEF PendingInv, Pending
  <2>4. CASE t \in FieldSlot /\ t[1] \in Old
    <3>1. region[t] \in marks
      BY <2>2, <2>4 DEF MarkInv, InFromSpace
    <3>2. t \in left'
      BY <2>1, <2>4, <3>1, FieldFacts DEF DirtySlots
    <3> QED
      BY <3>2 DEF Pending
  <2> QED
    BY <2>2, <2>3, <2>4 DEF Pending, Queued
<1>10. CASE SetRegionMarks \/ AllCopiedSwept \/ AllPromotedSwept
  <2>1. /\ stage \in {"dirty", "copied", "promoted"} /\ stage' # "mutator"
        /\ UNCHANGED <<target, updated, where, left, copied, promoted>>
    BY <1>10 DEF SetRegionMarks, AllCopiedSwept, AllPromotedSwept, heapVars, moveVars, visitVars
  <2> QED
    BY <2>1 DEF PendingInv, LiveSlots, InFromSpace, Pending, Queued
<1>11. CASE SweepCopied
  <2>1. /\ stage = "copied" /\ stage' = stage /\ left = {} /\ copied # <<>>
        /\ left' = Fields(Head(copied)) /\ copied' = Tail(copied)
        /\ UNCHANGED <<target, updated, where, promoted>>
    BY <1>11 DEF SweepCopied, heapVars, Visited
  <2>2. \A t : Queued(t, copied) => t \in left' \/ Queued(t, copied')
    BY <2>1, QueuedTail DEF Types
  <2>3. \A t : Pending(t) => Pending(t)'
    <3> TAKE t
    <3>1. Queued(t, copied)' <=> Queued(t, copied')
      BY DEF Queued
    <3>2. Queued(t, promoted)' <=> Queued(t, promoted)
      BY <2>1 DEF Queued
    <3> QED
      BY <2>1, <2>2, <3>1, <3>2 DEF Pending
  <2> QED
    BY <2>1, <2>3 DEF PendingInv, LiveSlots, InFromSpace
<1>12. CASE SweepPromoted
  <2>1. /\ stage = "promoted" /\ stage' = stage /\ left = {} /\ promoted # <<>>
        /\ left' = Fields(Head(promoted)) /\ promoted' = Tail(promoted)
        /\ UNCHANGED <<target, updated, where, copied>>
    BY <1>12 DEF SweepPromoted, Remove, heapVars, Visited
  <2>2. \A t : Queued(t, promoted) => t \in left' \/ Queued(t, promoted')
    BY <2>1, QueuedTail DEF Types
  <2>3. \A t : Pending(t) => Pending(t)'
    <3> TAKE t
    <3>1. Queued(t, promoted)' <=> Queued(t, promoted')
      BY DEF Queued
    <3>2. Queued(t, copied)' <=> Queued(t, copied)
      BY <2>1 DEF Queued
    <3> QED
      BY <2>1, <2>2, <3>1, <3>2 DEF Pending
  <2> QED
    BY <2>1, <2>3 DEF PendingInv, LiveSlots, InFromSpace
<1>13. CASE UNCHANGED vars
  BY <1>13 DEF PendingInv, LiveSlots, InFromSpace, Pending, Queued, vars, heapVars, moveVars, visitVars
<1> QED
  BY <1>2, <1>3, <1>4, <1>5, <1>7, <1>8, <1>9, <1>10, <1>11, <1>12, <1>13, StepCases

\* A slot that gets the new address of an object in to-space marks its region,
\* and no object comes to to-space that a slot has the new address of already.
LEMMA MarkNext ==
  ASSUME Types, PlaceInv, SlotInv, ChainInv, VisitInv, MarkInv, [Next]_vars
  PROVE  MarkInv'
<1>0. UNCHANGED vars => MarkInv'
  BY DEF vars, heapVars, moveVars, markVars, MarkInv, Owned, InToSpace
<1>1. CASE Write
  <2>1. PICK q, r \in Root : \E s \in FieldSlot :
          /\ target' = [target EXCEPT ![s] = target[q]] /\ marks' = RecordWrite(s)
    BY <1>1 DEF Write
  <2>2. PICK s \in FieldSlot : target' = [target EXCEPT ![s] = target[q]] /\ marks' = RecordWrite(s)
    BY <2>1
  <2>3. stage = "mutator" /\ stage' = stage /\ region' = region
    BY <1>1 DEF Write, moveVars
  <2>4. \A t \in FieldSlot \ {s} : target'[t] = target[t]
    BY <2>2 DEF Types, Slot
  <2>5. marks \subseteq marks' /\ (s[1] \in Old => region[s] \in marks')
    BY <2>2 DEF RecordWrite, PlaceInv
  <2> QED
    BY <2>3, <2>4, <2>5 DEF MarkInv
<1>2. CASE StartScavenge
  BY <1>2 DEF StartScavenge, MarkInv, heapVars, moveVars, markVars
<1>3. ASSUME NEW s \in left, Skip(s) PROVE MarkInv'
  BY <1>3 DEF Skip, MarkInv, Owned, InToSpace, heapVars, moveVars, markVars
<1>4. ASSUME NEW s \in left, Shortens(s) PROVE MarkInv'
  <2>1. /\ target' = [target EXCEPT ![s] = First(target[s])] /\ s \in Slot \ updated
        /\ UNCHANGED <<stage, updated, where, region, marks, newmarks>>
    BY <1>4 DEF Shortens, ShortcutYoung, moveVars, markVars
  <2>2. \A t \in Slot \ {s} : target'[t] = target[t]
    BY <2>1 DEF Types
  <2>3. updated \subseteq Slot
    BY DEF Types
  <2>4. stage # "mutator" /\ (stage = "roots" => s \in Root)
    BY <1>4 DEF VisitInv
  <2>5. stage = "roots" => \A t \in FieldSlot : target'[t] = target[t]
    BY <2>2, <2>4, FieldFacts
  <2> QED
    BY <2>1, <2>2, <2>3, <2>4, <2>5 DEF MarkInv, Owned, InToSpace
<1>5. ASSUME NEW s \in left, NEW S, NEW p, Settles(s, S, p)
      PROVE  /\ \A t \in Slot \ {s} : target'[t] = target[t]
             /\ target'[s] = p /\ updated' = updated \cup {s} /\ stage' = stage /\ s \notin updated
             /\ stage \in {"roots", "dirty", "copied", "promoted"}
             /\ stage = "roots" => s \in Root
             /\ stage = "copied" => s \in FieldSlot /\ where[s[1]] = "to"
             /\ updated \subseteq Slot
  <2>1. target' = [target EXCEPT ![s] = p] /\ updated' = updated \cup {s} /\ stage' = stage /\ s \in Slot
        /\ s \notin updated
    BY <1>5 DEF Settles, Settle
  <2>2. target'[s] = p /\ \A t \in Slot \ {s} : target'[t] = target[t]
    BY <2>1 DEF Types
  <2>3. stage \in {"roots", "dirty", "copied", "promoted"}
    BY <1>5 DEF Types, VisitInv, Stage
  <2> QED
    BY <1>5, <2>1, <2>2, <2>3 DEF Types, VisitInv, Owned
<1>6. ASSUME NEW s \in left, NEW new, Mark(s, new)
      PROVE  /\ marks \subseteq marks' /\ newmarks \subseteq newmarks'
             /\ stage # "promoted" => marks' = marks
             /\ stage = "promoted" /\ new => region[s] \in marks'
             /\ stage = "dirty" /\ new => region[s] \in newmarks'
  BY <1>6 DEF Mark, RegionMask
<1>7. ASSUME NEW s \in left, NEW S, NEW p, Settles(s, S, p), Stays(s, S, p) PROVE MarkInv'
  <2>1. where' = where /\ region' = region /\ Mark(s, p \in Young /\ where[p] = "to")
    BY <1>7 DEF Stays
  <2>2. stage' = "roots" => \A t \in FieldSlot : t[1] \in Old /\ target'[t] \in Young => region'[t] \in marks'
    <3>1. stage = "roots" => \A t \in FieldSlot : t \in Slot \ {s}
      BY <1>5, <1>7, FieldFacts
    <3> QED
      BY <1>5, <1>6, <1>7, <2>1, <3>1 DEF MarkInv
  <2>3. \A t \in updated : Owned(t, "old")' /\ InToSpace(t)' => Owned(t, "old") /\ InToSpace(t)
    BY <1>5, <1>7, <2>1 DEF Owned, InToSpace
  <2>4. InToSpace(s)' => p \in Young /\ where[p] = "to"
    BY <1>5, <1>7, <2>1 DEF InToSpace
  <2>5. ASSUME stage' = "dirty", NEW t \in updated', Owned(t, "old")', InToSpace(t)'
        PROVE  region'[t] \in newmarks'
    <3>1. stage = "dirty" /\ newmarks \subseteq newmarks' /\ (InToSpace(s)' => region[s] \in newmarks')
      BY <1>5, <1>6, <1>7, <2>1, <2>4, <2>5
    <3>2. CASE t = s
      BY <2>1, <2>5, <3>1, <3>2
    <3>3. CASE t # s
      <4>1. t \in updated
        BY <1>5, <1>7, <3>3
      <4> QED
        BY <2>1, <2>3, <2>5, <3>1, <4>1 DEF MarkInv
    <3> QED
      BY <3>2, <3>3
  <2>6. ASSUME stage' \in {"copied", "promoted", "done"}, NEW t \in updated', Owned(t, "old")', InToSpace(t)'
        PROVE  region'[t] \in marks'
    <3>1. /\ stage \in {"copied", "promoted", "done"} /\ marks \subseteq marks'
          /\ InToSpace(s)' /\ Owned(s, "old")' => region[s] \in marks'
      <4>1. Owned(s, "old")' => stage # "copied"
        BY <1>5, <1>7, <2>1 DEF Owned
      <4> QED
        BY <1>5, <1>6, <1>7, <2>1, <2>4, <2>6, <4>1
    <3>2. CASE t = s
      BY <2>1, <2>6, <3>1, <3>2
    <3>3. CASE t # s
      <4>1. t \in updated
        BY <1>5, <1>7, <3>3
      <4> QED
        BY <2>1, <2>3, <2>6, <3>1, <4>1 DEF MarkInv
    <3> QED
      BY <3>2, <3>3
  <2> QED
    BY <1>5, <1>7, <2>2, <2>5, <2>6 DEF MarkInv
<1>8. ASSUME NEW s \in left, NEW S, NEW p, Settles(s, S, p), Moves(s, S, p) PROVE MarkInv'
  <2>1. p \in Young /\ p \in Object /\ p \notin Old /\ where[p] = "from" /\ forward[p] = Nil /\ p \notin Shortcut
    BY <1>8, SpaceAssumption DEF Settles, Moves, Object
  <2>2. PICK space \in {"old", "to"} :
         /\ where' = [where EXCEPT ![p] = space]
         /\ Mark(s, space = "to")
         /\ \A t \in FieldSlot \ Fields(p) : region'[t] = region[t]
    BY <1>8 DEF Moves
  <2>3. where'[p] = space /\ \A o \in Object \ {p} : where'[o] = where[o]
    BY <2>1, <2>2 DEF Types
  <2>4. \A t \in left \cup updated : t \in FieldSlot => where'[t[1]] = where[t[1]] /\ region'[t] = region[t]
    BY <2>1, <2>2, <2>3, FieldFacts DEF VisitInv
  <2>5. \A t \in FieldSlot : t[1] \in Old => region'[t] = region[t]
    BY <2>1, <2>2, FieldFacts
  <2>6. \A t \in updated : target[t] # p
    <3> SUFFICES ASSUME NEW t \in updated, target[t] = p PROVE FALSE
      OBVIOUS
    <3>1. before[t] \in Object /\ p = NewAddress(before[t])
      BY DEF SlotInv
    <3>2. before[t] \in Young /\ forward[before[t]] = p
      BY <2>1, <3>1 DEF NewAddress, Object
    <3> QED
      BY <2>1, <3>2 DEF PlaceInv
  <2>7. \A t \in updated : Owned(t, "old")' /\ InToSpace(t)' => Owned(t, "old") /\ InToSpace(t)
    <3> SUFFICES ASSUME NEW t \in updated, Owned(t, "old")', InToSpace(t)'
                 PROVE  Owned(t, "old") /\ InToSpace(t)
      OBVIOUS
    <3>1. target'[t] = target[t] /\ target[t] # p
      BY <1>5, <1>8, <2>6
    <3>2. target[t] \in Young /\ target[t] \in Object /\ where[target[t]] = "to"
      BY <2>3, <3>1 DEF InToSpace, Object
    <3>3. t \in FieldSlot /\ where[t[1]] = "old"
      BY <2>4 DEF Owned
    <3> QED
      BY <3>2, <3>3 DEF Owned, InToSpace
  <2>8. InToSpace(s)' => space = "to"
    BY <1>5, <1>8, <2>3 DEF InToSpace
  <2>9. stage' = "roots" => \A t \in FieldSlot : t[1] \in Old /\ target'[t] \in Young => region'[t] \in marks'
    <3>1. stage = "roots" => \A t \in FieldSlot : t \in Slot \ {s}
      BY <1>5, <1>8, FieldFacts
    <3> QED
      BY <1>5, <1>6, <1>8, <2>2, <2>5, <3>1 DEF MarkInv
  <2>10. Owned(s, "old")' => stage # "copied" /\ region'[s] = region[s]
    <3>1. s \in FieldSlot => where'[s[1]] = where[s[1]] /\ region'[s] = region[s]
      BY <1>8, <2>4
    <3> QED
      BY <1>5, <1>8, <3>1 DEF Owned
  <2>11. \A t \in updated : Owned(t, "old") => region'[t] = region[t]
    BY <2>4 DEF Owned
  <2>12. ASSUME stage' = "dirty", NEW t \in updated', Owned(t, "old")', InToSpace(t)'
        PROVE  region'[t] \in newmarks'
    <3>1. /\ stage = "dirty" /\ newmarks \subseteq newmarks'
          /\ InToSpace(s)' /\ Owned(s, "old")' => region[s] \in newmarks'
      BY <1>5, <1>6, <1>8, <2>2, <2>8, <2>10, <2>12
    <3>2. CASE t = s
      BY <2>10, <2>12, <3>1, <3>2
    <3>3. CASE t # s
      <4>1. t \in updated
        BY <1>5, <1>8, <3>3
      <4>2. Owned(t, "old") /\ InToSpace(t) /\ region'[t] = region[t]
        BY <2>7, <2>11, <2>12, <4>1
      <4> QED
        BY <3>1, <4>1, <4>2 DEF MarkInv
    <3> QED
      BY <3>2, <3>3
  <2>13. ASSUME stage' \in {"copied", "promoted", "done"}, NEW t \in updated', Owned(t, "old")', InToSpace(t)'
        PROVE  region'[t] \in marks'
    <3>1. /\ stage \in {"copied", "promoted", "done"} /\ marks \subseteq marks'
          /\ InToSpace(s)' /\ Owned(s, "old")' => region[s] \in marks'
      BY <1>5, <1>6, <1>8, <2>2, <2>8, <2>10, <2>13
    <3>2. CASE t = s
      BY <2>10, <2>13, <3>1, <3>2
    <3>3. CASE t # s
      <4>1. t \in updated
        BY <1>5, <1>8, <3>3
      <4>2. Owned(t, "old") /\ InToSpace(t) /\ region'[t] = region[t]
        BY <2>7, <2>11, <2>13, <4>1
      <4> QED
        BY <3>1, <4>1, <4>2 DEF MarkInv
    <3> QED
      BY <3>2, <3>3
  <2> QED
    BY <1>5, <1>8, <2>9, <2>12, <2>13 DEF MarkInv
<1>9. CASE IterateDirtyRegions
  <2>1. stage = "roots" /\ stage' = "dirty" /\ updated' = updated
    BY <1>9 DEF IterateDirtyRegions, heapVars
  <2>2. \A t \in updated' : t \notin FieldSlot
    BY <2>1, FieldFacts DEF VisitInv
  <2> QED
    BY <2>1, <2>2 DEF MarkInv, Owned
<1>10. CASE SetRegionMarks
  BY <1>10 DEF SetRegionMarks, MarkInv, Owned, InToSpace, heapVars, moveVars
<1>11. CASE SweepCopied \/ SweepPromoted \/ AllCopiedSwept \/ AllPromotedSwept
  <2>1. /\ stage \in {"copied", "promoted"} /\ stage' \in {"copied", "promoted", "done"}
        /\ UNCHANGED <<target, updated, where, region, marks>>
    BY <1>11 DEF SweepCopied, SweepPromoted, AllCopiedSwept, AllPromotedSwept, heapVars, moveVars, markVars
  <2> QED
    BY <2>1 DEF MarkInv, Owned, InToSpace
<1> QED
  BY <1>0, <1>1, <1>2, <1>3, <1>4, <1>7, <1>8, <1>9, <1>10, <1>11, StepCases

\* A set that keeps all that a scavenge keeps has what a visited slot shows.
LEMMA TargetKept ==
  ASSUME Types, PlaceInv, SlotInv, ChainInv, VisitInv, LeastInv,
         NEW s \in left, Current(s), ToScavenge(s), NEW K \in SUBSET Young, Keeps(K)
  PROVE  target[s] \in K
<1>1. /\ s \in Slot /\ target[s] \in Young
      /\ \/ slot = Nil /\ chain = {} /\ before[s] = target[s]
         \/ slot = s /\ before[s] \in chain /\ \E c \in chain : First(c) = target[s]
  BY VisitFacts
<1>2. Moved \subseteq K /\ chain \subseteq K
  BY DEF LeastInv
<1>3. CASE before[s] = target[s]
  <2>1. s \in Root \/ (s \in FieldSlot /\ s[1] \in Object /\ where[s[1]] # "from")
    BY <1>1, FieldFacts DEF VisitInv
  <2>2. s \in Root \/ s[1] \in Old \cup K
    BY <1>2, <2>1 DEF PlaceInv, Moved, Object
  <2> QED
    BY <1>1, <1>3, <2>2 DEF Keeps
<1>4. CASE \E c \in chain : First(c) = target[s]
  <2>1. PICK c \in chain : First(c) = target[s]
    BY <1>4
  <2>2. c \in Shortcut /\ c \in K
    BY <1>2 DEF Types
  <2>3. <<c, 1>> \in Slot /\ before[<<c, 1>>] = target[s] /\ <<c, 1>>[1] = c
    BY <2>1, <2>2, FirstSlot, FieldFacts DEF First
  <2> QED
    BY <1>1, <2>2, <2>3 DEF Keeps
<1> QED
  BY <1>1, <1>3, <1>4

\* Only what every keeping set has is moved.
LEMMA LeastNext ==
  ASSUME Types, PlaceInv, SlotInv, ChainInv, VisitInv, LeastInv, [Next]_vars
  PROVE  LeastInv'
<1>1. ASSUME UNCHANGED <<before, forward, chain>> PROVE LeastInv'
  BY <1>1 DEF LeastInv, Keeps, Moved
<1>2. CASE Write
  <2>1. stage = "mutator" /\ UNCHANGED <<forward, chain>>
    BY <1>2 DEF Write, moveVars, visitVars
  <2>2. Moved' = {} /\ chain' = {}
    BY <2>1 DEF PlaceInv, VisitInv, ChainInv, Moved
  <2> QED
    BY <2>2 DEF LeastInv
<1>3. ASSUME NEW s \in left, ScavengeObject(s), before' = before,
             \A o \in Young : forward'[o] # Nil => forward[o] # Nil \/ o \in chain \cup {target[s]},
             chain' \subseteq chain \cup {target[s]}
      PROVE  LeastInv'
  <2> SUFFICES ASSUME NEW K \in SUBSET Young, Keeps(K) PROVE Moved' \subseteq K /\ chain' \subseteq K
    BY <1>3 DEF LeastInv, Keeps
  <2>1. target[s] \in K
    BY <1>3, TargetKept DEF ScavengeObject
  <2>2. Moved \subseteq K /\ chain \subseteq K
    BY DEF LeastInv
  <2> QED
    BY <1>3, <2>1, <2>2 DEF Moved
<1>4. ASSUME NEW s \in left, Skip(s) PROVE LeastInv'
  BY <1>1, <1>4 DEF Skip, heapVars, moveVars
<1>5. ASSUME NEW s \in left, ScavengeObject(s) PROVE LeastInv'
  <2>1. CASE Shortens(s)
    BY <1>3, <1>5, <2>1 DEF Shortens, ShortcutYoung, moveVars
  <2>2. ASSUME NEW S, NEW p, Settles(s, S, p) PROVE LeastInv'
    <3>1. /\ \A x \in Young \ S : forward'[x] = forward[x]
          /\ before' = before /\ S \subseteq chain \cup {target[s]} /\ chain' = {}
      BY <2>2, SettledAddresses DEF Settles, Settle
    <3> QED
      BY <1>3, <1>5, <3>1
  <2> QED
    BY <1>5, <2>1, <2>2, VisitCases
<1>6. CASE VisitSlot
  BY <1>4, <1>5, <1>6 DEF VisitSlot
<1>7. CASE StartScavenge \/ IterateDirtyRegions \/ SetRegionMarks \/ SweepCopied \/ AllCopiedSwept
           \/ SweepPromoted \/ AllPromotedSwept \/ UNCHANGED vars
  BY <1>1, <1>7, StageSteps
<1> QED
  BY <1>2, <1>6, <1>7 DEF Next, Scavenge

\* The external string table changes when the scavenge ends.
LEMMA TableNext ==
  ASSUME Types, VisitInv, TableInv, [Next]_vars
  PROVE  TableInv'
<1>1. CASE stage = "done"
  <2>1. left = {}
    BY <1>1 DEF VisitInv
  <2>2. UNCHANGED vars
    BY <1>1, <2>1 DEF Next, Scavenge, VisitSlot, Write, StartScavenge, IterateDirtyRegions, SetRegionMarks,
                      SweepCopied, AllCopiedSwept, SweepPromoted, AllPromotedSwept
  <2> QED
    BY <2>2 DEF vars, moveVars, tableVars, TableInv
<1>2. ASSUME stage # "done", stage' # "done", UNCHANGED tableVars PROVE TableInv'
  BY <1>2 DEF TableInv, tableVars
<1>3. CASE stage # "done" /\ VisitSlot
  <2>1. stage' = stage /\ UNCHANGED tableVars
    BY <1>3 DEF VisitSlot, Skip, ScavengeObject, Forwarded, ShortcutOld, ShortcutYoung, EvacuateObject, Settle
  <2> QED
    BY <1>2, <1>3, <2>1
<1>4. CASE stage # "done" /\ AllPromotedSwept
  <2>1. CASE Unswept
    BY <1>2, <1>4, <2>1 DEF AllPromotedSwept
  <2>2. CASE ~Unswept
    <3>1. /\ stage' = "done" /\ UNCHANGED <<where, forward>>
          /\ strings = External /\ old_strings = {} /\ UpdateExternalStrings
      BY <1>4, <2>2 DEF AllPromotedSwept, moveVars, TableInv
    <3> QED
      BY <3>1 DEF TableInv, UpdateExternalStrings
  <2> QED
    BY <2>1, <2>2
<1>5. CASE stage # "done" /\ ~VisitSlot /\ ~AllPromotedSwept
  <2>1. stage' # "done" /\ UNCHANGED tableVars
    BY <1>5 DEF Next, Scavenge, Write, StartScavenge, IterateDirtyRegions, SetRegionMarks, SweepCopied,
                AllCopiedSwept, SweepPromoted, vars
  <2> QED
    BY <1>2, <1>5, <2>1
<1> QED
  BY <1>1, <1>3, <1>4, <1>5

\* The words of an object that is moved were no other moved object's.
LEMMA VacatedMore ==
  ASSUME where \in [Object -> {"from", "to", "old"}], where' \in [Object -> {"from", "to", "old"}],
         NEW p \in Young, where[p] = "from", where'[p] # "from",
         \A o \in Young \ {p} : where'[o] = where[o],
         NEW at \in Layouts
  PROVE  /\ Cardinality(Vacated(at)) \in Nat
         /\ Cardinality(Vacated(at)') = Cardinality(Vacated(at)) + SizeOf[p]
<1>1. /\ \A o \in Young : Words(at, o) \subseteq 0 .. Capacity - 1
      /\ \A o \in Young \ {p} : Words(at, o) \cap Words(at, p) = {}
  BY DEF Layouts
<1>2. at[p] \in Nat /\ SizeOf[p] \in Nat \ {0}
  BY ObjectAssumption, BoundAssumption DEF Layouts
<1>3. IsFiniteSet(Words(at, p)) /\ Cardinality(Words(at, p)) = SizeOf[p]
  <2>1. at[p] \in Int /\ at[p] + SizeOf[p] - 1 \in Int /\ ~(at[p] > at[p] + SizeOf[p] - 1)
        /\ (at[p] + SizeOf[p] - 1) - at[p] + 1 = SizeOf[p]
    BY <1>2
  <2> QED
    BY <2>1, FS_Interval DEF Words
<1>4. IsFiniteSet(Vacated(at))
  <2>1. IsFiniteSet(0 .. Capacity - 1)
    BY FS_Interval, BoundAssumption
  <2>2. Vacated(at) \in SUBSET (0 .. Capacity - 1)
    BY <1>1 DEF Vacated
  <2> QED
    BY <2>1, <2>2, FS_Subset
<1>5. {o \in Young : where'[o] # "from"} = {o \in Young : where[o] # "from"} \cup {p}
  OBVIOUS
<1>6. Vacated(at)' = Vacated(at) \cup Words(at, p)
  BY <1>5 DEF Vacated
<1>7. Vacated(at) \cap Words(at, p) = {}
  BY <1>1 DEF Vacated
<1>8. Cardinality(Vacated(at)) \in Nat /\ Cardinality({}) = 0
  BY <1>4, FS_CardinalityType, FS_EmptySet
<1>9. Cardinality(Vacated(at)') = Cardinality(Vacated(at)) + SizeOf[p] - 0
  BY <1>3, <1>4, <1>6, <1>7, <1>8, FS_Union
<1> QED
  BY <1>2, <1>8, <1>9

\* An object takes no more words in to-space, or for its entry in the queue of
\* promoted objects, than it leaves in from-space.
LEMMA RoomNext ==
  ASSUME Types, PlaceInv, SlotInv, ChainInv, VisitInv, RoomInv, [Next]_vars
  PROVE  RoomInv'
<1>1. ASSUME UNCHANGED <<where, top, inserted>> PROVE RoomInv'
  BY <1>1 DEF RoomInv, Vacated
<1>2. ASSUME NEW s \in left, Current(s), ToScavenge(s), forward[target[s]] = Nil, EvacuateObject(s)
      PROVE  RoomInv'
  <2>1. PICK p : p = target[s] /\ p \in Young /\ p \notin Shortcut /\ where[p] = "from"
    BY <1>2, VisitFacts DEF EvacuateObject, PlaceInv
  <2>2. top \in Nat /\ inserted \in Nat /\ SizeOf[p] \in Nat \ {0} /\ FieldCount[p] \in Nat
    BY <2>1, ObjectAssumption DEF RoomInv, Object
  <2>3. CopyToNewSpace(s, p) \/ Promote(s, p)
    BY <1>2, <2>1 DEF EvacuateObject
  <2>4. PICK space \in {"to", "old"} : where' = [where EXCEPT ![p] = space]
    BY <2>3 DEF CopyToNewSpace, Promote
  <2>5. /\ where' \in [Object -> {"from", "to", "old"}] /\ where'[p] # "from"
        /\ \A o \in Young \ {p} : where'[o] = where[o]
    BY <2>1, <2>4 DEF Types, Object
  <2>6. top' \in Nat /\ inserted' \in Nat /\ top' + 2 * inserted' <= top + 2 * inserted + SizeOf[p]
    <3>1. CASE CopyToNewSpace(s, p)
      BY <2>2, <3>1 DEF CopyToNewSpace
    <3>2. CASE Promote(s, p) /\ IsPointerObject(p)
      <4>1. top' = top /\ inserted' = inserted + 1 /\ SizeOf[p] >= 2
        BY <2>1, <3>2, SizeAssumption DEF Promote, IsPointerObject
      <4> QED
        BY <2>2, <4>1
    <3>3. CASE Promote(s, p) /\ ~IsPointerObject(p)
      BY <2>2, <3>3 DEF Promote
    <3> QED
      BY <2>3, <3>1, <3>2, <3>3
  <2>7. ASSUME NEW at \in Layouts PROVE top' + 2 * inserted' <= Cardinality(Vacated(at)')
    <3>1. PICK c, d : c = Cardinality(Vacated(at)) /\ d = Cardinality(Vacated(at)')
      OBVIOUS
    <3>2. c \in Nat /\ d = c + SizeOf[p]
      BY <2>1, <2>5, <3>1, VacatedMore DEF Types
    <3>3. top + 2 * inserted <= c
      BY <3>1 DEF RoomInv
    <3>4. top' + 2 * inserted' <= d
      BY <2>2, <2>6, <3>2, <3>3
    <3> QED
      BY <3>1, <3>4
  <2> QED
    BY <2>6, <2>7 DEF RoomInv
<1>3. CASE VisitSlot
  <2>1. PICK s \in left : Skip(s) \/ ScavengeObject(s)
    BY <1>3 DEF VisitSlot
  <2>2. CASE Skip(s)
    BY <1>1, <2>2 DEF Skip, moveVars
  <2>3. CASE ScavengeObject(s) /\ (Forwarded(s) \/ ShortcutOld(s) \/ ShortcutYoung(s))
    BY <1>1, <2>3 DEF Forwarded, ShortcutOld, ShortcutYoung, moveVars
  <2>4. CASE ScavengeObject(s) /\ forward[target[s]] = Nil /\ EvacuateObject(s)
    BY <1>2, <2>4 DEF ScavengeObject
  <2> QED
    BY <2>1, <2>2, <2>3, <2>4 DEF ScavengeObject
<1>4. CASE ~VisitSlot
  BY <1>1, <1>4 DEF Next, Scavenge, Write, StartScavenge, IterateDirtyRegions, SetRegionMarks, SweepCopied,
                    AllCopiedSwept, SweepPromoted, AllPromotedSwept, moveVars, vars
<1> QED
  BY <1>3, <1>4

---------------------------------------------------------------------------
(* The theorems.                                                              *)

\* The invariant holds initially.
LEMMA InitInv == Init => IInv
<1> SUFFICES ASSUME Init PROVE IInv
  OBVIOUS
<1>0. USE DEF Init, InitHeap, InitScavenger
<1>1. /\ \A o \in Young : o \in Object /\ where[o] = "from" /\ forward[o] = Nil
      /\ \A o \in Old : o \in Object /\ where[o] = "old"
      /\ Nil \notin Young /\ Shortcut \subseteq Young
  BY SpaceAssumption, ObjectAssumption DEF Object
<1>2. Types
  BY DEF Types, Stage, Object
<1>3. PlaceInv
  BY <1>1 DEF PlaceInv
<1>4. SlotInv /\ ChainInv /\ VisitInv /\ PendingInv /\ TableInv
  BY DEF SlotInv, ChainInv, VisitInv, PendingInv, TableInv
<1>5. QueuesInv
  BY DEF QueuesInv
<1>6. MarkInv
  BY DEF MarkInv
<1>7. LeastInv
  BY <1>1 DEF LeastInv, Moved
<1>8. RoomInv
  <2> SUFFICES ASSUME NEW at \in Layouts PROVE top + 2 * inserted <= Cardinality(Vacated(at))
    BY DEF RoomInv
  <2>1. Vacated(at) = {}
    BY <1>1 DEF Vacated
  <2> QED
    BY <2>1, FS_EmptySet
<1> QED
  BY <1>2, <1>3, <1>4, <1>5, <1>6, <1>7, <1>8 DEF IInv

\* The invariant is preserved by every step.
LEMMA StepInv == IInv /\ [Next]_vars => IInv'
  BY TypesNext, PlaceNext, SlotNext, ChainNext, VisitNext, QueuesNext, PendingNext, MarkNext, LeastNext,
     TableNext, RoomNext DEF IInv

\* The inductive invariant, of which the properties are consequences.
THEOREM ScavengerInvariant == Spec => []IInv
  BY InitInv, StepInv, PTL DEF Spec

\* A map word is read only through an address in from-space: no slot that has
\* its new value is looked up again (heap-inl.h:327, heap.cc:1425).
THEOREM FromSpaceOnly == Spec => []VisitsFromSpaceOnly
<1>1. IInv => VisitsFromSpaceOnly
  BY VisitFacts DEF IInv, VisitsFromSpaceOnly, InFromSpace
<1> QED
  BY <1>1, ScavengerInvariant, PTL

\* When a scavenge is done nothing that is kept points to from-space.
LEMMA NothingPending ==
  ASSUME IInv, stage = "done", NEW t \in LiveSlots
  PROVE  ~InFromSpace(t)
<1>1. PendingInv /\ left = {} /\ copied = <<>> /\ promoted = <<>>
  BY DEF IInv, VisitInv
<1>2. ~Queued(t, copied) /\ ~Queued(t, promoted)
  BY <1>1 DEF Queued
<1> QED
  BY <1>1, <1>2 DEF PendingInv, Pending

\* The graph of objects after the scavenge is the graph before, with cons
\* strings replaced by their only part (heap.cc:928-1038, 1119-1170).
THEOREM GraphIsPreserved == Spec => []GraphPreserved
<1>1. IInv => GraphPreserved
  <2> SUFFICES ASSUME IInv PROVE GraphPreserved
    OBVIOUS
  <2>1. Types /\ PlaceInv /\ SlotInv /\ ChainInv /\ VisitInv
    BY DEF IInv
  <2>2. ASSUME stage = "done", NEW t \in LiveSlots
        PROVE  /\ target[t] = NewAddress(before[t]) /\ ~InFromSpace(t)
               /\ target[t] = Nil => before[t] = Nil
    <3>1. ~InFromSpace(t) /\ t \in Slot
      BY <2>2, NothingPending, LiveSlotFacts, FieldFacts
    <3>2. CASE t \in updated
      BY <2>1, <3>1, <3>2 DEF SlotInv
    <3>3. CASE t \notin updated
      <4>1. left = {} /\ slot = Nil /\ t # Nil
        BY <2>1, <2>2, <3>1, SpaceAssumption DEF VisitInv, ChainInv
      <4>2. target[t] = before[t]
        BY <2>1, <3>1, <3>3, <4>1 DEF SlotInv
      <4>3. target[t] \notin Young
        BY <3>1, <3>3 DEF InFromSpace
      <4> QED
        BY <3>1, <4>2, <4>3 DEF NewAddress
    <3> QED
      BY <3>2, <3>3
  <2> QED
    BY <2>1, <2>2 DEF GraphPreserved, PlaceInv
<1> QED
  BY <1>1, ScavengerInvariant, PTL

\* Before and after a scavenge every pointer from old space to new space is in a
\* dirty region, also of objects promoted during the walk (heap.cc:4133-4160).
THEOREM MarksAreComplete == Spec => []MarksComplete
<1>1. IInv => MarksComplete
  <2> SUFFICES ASSUME IInv, stage \in {"mutator", "done"}, NEW t \in OldSlots, InNewSpace(t)
               PROVE  region[t] \in marks
    BY DEF MarksComplete
  <2>1. Types /\ PlaceInv /\ VisitInv /\ MarkInv
    BY DEF IInv
  <2>2. t \in FieldSlot /\ where[t[1]] = "old" /\ t[1] \in Object /\ target[t] \in Young
    BY LiveSlotFacts, FieldFacts DEF InNewSpace, InFromSpace, InToSpace
  <2>3. CASE stage = "mutator"
    <3>1. t[1] \in Old
      BY <2>1, <2>2, <2>3 DEF PlaceInv, Object
    <3> QED
      BY <2>1, <2>2, <2>3, <3>1 DEF MarkInv
  <2>4. CASE stage = "done"
    <3>1. t \in LiveSlots
      BY <2>2, LiveSlotFacts
    <3>2. InToSpace(t) /\ t \in updated
      BY <2>4, <3>1, NothingPending DEF InNewSpace, InToSpace
    <3> QED
      BY <2>1, <2>2, <2>4, <3>2 DEF MarkInv, Owned
  <2> QED
    BY <2>3, <2>4
<1> QED
  BY <1>1, ScavengerInvariant, PTL

\* Only what roots or old objects reach is moved, and the external strings that
\* were not are those that are finalized (heap.cc:1045-1116).
THEOREM OnlyTheLiveSurvive == Spec => []OnlyLiveSurvive
<1>1. IInv => OnlyLiveSurvive
  <2> SUFFICES ASSUME IInv PROVE OnlyLiveSurvive
    OBVIOUS
  <2>1. Types /\ PlaceInv /\ LeastInv /\ TableInv
    BY DEF IInv
  <2>2. \A S \in SUBSET Young : Keeps(S) => Moved \subseteq S
    BY <2>1 DEF LeastInv
  <2>3. ASSUME stage = "done"
        PROVE  /\ finalized = External \ Moved
               /\ strings = {x \in External : where[x] = "to"}
               /\ old_strings = {x \in External : where[x] = "old"}
               /\ finalized \cup strings \cup old_strings = External
    <3>1. /\ finalized = {x \in External : forward[x] = Nil}
          /\ strings = {x \in External : where[x] = "to"}
          /\ old_strings = {x \in External : where[x] = "old"}
      BY <2>1, <2>3 DEF TableInv
    <3>2. \A x \in External : x \in Young /\ x \notin Shortcut /\ x \in Object
      BY ObjectAssumption DEF Object
    <3>3. \A x \in External : where[x] = "from" => forward[x] = Nil
      BY <2>1, <3>2 DEF PlaceInv
    <3>4. \A x \in External : where[x] \in {"from", "to", "old"}
      BY <2>1, <3>2 DEF Types
    <3> QED
      BY <3>1, <3>2, <3>3, <3>4 DEF Moved
  <2> QED
    BY <2>2, <2>3 DEF OnlyLiveSurvive
<1> QED
  BY <1>1, ScavengerInvariant, PTL

\* The objects copied to to-space and the queue of promoted ones never meet: both
\* fit in what was vacated in from-space (heap.cc:963-966, heap-inl.h:43).
THEOREM RoomForTheQueue == Spec => []RoomForQueue
<1>1. IInv => RoomForQueue
  <2> SUFFICES ASSUME IInv PROVE RoomForQueue
    OBVIOUS
  <2>1. PICK at : at \in Layouts
    BY FromSpaceAssumption
  <2>2. IsFiniteSet(0 .. Capacity - 1) /\ Cardinality(0 .. Capacity - 1) = Capacity
    <3>1. IsFiniteSet(0 .. Capacity - 1)
          /\ Cardinality(0 .. Capacity - 1) = IF 0 > Capacity - 1 THEN 0 ELSE (Capacity - 1) - 0 + 1
      BY FS_Interval, BoundAssumption
    <3> QED
      BY <3>1, BoundAssumption
  <2>3. Vacated(at) \in SUBSET (0 .. Capacity - 1)
    BY <2>1 DEF Layouts, Vacated
  <2>4. Cardinality(Vacated(at)) <= Capacity /\ Cardinality(Vacated(at)) \in Nat
    BY <2>2, <2>3, FS_Subset, FS_CardinalityType
  <2>5. top \in Nat /\ inserted \in Nat /\ top + 2 * inserted <= Cardinality(Vacated(at))
    BY <2>1 DEF IInv, RoomInv
  <2> QED
    BY <2>4, <2>5, BoundAssumption DEF RoomForQueue
<1> QED
  BY <1>1, ScavengerInvariant, PTL
=============================================================================
