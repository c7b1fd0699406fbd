---------------------------- MODULE ScavengerInv ----------------------------
(* The inductive invariant of Scavenger.                                      *)
EXTENDS Scavenger

Types ==
  /\ stage \in Stage
  /\ target \in [Slot -> Object \cup {Nil}] /\ before \in [Slot -> Object \cup {Nil}]
  /\ updated \subseteq Slot
  /\ where \in [Object -> {"from", "to", "old"}] /\ forward \in [Young -> Object \cup {Nil}]
  /\ region \in [FieldSlot -> Region]
  /\ left \subseteq Slot /\ slot \in Slot \cup {Nil} /\ chain \subseteq Shortcut
  /\ copied \in Seq(Young) /\ promoted \in Seq(Young)

\* A young object is where its map word says, a short-cut string never moves.
PlaceInv ==
  /\ \A o \in Old : where[o] = "old"
  /\ \A o \in Young \ Shortcut : where[o] = "from" <=> forward[o] = Nil
  /\ \A o \in Shortcut : where[o] = "from"
  /\ \A o \in Young : forward[o] # Nil =>
       forward[o] = IF o \in Shortcut THEN NewAddress(First(o)) ELSE o
  /\ \A o \in Young : forward[o] \in Young => where[forward[o]] # "from"
  /\ stage = "mutator" => \A o \in Young : forward[o] = Nil

\* A slot has the old address of what it held or the new one.
SlotInv ==
  /\ \A s \in Slot : s \notin updated /\ s # slot => target[s] = before[s]
  /\ \A s \in updated : /\ before[s] \in Object
                        /\ target[s] = NewAddress(before[s]) /\ target[s] # Nil

\* The strings being short-cut lead from what the slot held to what it holds.
ChainInv ==
  /\ slot = Nil => chain = {}
  /\ slot # Nil => /\ slot \in left /\ slot \notin updated
                   /\ target[slot] \in Young /\ before[slot] \in chain
                   /\ \E c \in chain : First(c) = target[slot]
  /\ \A c \in chain : forward[c] = Nil /\ First(c) \in chain \cup {target[slot]}

\* Objects in from-space are not visited.  Only the sweep of promoted objects
\* meets slots that were visited before.
Owned(s, space) == s \in FieldSlot /\ where[s[1]] = space
VisitInv ==
  /\ \A s \in left \cup updated : s \in FieldSlot => where[s[1]] # "from"
  /\ stage # "promoted" => \A s \in left : s \notin updated
  /\ stage = "mutator" => updated = {} /\ copied = <<>> /\ promoted = <<>>
  /\ stage \in {"mutator", "done"} => left = {}
  /\ stage = "roots" => left \subseteq Root /\ updated \subseteq Root
  /\ stage = "copied" => \A s \in left : Owned(s, "to")
  /\ stage \in {"dirty", "promoted"} => \A s \in left : Owned(s, "old")
  /\ stage = "done" => copied = <<>> /\ promoted = <<>>

\* The two queues hold moved objects, those copied with fields not yet visited.
QueuesInv ==
  /\ \A i \in 1 .. Len(copied) : /\ where[copied[i]] = "to"
                                 /\ \A s \in Fields(copied[i]) : s \notin left \cup updated
  /\ \A i, j \in 1 .. Len(copied) : copied[i] = copied[j] => i = j
  /\ \A i \in 1 .. Len(promoted) : where[promoted[i]] = "old"

\* Every pointer to from-space in what is kept is still to be visited.
Queued(s, queue) == \E i \in 1 .. Len(queue) : s \in Fields(queue[i])
Pending(s) ==
  \/ s \in left \/ Queued(s, copied) \/ Queued(s, promoted)
  \/ stage = "roots" /\ s \in FieldSlot /\ s[1] \in Old
PendingInv == stage # "mutator" => \A s \in LiveSlots : InFromSpace(s) => Pending(s)

\* Old objects' pointers to new space are in dirty regions: by the marks before
\* the walk over them, by the new marks during the walk, and by the marks again.
MarkInv ==
  /\ stage \in {"mutator", "roots"} =>
       \A s \in FieldSlot : s[1] \in Old /\ target[s] \in Young => region[s] \in marks
  /\ stage = "dirty" =>
       \A s \in updated : Owned(s, "old") /\ InToSpace(s) => region[s] \in newmarks
  /\ stage \in {"copied", "promoted", "done"} =>
       \A s \in updated : Owned(s, "old") /\ InToSpace(s) => region[s] \in marks

\* Nothing is moved that a set closed under what a scavenge keeps lacks.
LeastInv == \A S \in SUBSET Young : Keeps(S) => Moved \subseteq S /\ chain \subseteq S

TableInv ==
  IF stage # "done" THEN strings = External /\ old_strings = {} /\ finalized = {}
  ELSE /\ finalized = {x \in External : forward[x] = Nil}
       /\ strings = {x \in External : where[x] = "to"}
       /\ old_strings = {x \in External : where[x] = "old"}

\* The two ends of to-space have taken no more words than the objects that were
\* moved had in from-space.
Vacated(at) == UNION {Words(at, o) : o \in {x \in Young : where[x] # "from"}}
RoomInv ==
  /\ top \in Nat /\ inserted \in Nat
  /\ \A at \in Layouts : top + 2 * inserted <= Cardinality(Vacated(at))

IInv == /\ Types /\ PlaceInv /\ SlotInv /\ ChainInv /\ VisitInv /\ QueuesInv /\ PendingInv
        /\ MarkInv /\ LeastInv /\ TableInv /\ RoomInv
=============================================================================
