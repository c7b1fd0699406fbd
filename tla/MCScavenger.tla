---------------------------- MODULE MCScavenger -----------------------------
(* Scavenger for TLC: every heap with a few pointers between two young        *)
(* objects, a cons string to be short-cut, an external string and an old      *)
(* object, to which there is a handle, with two fields in different regions.  *)
EXTENDS Scavenger, FiniteSetsExt, Functions

CONSTANTS Two, One, Cons, Extern, OldTwo, OldRoot, MaxPointers

MCYoung == {Two, One, Cons, Extern}
MCOld == {OldTwo}
MCFieldCount == [o \in MCYoung \cup MCOld |-> CASE o = One -> 1 [] o = Extern -> 0 [] OTHER -> 2]
MCSizeOf == [o \in MCYoung |-> IF o = One THEN 2 ELSE 3]
MCCapacity == MapThenSumSet(LAMBDA o : MCSizeOf[o], MCYoung)

MCShortcut == {Cons}
MCExternal == {Extern}

SelfPointers == {e \in FieldSlot \X Object : e[1][1] = e[2]}
Pointers == ((Slot \ (Fields(Cons) \cup {OldRoot})) \X Object) \ SelfPointers
FewPointers == {Range(f) : f \in [1 .. MaxPointers -> Pointers]}

\* E has one pointer per slot and no pointer of an object that nothing points
\* to, of which there may be any without a difference.
Relevant(E, c) ==
  LET pointedTo == {e[2] : e \in E} \cup Old
  IN  /\ \A e, f \in E : e[1] = f[1] => e = f
      /\ \A e \in E : e[1] \in FieldSlot => e[1][1] \in pointedTo \cup {c}
      /\ Cons \notin pointedTo => c = Extern

\* Through the handle the program adds pointers, so there are fewer to begin with.
HandleToOld(E) == IF Cardinality(E) < MaxPointers THEN OldTwo ELSE Nil

MCInitHeap ==
  /\ \E E \in FewPointers, c \in Object \ {Cons} :
       /\ Relevant(E, c)
       /\ target = [s \in Slot |-> CASE s = OldRoot -> HandleToOld(E)
                                    [] s = <<Cons, 1>> -> c
                                    [] \E e \in E : e[1] = s -> (CHOOSE e \in E : e[1] = s)[2]
                                    [] OTHER -> Nil]
  /\ aged = {Two}
  /\ region = [s \in FieldSlot |-> IF s = <<OldTwo, 2>> THEN 2 ELSE 1]
  /\ marks \in SUBSET Region
  /\ \A s \in Fields(OldTwo) : target[s] \in Young => region[s] \in marks

MCInit == MCInitHeap /\ InitScavenger

MCSpec == MCInit /\ [][Next]_vars /\ WF_vars(Scavenge)
=============================================================================
