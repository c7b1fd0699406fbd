----------------------------- MODULE MCMarking ------------------------------
(* Marking for TLC: every heap of a few objects with a few pointers between   *)
(* them, one root, one weak handle and object groups of two objects.          *)
EXTENDS Marking

CONSTANTS Root, MaxFields, MaxWeak, MaxGroups

Pairs == {g \in SUBSET Object : Cardinality(g) = 2}
Pointers == {e \in Object \X Object : e[1] # e[2]}
FewPointers == {E \in SUBSET Pointers : Cardinality(E) <= MaxFields}

MCInitHeap ==
  /\ \E E \in FewPointers : fields = [o \in Object |-> {p \in Object : <<o, p>> \in E}]
  /\ roots \in SUBSET {Root}
  /\ weak \in {S \in SUBSET Object : Cardinality(S) <= MaxWeak}
  /\ groups \in {G \in SUBSET Pairs : Cardinality(G) <= MaxGroups}

MCInit == MCInitHeap /\ InitMarking

MCSpec == MCInit /\ [][Next]_vars /\ WF_vars(Next)
=============================================================================
