----------------------------- MODULE MarkingInv -----------------------------
(* The inductive invariant of Marking.                                        *)
EXTENDS Marking

\* A body being iterated is that of a marked object, and bodies are left
\* before a stage looks at the stack alone.
BodiesInv ==
  /\ \A i \in 1 .. Len(bodies) : /\ bodies[i].object \in marked
                                 /\ bodies[i].rest \subseteq fields[bodies[i].object]
  /\ stage \in GroupStage /\ ~draining => bodies = <<>>

\* What a stage has visited is marked, and what it has to visit is its own.
StageInv ==
  /\ stage = "roots" => todo \subseteq roots /\ roots \subseteq marked \cup todo
  /\ stage # "roots" => roots \subseteq marked
  /\ stage = "weak" => todo \subseteq weak /\ weak \subseteq marked \cup todo
  /\ stage \in {"groups again", "done"} => weak \subseteq marked
  /\ draining => todo = {}
  /\ stage \in GroupStage => todo \subseteq groups_left

GroupsUnmarked(G) == \A g \in G : g \cap marked = {}
Quiet == bodies = <<>> /\ stack = {} /\ ~stack_overflowed

\* As long as a pass over the groups has pushed nothing, the groups it left
\* behind have no marked object; after the last pass no group has.
GroupsInv ==
  /\ \A g \in groups \ groups_left : g \subseteq marked
  /\ stage \in GroupStage /\ ~draining /\ stack = {} =>
       ~stack_overflowed /\ GroupsUnmarked(groups_left \ todo)
  /\ stage \in GroupStage /\ draining /\ ~work_to_do => Quiet /\ GroupsUnmarked(groups_left)
  /\ stage = "done" => Quiet /\ GroupsUnmarked(groups_left) /\ ~draining

\* Nothing is marked that no closed set needs.
LeastInv ==
  /\ \A S \in SUBSET Object : Closed(S) => marked \subseteq S
  /\ stage \in {"roots", "groups"} =>
       \A S \in SUBSET Object : StronglyClosed(S) => marked \subseteq S

IInv == /\ TypeOK /\ NothingForgotten /\ BodiesInv /\ StageInv /\ GroupsInv /\ LeastInv
        /\ PendingIsWeaklyReachable
=============================================================================
