---------------------------- MODULE GlobalHandles ----------------------------
(* The persistent handles of an isolate (global-handles.cc).  Nodes come from *)
(* a pool and are on up to three lists at once: the list of all nodes, of     *)
(* free ones that are still on it, and of those unlinked from it.  The weak   *)
(* callbacks run in the middle of the walk that unlinks nodes, and may create *)
(* and destroy handles and collect garbage again, which starts another walk.  *)
EXTENDS Integers, Sequences, FiniteSets, SequencesExt

CONSTANTS Node, NULL,
          MaxNesting   \* bounds collections inside weak callbacks

ASSUME NodeAssumption == IsFiniteSet(Node) /\ NULL \notin Node
ASSUME NestingAssumption == MaxNesting \in Nat

VARIABLES
  state,     \* Node::state_; "POOL" for a node that was never handed out
  next,      \* Node::next_, the list of all nodes from head on
  next_free, \* Node::parameter_or_next_free_ of a DESTROYED node
  head, first_free, first_deallocated,
  number_of_weak_handles,
  rounds,    \* the calls of PostGarbageCollectionProcessing under way
  handles    \* the nodes the embedder holds a handle to

listVars == <<next, head>>
vars == <<state, listVars, next_free, first_free, first_deallocated,
          number_of_weak_handles, rounds, handles>>

State == {"POOL", "NORMAL", "WEAK", "PENDING", "NEAR_DEATH", "DESTROYED"}
IsNearDeath(n) == state[n] \in {"PENDING", "NEAR_DEATH"}
IsWeakOrNearDeath(n) == state[n] = "WEAK" \/ IsNearDeath(n)

(* at is the node whose next_ the loop variable p points to, NULL when p is  *)
(* &head_; stale says that post_gc_processing_count_ has changed since the   *)
(* call; callback is the node whose weak callback runs.                      *)
Round == [at : Node \cup {NULL}, stale : BOOLEAN, callback : Node \cup {NULL}]
Top == rounds[Len(rounds)]
SetTop(round) == rounds' = [rounds EXCEPT ![Len(rounds)] = round]

\* API functions are called when no collection runs, or by a weak callback.
MayCallApi == rounds # <<>> => Top.callback # NULL

Init ==
  /\ state = [n \in Node |-> "POOL"]
  /\ next = [n \in Node |-> NULL] /\ next_free = [n \in Node |-> NULL]
  /\ head = NULL /\ first_free = NULL /\ first_deallocated = NULL
  /\ number_of_weak_handles = 0
  /\ rounds = <<>> /\ handles = {}

---------------------------------------------------------------------------
(* Creating and destroying handles.                                          *)

\* Allocate takes a node from the pool, whose chunks do not run out.
FromPool(n) ==
  /\ first_free = NULL /\ first_deallocated = NULL /\ state[n] = "POOL"
  /\ next' = [next EXCEPT ![n] = head] /\ head' = n
  /\ UNCHANGED <<first_free, first_deallocated>>

\* Its next_ is head already.
FromDeallocated(n) ==
  /\ first_free = NULL /\ n = first_deallocated
  /\ first_deallocated' = next_free[n] /\ head' = n
  /\ UNCHANGED <<next, first_free>>

\* Nodes of the free list have never left the list of all nodes.
FromFree(n) ==
  /\ n = first_free
  /\ first_free' = next_free[n]
  /\ UNCHANGED <<listVars, first_deallocated>>

Create == \E n \in Node :
  /\ MayCallApi
  /\ FromFree(n) \/ FromDeallocated(n) \/ FromPool(n)
  /\ state' = [state EXCEPT ![n] = "NORMAL"]
  /\ handles' = handles \cup {n}
  /\ UNCHANGED <<next_free, number_of_weak_handles, rounds>>

FaultyWeakAfterDestroy(n) ==
  IF state[n] = "WEAK" THEN number_of_weak_handles - 1 ELSE number_of_weak_handles
\* The count after n is destroyed or made strong.
WeakAfterDestroy(n) ==
  IF IsWeakOrNearDeath(n) THEN number_of_weak_handles - 1 ELSE number_of_weak_handles

Destroy(n) ==
  /\ MayCallApi /\ n \in handles
  /\ number_of_weak_handles' = WeakAfterDestroy(n)
  /\ state' = [state EXCEPT ![n] = "DESTROYED"]
  /\ next_free' = [next_free EXCEPT ![n] = first_free] /\ first_free' = n
  /\ handles' = handles \ {n}
  /\ UNCHANGED <<listVars, first_deallocated, rounds>>

MakeWeak(n) ==
  /\ MayCallApi /\ n \in handles
  /\ number_of_weak_handles' =
       IF IsWeakOrNearDeath(n) THEN number_of_weak_handles ELSE number_of_weak_handles + 1
  /\ state' = [state EXCEPT ![n] = "WEAK"]
  /\ UNCHANGED <<listVars, next_free, first_free, first_deallocated, rounds, handles>>

ClearWeakness(n) ==
  /\ MayCallApi /\ n \in handles
  /\ number_of_weak_handles' = WeakAfterDestroy(n)
  /\ state' = [state EXCEPT ![n] = "NORMAL"]
  /\ UNCHANGED <<listVars, next_free, first_free, first_deallocated, rounds, handles>>

---------------------------------------------------------------------------
(* A full collection.  The collector decides which objects are reachable     *)
(* only through weak handles, then PostGarbageCollectionProcessing walks the  *)
(* list; its loop body is Process, broken off where it calls a callback.     *)

FaultyMakeStale(round) == round
\* ++post_gc_processing_count_, as the rounds under way will see it.
MakeStale(round) == [round EXCEPT !.stale = TRUE]

CollectGarbage == \E garbage \in SUBSET {n \in handles : state[n] = "WEAK"} :
  /\ MayCallApi /\ Len(rounds) < MaxNesting
  /\ state' = [n \in Node |-> IF n \in garbage THEN "PENDING" ELSE state[n]]
  /\ rounds' = Append([d \in DOMAIN rounds |-> MakeStale(rounds[d])],
                      [at |-> NULL, stale |-> FALSE, callback |-> NULL])
  /\ UNCHANGED <<listVars, next_free, first_free, first_deallocated, number_of_weak_handles, handles>>

Walking == rounds # <<>> /\ Top.callback = NULL
Deref(at) == IF at = NULL THEN head ELSE next[at]

\* first_deallocated()->set_next(target), if there is one.
RelinkDeallocated(nextFn, target) ==
  [n \in Node |-> IF n = first_deallocated THEN target ELSE nextFn[n]]

LinkDeallocated(n) == [next_free EXCEPT ![n] = first_deallocated]

\* The rest of the loop body, at *p: unlink the node there or step over it.
Sweep(round) ==
  LET n == Deref(round.at)
      unlinked == [m \in Node |-> IF m = round.at THEN next[n] ELSE next[m]]
  IN  IF state[n] = "DESTROYED"
        THEN /\ head' = IF round.at = NULL THEN next[n] ELSE head
             /\ next' = RelinkDeallocated(unlinked, n)
             /\ next_free' = LinkDeallocated(n)
             /\ first_deallocated' = n
             /\ SetTop(round)
        ELSE /\ SetTop([round EXCEPT !.at = n])
             /\ UNCHANGED <<listVars, next_free, first_deallocated>>

ProcessOther ==
  /\ Walking /\ Deref(Top.at) # NULL
  /\ state[Deref(Top.at)] # "PENDING"
  /\ Sweep(Top)
  /\ UNCHANGED <<state, first_free, number_of_weak_handles, handles>>

FaultyForbidReuse == first_free
\* What set_first_free(NULL) leaves, before a callback and at the end.
ForbidReuse == NULL

ProcessPending ==
  /\ Walking /\ Deref(Top.at) # NULL
  /\ LET n == Deref(Top.at)
     IN  /\ state[n] = "PENDING"
         /\ state' = [state EXCEPT ![n] = "NEAR_DEATH"]
         /\ SetTop([Top EXCEPT !.callback = n])
  /\ first_free' = ForbidReuse
  /\ next' = RelinkDeallocated(next, head)
  /\ UNCHANGED <<head, next_free, first_deallocated, number_of_weak_handles, handles>>

EndRound ==
  /\ rounds' = Front(rounds)
  /\ first_free' = ForbidReuse
  /\ next' = RelinkDeallocated(next, head)
  /\ UNCHANGED <<head, next_free, first_deallocated>>

WalkEnds ==
  /\ Walking /\ Deref(Top.at) = NULL
  /\ EndRound
  /\ UNCHANGED <<state, number_of_weak_handles, handles>>

FaultyBreaksOff == TRUE
BreaksOff == Top.stale

(* The callback returns.  It has to have cleared, revived or destroyed the   *)
(* handle it was given (the ASSERT after the call).                          *)
CallbackReturns ==
  /\ rounds # <<>> /\ Top.callback # NULL /\ state[Top.callback] # "NEAR_DEATH"
  /\ IF BreaksOff THEN EndRound
                   ELSE Sweep([Top EXCEPT !.callback = NULL]) /\ UNCHANGED first_free
  /\ UNCHANGED <<state, number_of_weak_handles, handles>>

Next ==
  \/ Create \/ CollectGarbage
  \/ \E n \in Node : Destroy(n) \/ MakeWeak(n) \/ ClearWeakness(n)
  \/ ProcessOther \/ ProcessPending \/ WalkEnds \/ CallbackReturns

Spec == Init /\ [][Next]_vars

---------------------------------------------------------------------------
(* Properties.                                                              *)

\* Types of the variables.
TypeOK ==
  /\ state \in [Node -> State]
  /\ next \in [Node -> Node \cup {NULL}] /\ next_free \in [Node -> Node \cup {NULL}]
  /\ {head, first_free, first_deallocated} \subseteq Node \cup {NULL}
  /\ number_of_weak_handles \in Nat
  /\ rounds \in Seq(Round) /\ handles \in SUBSET Node

\* The nodes met by following a list from first: as many steps as there are
\* nodes, the last of which is NULL when the list ends.
Follow(first, link) ==
  LET met[k \in 0..Cardinality(Node)] ==
        IF k = 0 THEN first ELSE IF met[k - 1] = NULL THEN NULL ELSE link[met[k - 1]]
  IN  met
Ends(first, link) == Follow(first, link)[Cardinality(Node)] = NULL
NodesOf(first, link) == Range(Follow(first, link)) \ {NULL}

Listed == NodesOf(head, next)
Free == NodesOf(first_free, next_free)
Deallocated == NodesOf(first_deallocated, next_free)

\* Every handle the embedder holds is a node the collector's root iteration
\* reaches, in the middle of a walk too, so its object is kept and updated.
HandlesListed == Ends(head, next) /\ handles \subseteq Listed

\* When API functions may run, Create hands out no node that is in use, and
\* the two lists it takes nodes from do not run into one another: free nodes
\* are still on the list of all nodes, deallocated ones are not.
ReusableUnused ==
  MayCallApi => /\ Ends(first_free, next_free) /\ Ends(first_deallocated, next_free)
                /\ \A n \in Free \cup Deallocated : state[n] = "DESTROYED"
                /\ Free \subseteq Listed /\ Deallocated \cap Listed = {}

\* The ASSERT in Create: the first deallocated node is linked to the head, so
\* that taking it puts it on the list.
DeallocatedLinked ==
  MayCallApi /\ first_deallocated # NULL => next[first_deallocated] = head

\* A destroyed node is found again by the next walk or on the deallocated
\* list: none is lost until the isolate is torn down.
NoNodeLost == \A n \in Node : state[n] = "DESTROYED" => n \in Listed \cup Deallocated

\* The three lists together, in every state of a walk: what is held is listed,
\* what is handed out is unused, and every node is on the list that finds it.
ListsConsistent ==
  TypeOK /\ HandlesListed /\ ReusableUnused /\ DeallocatedLinked /\ NoNodeLost

\* number_of_weak_handles_ counts the handles that are weak or near death.
WeakCounted == number_of_weak_handles = Cardinality({n \in handles : IsWeakOrNearDeath(n)})

\* When the last walk is over, every handle that was found to be garbage has
\* been told to its callback, although the walk of an outer collection is
\* broken off when a callback collected garbage itself.
AllNotified == rounds = <<>> => \A n \in Node : state[n] # "PENDING"

\* A walk that will go on after its callback stands on a node of the list, and
\* there is a node where it goes on, whatever the callback did to the list.
WalkSafe ==
  \A r \in Range(rounds) : ~r.stale =>
    /\ r.at # NULL => r.at \in Listed
    /\ r.callback # NULL => Deref(r.at) # NULL
=============================================================================
