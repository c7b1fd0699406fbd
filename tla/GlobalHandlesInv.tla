-------------------------- MODULE GlobalHandlesInv --------------------------
(* The inductive invariant of GlobalHandles: the lists as sequences of nodes. *)
EXTENDS GlobalHandles

\* The k-th of len nodes L, and the NULL after the last.
NodeAt(L, len, k) == IF k \in 1 .. len THEN L[k] ELSE NULL

\* The list that starts at first has the nodes L, all different.
IsList(first, link, len, L) ==
  /\ L \in [1 .. len -> Node]
  /\ \A j, k \in 1 .. len : L[j] = L[k] => j = k
  /\ first = NodeAt(L, len, 1)
  /\ \A k \in 1 .. len : link[L[k]] = NodeAt(L, len, k + 1)

On(n, L, len) == \E k \in 1 .. len : L[k] = n

\* The list of all nodes and the deallocated nodes are those that have left the
\* pool, and no node is on both.  A deallocated node is linked to the one that
\* was deallocated after it, which will be the head when it is taken.
AllInv(len, L, dlen, D) ==
  /\ IsList(head, next, len, L) /\ IsList(first_deallocated, next_free, dlen, D)
  /\ \A j \in 1 .. len, k \in 1 .. dlen : L[j] # D[k]
  /\ \A n \in Node : state[n] = "POOL" <=> ~On(n, L, len) /\ ~On(n, D, dlen)
  /\ \A k \in 1 .. dlen : state[D[k]] = "DESTROYED"
  /\ \A k \in 2 .. dlen : next[D[k]] = D[k - 1]

\* What Create relies on.
ReuseInv(len, L) ==
  /\ first_deallocated # NULL => next[first_deallocated] = head
  /\ \E flen \in Nat : \E F \in [1 .. flen -> Node] :
       /\ IsList(first_free, next_free, flen, F)
       /\ \A k \in 1 .. flen : state[F[k]] = "DESTROYED" /\ On(F[k], L, len)

\* A walk has p nodes behind it and the nodes that are still to be notified
\* before it; after a callback it does not go on at one of them.
WalkAt(len, L, p) ==
  /\ Top.at = IF p = 0 THEN NULL ELSE L[p]
  /\ \A n \in Node : state[n] = "PENDING" => \E k \in p + 1 .. len : L[k] = n
  /\ Top.callback # NULL => p < len /\ state[L[p + 1]] # "PENDING"
WalkInv(len, L) ==
  IF rounds # <<>> /\ ~Top.stale
    THEN \E p \in 0 .. len : WalkAt(len, L, p)
    ELSE \A n \in Node : state[n] # "PENDING"

ListInv == \E len, dlen \in Nat : \E L \in [1 .. len -> Node], D \in [1 .. dlen -> Node] :
  AllInv(len, L, dlen, D) /\ (MayCallApi => ReuseInv(len, L)) /\ WalkInv(len, L)

\* Only the last walk is not in a callback, and only it can go on.
RoundsInv ==
  /\ \A d \in 1 .. Len(rounds) - 1 : rounds[d].stale /\ rounds[d].callback # NULL
  /\ Walking => ~Top.stale

\* The embedder holds the nodes that are in use.
InUseInv == handles = {n \in Node : state[n] \notin {"POOL", "DESTROYED"}}

IInv == TypeOK /\ ListInv /\ RoundsInv /\ InUseInv /\ WeakCounted
=============================================================================
