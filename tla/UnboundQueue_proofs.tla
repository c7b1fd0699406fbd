------------------------- MODULE UnboundQueue_proofs -------------------------
(* UnboundQueue is a queue, for any number of records and nodes: no thread    *)
(* reads freed memory, the destructor frees everything, and the detailed      *)
(* steps implement those of Fifo.  All of it follows from HInv.               *)
EXTENDS UnboundQueueHistory, SequenceTheorems, TLAPS

Inv == TypeOK /\ HInv

---------------------------------------------------------------------------
LEMMA InitInv == HInit => Inv
<1> SUFFICES ASSUME HInit PROVE Inv
  OBVIOUS
<1> USE NodeAssumption DEF HInit, Init
<1>1. /\ Len(history) = 1 /\ history[1] = first /\ history \in Seq(Node)
      /\ Live = {1} /\ LiveNodes = {first}
  BY DEF Live, LiveNodes
<1>2. TypeOK
  BY DEF TypeOK
<1>3. Positions /\ Ends /\ Reading
  BY <1>1 DEF Positions, Ends, Reading
<1>4. Links /\ Distinct /\ Memory
  BY <1>1 DEF Links, Distinct, Memory, Publishing
<1> QED
  BY <1>2, <1>3, <1>4 DEF Inv, HInv

\* Where the ends of the list are while it is in use.
LEMMA InUse ==
  ASSUME Inv, producer.at # "destroy"
  PROVE  /\ firstAt \in Live /\ dividerAt \in Live /\ Len(history) \in Live
         /\ first = history[firstAt] /\ first \in Node
         /\ Len(history) \in Nat
<1> USE DEF Inv, TypeOK, HInv, Positions, Ends, Live
<1>1. Len(history) \in Nat /\ firstAt <= dividerAt /\ dividerAt <= Len(history)
  OBVIOUS
<1> QED
  BY <1>1

LEMMA LinkInv ==
  ASSUME Inv, NEW record \in Record, NEW n \in Node, Link(record, n), UNCHANGED historyVars
  PROVE  Inv'
<1> USE DEF Inv
<1>1. producer = [at |-> "idle", node |-> NULL] /\ ~Publishing
  BY DEF TypeOK, Link, Publishing
<1>2. producer' = [at |-> "publish", node |-> n] /\ Publishing'
  BY DEF Link, ProducerAt, Publishing
<1>3. /\ Live' = Live /\ LiveNodes' = LiveNodes /\ n \notin LiveNodes
      /\ allocated' = allocated \cup {n}
  BY <1>1 DEF Link, historyVars, Live, LiveNodes, HInv, Memory
<1>4. TypeOK'
  BY <1>2 DEF Link, TypeOK, posVars
<1>5. Positions' /\ Ends' /\ Reading'
  <2>1. Positions'
    BY <1>1, <1>2 DEF HInv, Positions, historyVars
  <2>2. Ends'
    BY DEF HInv, Ends, historyVars, Link, posVars
  <2>3. Reading'
    BY <1>1, <1>2 DEF HInv, Reading, historyVars, Link
  <2> QED BY <2>1, <2>2, <2>3
<1>6. Links'
  <2>1. /\ first \in Node /\ last \in LiveNodes /\ last = history[Len(history)]
        /\ Len(history) \in Live /\ Len(history) \in Nat
    BY <1>1, InUse DEF HInv, Ends, LiveNodes
  <2>2. next' = [next EXCEPT ![n] = NULL, ![last] = n] /\ last' = last /\ n # last
    BY <2>1, <1>3 DEF Link, posVars
  <2>3. next'[last] = n
    BY <2>2, <2>1 DEF TypeOK
  <2>4. ASSUME NEW i \in Live, i < Len(history)
        PROVE  next'[history[i]] = history[i + 1]
    <3>1. history[i] \in LiveNodes /\ history[i] # n /\ history[i] \in Node
      BY <1>3 DEF LiveNodes, Live, HInv, Positions
    <3>2. history[i] # last
      BY <2>1, <2>4 DEF HInv, Distinct
    <3> QED
      BY <3>1, <3>2, <2>2, <2>4 DEF TypeOK, HInv, Links
  <2>5. next'[n] = NULL
    BY <2>2 DEF TypeOK
  <2>6. UNCHANGED history /\ producer'.node = n
    BY <1>2 DEF historyVars
  <2> QED
    BY <2>2, <2>3, <2>4, <2>5, <2>6, <1>2, <1>3 DEF Links
<1>7. Distinct' /\ Memory'
  <2>1. Distinct'
    BY <1>3 DEF HInv, Distinct, historyVars
  <2>2. Memory'
    BY <1>1, <1>2, <1>3 DEF HInv, Memory
  <2> QED BY <2>1, <2>2
<1> QED
  BY <1>4, <1>5, <1>6, <1>7 DEF HInv

LEMMA PublishInv ==
  ASSUME Inv, Publish, history' = Append(history, producer.node),
         UNCHANGED <<firstAt, dividerAt>>
  PROVE  Inv'
<1> USE DEF Inv
<1> DEFINE n == producer.node
           l == Len(history)
<1>1. n \in Node /\ Publishing /\ producer.at = "publish" /\ n \notin LiveNodes
  BY NodeAssumption DEF TypeOK, Publish, Publishing, HInv, Memory
<1>2. producer' = [at |-> "collect", node |-> NULL] /\ ~Publishing' /\ last' = n
  BY DEF Publish, ProducerAt, Publishing
<1>3. /\ l \in Nat /\ firstAt \in Nat /\ firstAt <= l /\ l \in Live
      /\ history \in Seq(Node) /\ dividerAt \in 1 .. l
  BY <1>1, InUse DEF HInv, Positions, Live
<1>4. /\ Len(history') = l + 1 /\ history' \in Seq(Node) /\ history'[l + 1] = n
      /\ \A i \in 1 .. l : history'[i] = history[i]
  BY <1>1, <1>3
<1>5. Live' = Live \cup {l + 1} /\ Live \subseteq 1 .. l /\ l + 1 \notin Live
  BY <1>3, <1>4 DEF Live, HInv, Positions
<1>6. LiveNodes' = LiveNodes \cup {n}
  BY <1>4, <1>5 DEF LiveNodes
<1>7. TypeOK'
  BY <1>1, <1>2 DEF TypeOK, Publish, memVars
<1>8. Positions' /\ Ends' /\ Reading'
  <2>1. Positions'
    BY <1>1, <1>3, <1>4 DEF HInv, Positions
  <2>2. Ends'
    BY <1>2, <1>3, <1>4, <1>5 DEF HInv, Ends, Live, Publish
  <2>3. Reading'
    BY <1>2, <1>3, <1>4 DEF HInv, Reading, Publish
  <2> QED BY <2>1, <2>2, <2>3
<1>9. Links'
  <2>1. next' = next /\ next[last] = n /\ last = history[l]
    BY <1>1, <1>3 DEF Publish, memVars, HInv, Links, Ends
  <2>2. next[n] = NULL
    BY <1>1 DEF HInv, Links
  <2>3. ASSUME NEW i \in Live', i < Len(history')
        PROVE  next[history'[i]] = history'[i + 1]
    <3>1. i \in Live /\ i \in 1 .. l /\ history'[i] = history[i]
      BY <2>3, <1>3, <1>4, <1>5
    <3>2. CASE i = l
      BY <3>1, <3>2, <2>1, <1>4
    <3>3. CASE i < l
      BY <3>1, <3>3, <1>4, <1>3 DEF HInv, Links
    <3> QED
      BY <3>1, <3>2, <3>3, <1>3
  <2> QED
    BY <2>1, <2>2, <2>3, <1>2 DEF Links
<1>10. Distinct' /\ Memory'
  <2>1. ASSUME NEW i \in Live', NEW j \in Live', history'[i] = history'[j]
        PROVE  i = j
    <3>1. CASE i \in Live /\ j \in Live
      BY <2>1, <3>1, <1>4, <1>5 DEF HInv, Distinct
    <3>2. CASE i \in Live /\ j = l + 1
      BY <2>1, <3>2, <1>1, <1>4, <1>5 DEF LiveNodes
    <3>3. CASE i = l + 1 /\ j \in Live
      BY <2>1, <3>3, <1>1, <1>4, <1>5 DEF LiveNodes
    <3> QED
      BY <3>1, <3>2, <3>3, <1>5
  <2>2. Distinct'
    BY <2>1 DEF Distinct
  <2>3. Memory'
    BY <1>1, <1>2, <1>6 DEF Memory, HInv, Publish, memVars
  <2> QED BY <2>2, <2>3
<1> QED
  BY <1>7, <1>8, <1>9, <1>10 DEF HInv

\* What freeing the first node does to the list.
LEMMA DeleteFirstInv ==
  ASSUME Inv, DeleteFirst, firstAt \in Live, firstAt' = firstAt + 1,
         UNCHANGED <<producer, history, dividerAt>>, ~Publishing,
         producer.at = "destroy" \/ firstAt < dividerAt
  PROVE  Inv'
<1> USE DEF Inv
<1>1. /\ Len(history) \in Nat /\ firstAt \in 1 .. Len(history)
      /\ first = history[firstAt] /\ first \in Node /\ last = history[Len(history)]
      /\ dividerAt \in 1 .. Len(history) /\ history \in Seq(Node)
  BY DEF HInv, Positions, Ends, Live
<1>2. Live = Live' \cup {firstAt} /\ firstAt \notin Live' /\ ~Publishing'
  BY <1>1 DEF Live, Publishing
<1>3. first' = next[first] /\ allocated' = allocated \ {first} /\ next' = next
      /\ UNCHANGED <<value, divider, last, consumer, taken, producer, history, dividerAt>>
  BY DEF DeleteFirst, Freed
<1>4. first' = IF firstAt' <= Len(history) THEN history[firstAt'] ELSE NULL
  <2>1. CASE firstAt = Len(history)
    BY <2>1, <1>1, <1>3 DEF HInv, Links, Publishing
  <2>2. CASE firstAt < Len(history)
    BY <2>2, <1>1, <1>3 DEF HInv, Links
  <2> QED
    BY <2>1, <2>2, <1>1
<1>5. LiveNodes' = LiveNodes \ {first}
  <2>1. ASSUME NEW i \in Live' PROVE history[i] # first
    BY <2>1, <1>1, <1>2 DEF HInv, Distinct
  <2> QED
    BY <2>1, <1>1, <1>2, <1>3 DEF LiveNodes
<1>6. TypeOK'
  <2>1. first' \in Node \cup {NULL}
    BY <1>1, <1>4
  <2> QED
    BY <2>1, <1>3 DEF TypeOK
<1>7. Positions' /\ Ends' /\ Reading'
  <2>1. Positions'
    BY <1>1, <1>3 DEF HInv, Positions
  <2>2. Ends'
    BY <1>3, <1>4 DEF HInv, Ends
  <2>3. Reading'
    BY <1>3 DEF HInv, Reading
  <2> QED BY <2>1, <2>2, <2>3
<1>8. Links' /\ Distinct' /\ Memory'
  <2>1. Links'
    BY <1>1, <1>2, <1>3 DEF HInv, Links, Publishing
  <2>2. Distinct'
    BY <1>2, <1>3 DEF HInv, Distinct
  <2>3. Memory'
    BY <1>2, <1>3, <1>5 DEF HInv, Memory
  <2> QED BY <2>1, <2>2, <2>3
<1> QED
  BY <1>6, <1>7, <1>8 DEF HInv

LEMMA DeleteConsumedInv ==
  ASSUME Inv, DeleteConsumed, firstAt' = firstAt + 1, UNCHANGED <<history, dividerAt>>
  PROVE  Inv'
<1>1. producer.at = "collect" /\ ~Publishing /\ DeleteFirst /\ UNCHANGED producer
  BY DEF DeleteConsumed, Publishing
<1>2. firstAt \in Live /\ first = history[firstAt] /\ first # divider
  BY <1>1, InUse DEF DeleteConsumed, Consumed
<1>3. firstAt < dividerAt
  <2>1. firstAt <= dividerAt /\ divider = history[dividerAt]
        /\ firstAt \in Nat /\ dividerAt \in Nat
    BY <1>1 DEF Inv, HInv, Positions, Ends
  <2> QED
    BY <2>1, <1>2
<1> QED
  BY <1>1, <1>2, <1>3, DeleteFirstInv

LEMMA DestroyInv ==
  ASSUME Inv, Destroy, firstAt' = firstAt + 1, UNCHANGED <<history, dividerAt>>
  PROVE  Inv'
<1>1. producer.at = "destroy" /\ ~Publishing /\ DeleteFirst /\ UNCHANGED producer
  BY DEF Destroy, Publishing
<1>2. firstAt \in Live
  BY DEF Destroy, Inv, HInv, Positions, Ends, Live
<1> QED
  BY <1>1, <1>2, DeleteFirstInv

\* The steps that move neither the list's ends nor its nodes.
LEMMA StayInv ==
  ASSUME Inv, EnqueueReturns \/ FindNonEmpty \/ Leave \/ ReadNext \/ StartDestroy,
         UNCHANGED historyVars
  PROVE  Inv'
<1> USE DEF Inv
<1>1. UNCHANGED <<memVars, posVars, taken, history, firstAt, dividerAt>>
  BY DEF EnqueueReturns, FindNonEmpty, Leave, ReadNext, StartDestroy, historyVars
<1>2. ~Publishing' <=> ~Publishing
  BY DEF EnqueueReturns, FindNonEmpty, Leave, ReadNext, StartDestroy, ProducerAt, Publishing
<1>3. Publishing => producer' = producer
  BY DEF EnqueueReturns, FindNonEmpty, Leave, ReadNext, StartDestroy, Publishing
<1>4. producer'.at # "destroy" => producer.at # "destroy"
  BY DEF EnqueueReturns, FindNonEmpty, Leave, ReadNext, StartDestroy, ProducerAt
<1>5. producer' \in [at : {"idle", "collect", "destroy"}, node : {NULL}]
      \/ producer' \in [at : {"publish"}, node : Node]
  BY DEF EnqueueReturns, FindNonEmpty, Leave, ReadNext, StartDestroy, ProducerAt, TypeOK
<1>6. Reading'
  <2>1. CASE EnqueueReturns
    BY <2>1, <1>1 DEF EnqueueReturns, ProducerAt, Reading, HInv
  <2>2. CASE FindNonEmpty
    <3>1. /\ consumer' = [at |-> "nonempty", node |-> NULL] /\ producer' = producer
          /\ producer.at # "destroy" /\ divider # last
      BY <2>2 DEF FindNonEmpty, ConsumerAt
    <3>2. dividerAt # Len(history) /\ dividerAt <= Len(history) /\ dividerAt \in Nat
      BY <3>1 DEF HInv, Positions, Ends
    <3> QED
      BY <3>1, <3>2, <1>1 DEF Reading, HInv, Positions
  <2>3. CASE Leave
    BY <2>3 DEF Leave, ConsumerAt, Reading
  <2>4. CASE ReadNext
    <3>1. consumer' = [at |-> "read", node |-> next[divider]] /\ producer' = producer
          /\ consumer.at = "nonempty"
      BY <2>4 DEF ReadNext, ConsumerAt, NextNode
    <3>2. dividerAt < Len(history) /\ producer.at # "destroy"
      BY <3>1 DEF HInv, Reading
    <3>3. next[divider] = history[dividerAt + 1]
      BY <3>2, InUse DEF HInv, Links, Ends
    <3> QED
      BY <3>1, <3>2, <3>3, <1>1 DEF Reading
  <2>5. CASE StartDestroy
    BY <2>5 DEF StartDestroy, Reading
  <2> QED
    BY <2>1, <2>2, <2>3, <2>4, <2>5
<1>7. \/ consumer' \in [at : {"idle", "nonempty"}, node : {NULL}]
      \/ consumer' \in [at : {"read"}, node : Node]
  <2>1. CASE ReadNext
    <3>1. consumer' = [at |-> "read", node |-> next[divider]] /\ consumer.at = "nonempty"
      BY <2>1 DEF ReadNext, ConsumerAt, NextNode
    <3>2. dividerAt < Len(history) /\ producer.at # "destroy"
      BY <3>1 DEF HInv, Reading
    <3>3. next[divider] = history[dividerAt + 1] /\ history[dividerAt + 1] \in Node
      BY <3>2, InUse DEF HInv, Links, Ends, Positions
    <3> QED
      BY <3>1, <3>3
  <2>2. CASE ~ReadNext
    BY <2>2 DEF EnqueueReturns, FindNonEmpty, Leave, StartDestroy, ConsumerAt, TypeOK
  <2> QED
    BY <2>1, <2>2
<1>8. TypeOK'
  BY <1>1, <1>5, <1>7 DEF TypeOK, memVars, posVars
<1>9. Positions' /\ Ends'
  BY <1>1, <1>4 DEF HInv, Positions, Ends, posVars
<1>10. Links' /\ Distinct' /\ Memory'
  <2>1. Live' = Live /\ LiveNodes' = LiveNodes
    BY <1>1 DEF Live, LiveNodes
  <2>2. Links'
    BY <2>1, <1>1, <1>2, <1>3 DEF HInv, Links, memVars, posVars
  <2>3. Distinct'
    BY <2>1, <1>1 DEF HInv, Distinct
  <2>4. Memory'
    BY <2>1, <1>1, <1>2, <1>3 DEF HInv, Memory, memVars
  <2> QED BY <2>2, <2>3, <2>4
<1> QED
  BY <1>6, <1>8, <1>9, <1>10 DEF HInv

LEMMA ReleaseInv ==
  ASSUME Inv, Release, dividerAt' = dividerAt + 1, UNCHANGED <<history, firstAt>>
  PROVE  Inv'
<1> USE DEF Inv
<1>1. /\ consumer.at = "read" /\ consumer.node \in Node
      /\ consumer.node = history[dividerAt + 1] /\ dividerAt < Len(history)
      /\ producer.at # "destroy"
  BY DEF Release, TypeOK, HInv, Reading
<1>2. /\ divider' = consumer.node /\ consumer' = [at |-> "idle", node |-> NULL]
      /\ taken' = value[consumer.node]
      /\ UNCHANGED <<next, value, allocated, first, last, producer, history, firstAt>>
  BY DEF Release, ConsumerAt, RecordRead, memVars
<1>3. TypeOK'
  BY <1>1, <1>2 DEF TypeOK
<1>4. Positions' /\ Ends' /\ Reading'
  <2>1. Positions'
    BY <1>1, <1>2 DEF HInv, Positions
  <2>2. Ends'
    BY <1>1, <1>2 DEF HInv, Ends
  <2>3. Reading'
    BY <1>2 DEF Reading
  <2> QED BY <2>1, <2>2, <2>3
<1>5. Live' = Live /\ LiveNodes' = LiveNodes /\ Publishing' = Publishing
  BY <1>2 DEF Live, LiveNodes, Publishing
<1>6. Links' /\ Distinct' /\ Memory'
  BY <1>2, <1>5 DEF HInv, Links, Distinct, Memory
<1> QED
  BY <1>3, <1>4, <1>6 DEF HInv

LEMMA StutterInv ==
  ASSUME Inv, UNCHANGED allVars
  PROVE  Inv'
<1>1. UNCHANGED <<next, value, allocated, first, divider, last, producer, consumer, taken,
                  history, firstAt, dividerAt>>
  BY DEF allVars, vars, historyVars, memVars, posVars
<1>2. Live' = Live /\ LiveNodes' = LiveNodes /\ Publishing' = Publishing
  BY <1>1 DEF Live, LiveNodes, Publishing
<1>3. TypeOK'
  BY <1>1 DEF Inv, TypeOK
<1>4. Positions' /\ Ends' /\ Reading'
  BY <1>1 DEF Inv, HInv, Positions, Ends, Reading
<1>5. Links' /\ Distinct' /\ Memory'
  BY <1>1, <1>2 DEF Inv, HInv, Links, Distinct, Memory
<1> QED
  BY <1>3, <1>4, <1>5 DEF Inv, HInv

LEMMA Invariant == HSpec => []Inv
<1>1. ASSUME Inv, [HNext]_allVars PROVE Inv'
  <2> USE <1>1
  <2>1. ASSUME NEW record \in Record, NEW n \in Node, Link(record, n), UNCHANGED historyVars
        PROVE  Inv'
    BY <2>1, LinkInv
  <2>2. CASE Publish /\ history' = Append(history, producer.node)
             /\ UNCHANGED <<firstAt, dividerAt>>
    BY <2>2, PublishInv
  <2>3. CASE (DeleteConsumed \/ Destroy) /\ firstAt' = firstAt + 1
             /\ UNCHANGED <<history, dividerAt>>
    BY <2>3, DeleteConsumedInv, DestroyInv
  <2>4. CASE (EnqueueReturns \/ FindNonEmpty \/ Leave \/ ReadNext \/ StartDestroy)
             /\ UNCHANGED historyVars
    BY <2>4, StayInv
  <2>5. CASE Release /\ dividerAt' = dividerAt + 1 /\ UNCHANGED <<history, firstAt>>
    BY <2>5, ReleaseInv
  <2>6. CASE UNCHANGED allVars
    BY <2>6, StutterInv
  <2> QED
    BY <2>1, <2>2, <2>3, <2>4, <2>5, <2>6 DEF HNext
<1> QED
  BY <1>1, InitInv, PTL DEF HSpec

---------------------------------------------------------------------------
\* The variables have their types, in every behaviour of the queue.
THEOREM TypeCorrect == HSpec => []TypeOK
<1>1. Inv => TypeOK
  BY DEF Inv
<1> QED
  BY <1>1, Invariant, PTL

\* No step of Peek, Dequeue, Enqueue or the destructor reads a freed node.
THEOREM MemorySafe == HSpec => []NoUseAfterFree
<1>1. ASSUME Inv PROVE NoUseAfterFree
  <2> USE <1>1 DEF Inv
  <2>1. first \in allocated \/ (producer.at = "destroy" /\ first = NULL)
    <3>1. CASE firstAt <= Len(history)
      BY <3>1 DEF HInv, Positions, Ends, Memory, LiveNodes, Live
    <3>2. CASE ~(firstAt <= Len(history))
      BY <3>2, InUse DEF HInv, Ends, Live, Positions
    <3> QED BY <3>1, <3>2
  <2>2. producer.at # "destroy" => divider \in LiveNodes /\ last \in LiveNodes
    BY InUse DEF HInv, Ends, LiveNodes
  <2>3. consumer.at # "idle" => history[dividerAt + 1] \in LiveNodes
    <3> SUFFICES ASSUME consumer.at # "idle" PROVE dividerAt + 1 \in Live
      BY DEF LiveNodes
    <3>1. dividerAt < Len(history) /\ producer.at # "destroy"
      BY DEF HInv, Reading
    <3> QED
      BY <3>1, InUse DEF Live, HInv, Positions
  <2>4. consumer.at = "nonempty" => next[divider] = history[dividerAt + 1]
    BY InUse DEF HInv, Reading, Links, Ends
  <2>5. LiveNodes \subseteq allocated
    BY DEF HInv, Memory
  <2>6. consumer.at = "read" => consumer.node = history[dividerAt + 1]
    BY DEF HInv, Reading
  <2> QED
    BY <2>1, <2>2, <2>3, <2>4, <2>5, <2>6 DEF NoUseAfterFree, NextNode
<1> QED
  BY <1>1, Invariant, PTL

\* When the destructor has run, no node is left.
THEOREM FreesEverything == HSpec => []NothingLeaked
<1>1. ASSUME Inv PROVE NothingLeaked
  <2> SUFFICES ASSUME first = NULL PROVE allocated = {}
    BY DEF NothingLeaked
  <2>1. ~(firstAt <= Len(history)) /\ producer.at = "destroy"
    BY <1>1, NodeAssumption, InUse DEF Inv, HInv, Ends, Positions, Live
  <2>2. Live = {} /\ ~Publishing
    BY <1>1, <2>1 DEF Inv, HInv, Positions, Live, Publishing
  <2> QED
    BY <1>1, <2>2 DEF Inv, HInv, Memory, LiveNodes
<1> QED
  BY <1>1, Invariant, PTL
---------------------------------------------------------------------------
(* The steps of the threads are steps of a queue.                            *)

LEMMA SeqOfRecords ==
  ASSUME NEW h \in Seq(Node), NEW d \in 1 .. Len(h), NEW val \in [Node -> Record], NEW c,
         c = [i \in 1 .. Len(h) - d |-> val[h[d + i]]]
  PROVE  /\ c \in Seq(Record)
         /\ Len(c) = Len(h) - d
         /\ \A i \in 1 .. Len(c) : c[i] = val[h[d + i]]
<1>1. Len(h) \in Nat /\ Len(h) - d \in Nat
  OBVIOUS
<1>2. ASSUME NEW i \in 1 .. Len(h) - d PROVE val[h[d + i]] \in Record
  <2>1. d + i \in 1 .. Len(h)
    BY <1>1
  <2>2. h[d + i] \in Node
    BY <2>1, ElementOfSeq
  <2> QED
    BY <2>2
<1>3. c \in [1 .. Len(h) - d -> Record]
  BY <1>2
<1> QED
  BY <1>1, <1>3, SeqDef, LenProperties

LEMMA ContentsSeq ==
  ASSUME Inv
  PROVE  /\ contents \in Seq(Record)
         /\ Len(contents) = Len(history) - dividerAt
         /\ \A i \in 1 .. Len(contents) : contents[i] = value[history[dividerAt + i]]
<1>1. /\ history \in Seq(Node) /\ dividerAt \in 1 .. Len(history)
      /\ value \in [Node -> Record]
  BY DEF Inv, TypeOK, HInv, Positions
<1>2. contents = [i \in 1 .. Len(history) - dividerAt |-> value[history[dividerAt + i]]]
  BY DEF contents
<1> QED
  BY <1>1, <1>2, SeqOfRecords

LEMMA ContentsSeqNext ==
  ASSUME Inv'
  PROVE  /\ contents' \in Seq(Record)
         /\ Len(contents') = Len(history') - dividerAt'
         /\ \A i \in 1 .. Len(contents') : contents'[i] = value'[history'[dividerAt' + i]]
<1> DEFINE h == history'
           d == dividerAt'
           val == value'
           c == contents'
<1>1. h \in Seq(Node) /\ d \in 1 .. Len(h) /\ val \in [Node -> Record]
  BY DEF Inv, TypeOK, HInv, Positions
<1>2. c = [i \in 1 .. Len(h) - d |-> val[h[d + i]]]
  BY DEF contents
<1> HIDE DEF h, d, val, c
<1>3. /\ c \in Seq(Record) /\ Len(c) = Len(h) - d
      /\ \A i \in 1 .. Len(c) : c[i] = val[h[d + i]]
  BY <1>1, <1>2, SeqOfRecords
<1> QED
  BY <1>3 DEF h, d, val, c

LEMMA LinkKeepsContents ==
  ASSUME Inv, NEW record \in Record, NEW n \in Node, Link(record, n), UNCHANGED historyVars
  PROVE  contents' = contents /\ taken' = taken
<1>1. /\ producer.at = "idle" /\ n \notin allocated
      /\ value' = [value EXCEPT ![n] = record] /\ taken' = taken
      /\ history' = history /\ dividerAt' = dividerAt
  BY DEF Link, historyVars
<1>2. /\ dividerAt \in Live /\ Len(history) \in Nat /\ value \in [Node -> Record]
      /\ n \notin LiveNodes /\ history \in Seq(Node) /\ firstAt \in Nat
  BY <1>1, InUse DEF Inv, TypeOK, HInv, Memory, Positions
<1>3. ASSUME NEW i \in 1 .. Len(history) - dividerAt
      PROVE  value'[history[dividerAt + i]] = value[history[dividerAt + i]]
  <2>1. dividerAt + i \in Live
    BY <1>2, <1>3 DEF Live
  <2> QED
    BY <2>1, <1>1, <1>2 DEF LiveNodes
<1> QED
  BY <1>1, <1>3 DEF contents

LEMMA PublishEnqueues ==
  ASSUME Inv, Inv', Publish, history' = Append(history, producer.node),
         UNCHANGED <<firstAt, dividerAt>>
  PROVE  Fifo!Enqueue
<1> DEFINE v == value[producer.node]
<1>1. producer.node \in Node /\ v \in Record /\ UNCHANGED <<value, taken>>
  BY NodeAssumption DEF Inv, TypeOK, Publish, memVars
<1>2. /\ history \in Seq(Node) /\ Len(history) \in Nat /\ dividerAt \in 1 .. Len(history)
      /\ Len(history') = Len(history) + 1
      /\ history'[Len(history) + 1] = producer.node
      /\ \A i \in 1 .. Len(history) : history'[i] = history[i]
  BY <1>1 DEF Inv, HInv, Positions
<1>3. contents' = Append(contents, v)
  <2>1. /\ contents \in Seq(Record) /\ Len(contents) = Len(history) - dividerAt
        /\ \A i \in 1 .. Len(contents) : contents[i] = value[history[dividerAt + i]]
    BY ContentsSeq
  <2>2. /\ contents' \in Seq(Record) /\ Len(contents') = Len(history) + 1 - dividerAt
        /\ \A i \in 1 .. Len(contents') : contents'[i] = value[history'[dividerAt + i]]
    <3>1. /\ contents' \in Seq(Record) /\ Len(contents') = Len(history') - dividerAt'
          /\ \A i \in 1 .. Len(contents') : contents'[i] = value'[history'[dividerAt' + i]]
      BY ContentsSeqNext
    <3>2. dividerAt' = dividerAt /\ value' = value
      BY <1>1
    <3>3. Len(contents') = Len(history) + 1 - dividerAt
      BY <3>1, <3>2, <1>2
    <3>4. ASSUME NEW i \in 1 .. Len(contents')
          PROVE  contents'[i] = value[history'[dividerAt + i]]
      <4>1. contents'[i] = value'[history'[dividerAt' + i]]
        BY <3>1
      <4> QED
        BY <4>1, <3>2
    <3> QED
      BY <3>1, <3>3, <3>4
  <2>3. /\ Append(contents, v) \in Seq(Record)
        /\ Len(Append(contents, v)) = Len(contents) + 1
        /\ \A i \in 1 .. Len(contents) : Append(contents, v)[i] = contents[i]
        /\ Append(contents, v)[Len(contents) + 1] = v
    BY <2>1, <1>1
  <2>4. ASSUME NEW i \in 1 .. Len(contents')
        PROVE  contents'[i] = Append(contents, v)[i]
    <3>1. CASE i = Len(contents) + 1
      <4>1. dividerAt + i = Len(history) + 1
        BY <3>1, <2>1, <1>2
      <4> QED
        BY <3>1, <4>1, <2>2, <2>3, <1>2
    <3>2. CASE i \in 1 .. Len(contents)
      <4>1. dividerAt + i \in 1 .. Len(history)
        BY <3>2, <2>1, <1>2
      <4>2. contents'[i] = value[history'[dividerAt + i]]
        BY <2>2, <2>4
      <4>3. history'[dividerAt + i] = history[dividerAt + i]
        BY <4>1, <1>2
      <4>4. contents[i] = value[history[dividerAt + i]] /\ Append(contents, v)[i] = contents[i]
        BY <3>2, <2>1, <2>3
      <4> QED
        BY <4>2, <4>3, <4>4
    <3>3. Len(contents) \in Nat /\ Len(contents') = Len(contents) + 1
      BY <2>1, <2>2, <1>2
    <3> QED
      BY <3>1, <3>2, <3>3
  <2>5. Len(contents') = Len(Append(contents, v))
    BY <2>1, <2>2, <2>3, <1>2
  <2> QED
    BY <2>2, <2>3, <2>4, <2>5, SeqEqual
<1> QED
  BY <1>1, <1>3 DEF Fifo!Enqueue

LEMMA ReleaseDequeues ==
  ASSUME Inv, Inv', Release, dividerAt' = dividerAt + 1, UNCHANGED <<history, firstAt>>
  PROVE  Fifo!Dequeue
<1>1. /\ consumer.at = "read" /\ consumer.node = history[dividerAt + 1]
      /\ dividerAt < Len(history) /\ Len(history) \in Nat /\ dividerAt \in Nat
      /\ taken' = value[history[dividerAt + 1]] /\ value' = value
  BY DEF Release, RecordRead, memVars, Inv, HInv, Reading, Positions
<1>2. /\ contents \in Seq(Record) /\ Len(contents) = Len(history) - dividerAt
      /\ \A i \in 1 .. Len(contents) : contents[i] = value[history[dividerAt + i]]
  BY ContentsSeq
<1>3. /\ contents' \in Seq(Record) /\ Len(contents') = Len(history) - (dividerAt + 1)
      /\ \A i \in 1 .. Len(contents') : contents'[i] = value[history[dividerAt + 1 + i]]
  BY ContentsSeqNext, <1>1
<1>4. contents # <<>> /\ 1 \in 1 .. Len(contents)
  BY <1>1, <1>2
<1>5. taken' = Head(contents)
  BY <1>1, <1>2, <1>4
<1>6. contents' = Tail(contents)
  <2>1. /\ Tail(contents) \in Seq(Record) /\ Len(Tail(contents)) = Len(contents) - 1
        /\ \A i \in 1 .. Len(Tail(contents)) : Tail(contents)[i] = contents[i + 1]
    BY <1>2, <1>4, HeadTailProperties
  <2>2. ASSUME NEW i \in 1 .. Len(contents')
        PROVE  contents'[i] = Tail(contents)[i]
    <3>1. i \in 1 .. Len(Tail(contents)) /\ i + 1 \in 1 .. Len(contents)
          /\ dividerAt + 1 + i = dividerAt + (i + 1)
      BY <1>1, <1>2, <1>3, <2>1
    <3> QED
      BY <3>1, <1>2, <1>3, <2>1
  <2>3. Len(contents') = Len(Tail(contents))
    BY <1>1, <1>2, <1>3, <2>1
  <2> QED
    BY <1>3, <2>1, <2>2, <2>3, SeqEqual
<1> QED
  BY <1>4, <1>5, <1>6 DEF Fifo!Dequeue

\* The queue between the two threads is first in, first out, for any number of
\* records and whatever addresses the allocator returns.
THEOREM ImplementsFifo == HSpec => IsFifo
<1>1. HInit => Fifo!Init
  BY DEF HInit, Fifo!Init, contents
<1>2. ASSUME Inv, Inv', [HNext]_allVars
      PROVE  [Fifo!Enqueue \/ Fifo!Dequeue]_<<contents, taken>>
  <2> USE <1>2
  <2>1. ASSUME NEW record \in Record, NEW n \in Node, Link(record, n), UNCHANGED historyVars
        PROVE  UNCHANGED <<contents, taken>>
    BY <2>1, LinkKeepsContents
  <2>2. CASE Publish /\ history' = Append(history, producer.node)
             /\ UNCHANGED <<firstAt, dividerAt>>
    BY <2>2, PublishEnqueues
  <2>3. CASE (DeleteConsumed \/ Destroy) /\ firstAt' = firstAt + 1
             /\ UNCHANGED <<history, dividerAt>>
    BY <2>3 DEF DeleteConsumed, Destroy, DeleteFirst, contents
  <2>4. CASE (EnqueueReturns \/ FindNonEmpty \/ Leave \/ ReadNext \/ StartDestroy)
             /\ UNCHANGED historyVars
    BY <2>4 DEF EnqueueReturns, FindNonEmpty, Leave, ReadNext, StartDestroy, historyVars,
                memVars, contents
  <2>5. CASE Release /\ dividerAt' = dividerAt + 1 /\ UNCHANGED <<history, firstAt>>
    BY <2>5, ReleaseDequeues
  <2>6. CASE UNCHANGED allVars
    BY <2>6 DEF allVars, vars, historyVars, memVars, contents
  <2> QED
    BY <2>1, <2>2, <2>3, <2>4, <2>5, <2>6 DEF HNext
<1> QED
  BY <1>1, <1>2, Invariant, PTL DEF HSpec, IsFifo, Fifo!Spec
=============================================================================
