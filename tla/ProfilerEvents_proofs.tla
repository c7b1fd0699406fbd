------------------------ MODULE ProfilerEvents_proofs ------------------------
(* Proofs about ProfilerEvents and its ring, for rings of any size.          *)
EXTENDS ProfilerEventsInv, FiniteSetTheorems, TLAPS

---------------------------------------------------------------------------
(* The ring.                                                                *)

\* The chunks tile the ring: the only place products of the two constants are
\* looked at.
LEMMA Tiling ==
  /\ ChunkRecords \in Nat \ {0} /\ Size \in Nat \ {0} /\ producer_consumer_distance \in Nat
  /\ producer_consumer_distance = ChunkRecords + ChunkRecords
  /\ producer_consumer_distance + ChunkRecords <= Size
  /\ Position = 0 .. Size - 1 /\ NULL = -1
  /\ 0 \in ChunkStart /\ producer_consumer_distance \in ChunkStart
  /\ \A s \in ChunkStart : s \in Nat /\ s + ChunkRecords <= Size /\ s \in Position
  /\ \A s \in ChunkStart : s + ChunkRecords # Size => s + ChunkRecords \in ChunkStart
  /\ \A s, t \in ChunkStart : s < t => s + ChunkRecords <= t
  /\ \A p \in Position : p \in ChunkStart <=> p % ChunkRecords = 0
<1>1. ChunkRecords \in Nat \ {0} /\ Chunks \in Nat /\ Chunks > 2
  BY QueueAssumption
<1> DEFINE R == ChunkRecords
           C == Chunks
<1>2. \A c \in Nat : c * R \in Nat /\ (c + 1) * R = c * R + R /\ (c * R) % R = 0
  BY <1>1
<1>3. \A c, d \in Nat : c < d => c * R + R <= d * R
  BY <1>1
<1>4. Size = C * R /\ Size \in Nat \ {0}
  <2>1. Size = C * R
    BY <1>1 DEF Size
  <2>2. 0 * R + R <= C * R /\ 0 * R = 0
    BY <1>1, <1>3
  <2> QED
    BY <1>1, <2>1, <2>2
<1>5. producer_consumer_distance = R + R
  BY <1>1 DEF producer_consumer_distance
<1>6. \A s \in ChunkStart : \E c \in 0 .. C - 1 : s = c * R
  BY DEF ChunkStart
<1>7. \A c \in 0 .. C - 1 : c \in Nat /\ c * R \in ChunkStart /\ c * R + R <= Size
  BY <1>1, <1>3, <1>4 DEF ChunkStart
<1>8. 0 * R = 0 /\ 2 * R = R + R
  BY <1>1
<1>9. 0 \in 0 .. C - 1 /\ 2 \in 0 .. C - 1
  BY <1>1
<1>10. 0 \in ChunkStart /\ R + R \in ChunkStart /\ R + R + R <= Size
  BY <1>7, <1>8, <1>9
<1>11. \A s \in ChunkStart : s \in Nat /\ s + R <= Size /\ s % R = 0
  BY <1>2, <1>6, <1>7
<1>12. ASSUME NEW s \in ChunkStart, s + R # Size PROVE s + R \in ChunkStart
  <2>1. PICK c \in 0 .. C - 1 : s = c * R
    BY <1>6
  <2>2. c \in Nat /\ s + R = (c + 1) * R
    BY <1>2, <1>7, <2>1
  <2>3. c + 1 # C
    BY <1>4, <1>12, <2>2
  <2>4. c + 1 \in 0 .. C - 1
    BY <1>1, <2>2, <2>3
  <2> QED
    BY <1>7, <2>2, <2>4
<1>13. ASSUME NEW s \in ChunkStart, NEW t \in ChunkStart, s < t PROVE s + R <= t
  <2>1. PICK c \in 0 .. C - 1, d \in 0 .. C - 1 : s = c * R /\ t = d * R
    BY <1>6
  <2>2. c \in Nat /\ d \in Nat
    BY <1>7
  <2>3. c < d
    <3>1. d < c => d * R + R <= c * R
      BY <1>3, <2>2
    <3>2. c * R \in Nat /\ d * R \in Nat
      BY <1>2, <2>2
    <3> QED
      BY <1>1, <1>13, <2>1, <2>2, <3>1, <3>2
  <2> QED
    BY <1>3, <2>1, <2>2, <2>3
<1>14. ASSUME NEW p \in Position, p % R = 0 PROVE p \in ChunkStart
  <2>1. p \in Nat /\ p < Size
    BY <1>4 DEF Position
  <2>2. PICK c \in Int : p = c * R
    BY <1>1, <1>14, <2>1, SMTT(30)
  <2>3. c \in 0 .. C - 1
    BY <1>1, <1>4, <2>1, <2>2, SMTT(30)
  <2> QED
    BY <1>7, <2>2, <2>3
<1>15. \A s \in ChunkStart : s \in Position
  BY <1>1, <1>4, <1>11 DEF Position
<1> QED
  BY <1>1, <1>4, <1>5, <1>10, <1>11, <1>12, <1>13, <1>14, <1>15 DEF Position, NULL

\* What the operations do to the fields of the queue.
LEMMA QueueFields ==
  ASSUME NEW q \in Queue(Tick)
  PROVE  /\ q.buffer \in [Position -> Tick] /\ q.clear \in SUBSET Position /\ q.enqueue_pos \in 0 .. Size
         /\ q.dequeue_chunk_pos \in Position /\ q.dequeue_chunk_poll_pos \in Position
         /\ q.dequeue_pos \in Position \cup {NULL}
BY DEF Queue

LEMMA EnqueueFields ==
  ASSUME NEW q \in Queue(Tick), NEW r \in Tick, NEW p, p = WrapPositionIfNeeded(q.enqueue_pos)
  PROVE  /\ Enqueue(q, r) \in Queue(Tick) /\ p \in Position
         /\ Enqueue(q, r).buffer = [q.buffer EXCEPT ![p] = r] /\ Enqueue(q, r).clear = q.clear \ {p}
         /\ Enqueue(q, r).enqueue_pos = p + 1
         /\ Enqueue(q, r).dequeue_chunk_pos = q.dequeue_chunk_pos
         /\ Enqueue(q, r).dequeue_chunk_poll_pos = q.dequeue_chunk_poll_pos
         /\ Enqueue(q, r).dequeue_pos = q.dequeue_pos
<1>1. Size \in Nat \ {0} /\ Position = 0 .. Size - 1
  BY Tiling
<1>2. p \in Position /\ p + 1 \in 0 .. Size
  BY <1>1, QueueFields DEF WrapPositionIfNeeded
<1>3. [q.buffer EXCEPT ![p] = r] \in [Position -> Tick] /\ q.clear \ {p} \in SUBSET Position
  BY <1>2, QueueFields
<1>4. Enqueue(q, r) = [q EXCEPT !.buffer = [q.buffer EXCEPT ![p] = r], !.clear = q.clear \ {p}, !.enqueue_pos = p + 1]
  BY DEF Enqueue
<1> QED
  BY <1>2, <1>3, <1>4 DEF Queue

LEMMA StartFields ==
  ASSUME NEW q \in Queue(Tick)
  PROVE  /\ StartDequeue(q) \in Queue(Tick)
         /\ StartDequeue(q).buffer = q.buffer /\ StartDequeue(q).clear = q.clear
         /\ StartDequeue(q).enqueue_pos = q.enqueue_pos
         /\ StartDequeue(q).dequeue_chunk_pos = q.dequeue_chunk_pos
         /\ StartDequeue(q).dequeue_chunk_poll_pos = q.dequeue_chunk_poll_pos
         /\ StartDequeue(q).dequeue_pos = IF q.dequeue_pos = NULL /\ q.dequeue_chunk_poll_pos \notin q.clear
                                            THEN q.dequeue_chunk_pos ELSE q.dequeue_pos
BY QueueFields DEF StartDequeue, Queue

LEMMA FlushFields ==
  ASSUME NEW q \in Queue(Tick)
  PROVE  /\ FlushResidualRecords(q) \in Queue(Tick)
         /\ FlushResidualRecords(q).buffer = q.buffer /\ FlushResidualRecords(q).clear = q.clear
         /\ FlushResidualRecords(q).enqueue_pos = q.enqueue_pos
         /\ FlushResidualRecords(q).dequeue_chunk_pos = q.dequeue_chunk_pos
         /\ FlushResidualRecords(q).dequeue_chunk_poll_pos = q.dequeue_chunk_pos
         /\ FlushResidualRecords(q).dequeue_pos = q.dequeue_pos
BY QueueFields DEF FlushResidualRecords, Queue

\* FinishDequeue inside a chunk, and at its end.
LEMMA FinishFields ==
  ASSUME NEW q \in Queue(Tick), {q.dequeue_chunk_pos, q.dequeue_chunk_poll_pos} \subseteq ChunkStart,
         q.dequeue_pos \in q.dequeue_chunk_pos .. q.dequeue_chunk_pos + ChunkRecords - 1
  PROVE  /\ FinishDequeue(q) \in Queue(Tick)
         /\ FinishDequeue(q).buffer = q.buffer /\ FinishDequeue(q).enqueue_pos = q.enqueue_pos
         /\ q.dequeue_pos + 1 < q.dequeue_chunk_pos + ChunkRecords =>
              /\ FinishDequeue(q).clear = q.clear
              /\ FinishDequeue(q).dequeue_chunk_pos = q.dequeue_chunk_pos
              /\ FinishDequeue(q).dequeue_chunk_poll_pos = q.dequeue_chunk_poll_pos
              /\ FinishDequeue(q).dequeue_pos = q.dequeue_pos + 1
         /\ ~(q.dequeue_pos + 1 < q.dequeue_chunk_pos + ChunkRecords) =>
              /\ FinishDequeue(q).clear = q.clear \cup {q.dequeue_chunk_pos}
              /\ FinishDequeue(q).dequeue_chunk_pos = Advance(q.dequeue_chunk_pos)
              /\ FinishDequeue(q).dequeue_chunk_poll_pos = Advance(q.dequeue_chunk_poll_pos)
              /\ FinishDequeue(q).dequeue_pos = NULL
<1>1. /\ ChunkRecords \in Nat \ {0} /\ Size \in Nat \ {0} /\ Position = 0 .. Size - 1 /\ NULL = -1
      /\ \A s \in ChunkStart : s \in Nat /\ s + ChunkRecords <= Size
  BY Tiling
<1>2. CASE q.dequeue_pos + 1 < q.dequeue_chunk_pos + ChunkRecords
  <2>1. q.dequeue_pos + 1 \in Position
    BY <1>1, <1>2
  <2>2. FinishDequeue(q) = [q EXCEPT !.dequeue_pos = q.dequeue_pos + 1]
    BY <1>2 DEF FinishDequeue
  <2> QED
    BY <1>2, <2>1, <2>2 DEF Queue
<1>3. CASE ~(q.dequeue_pos + 1 < q.dequeue_chunk_pos + ChunkRecords)
  <2>1. \A s \in ChunkStart : Advance(s) \in Position
    BY <1>1 DEF Advance, WrapPositionIfNeeded
  <2>2. PICK c, a, b : /\ c = q.clear \cup {q.dequeue_chunk_pos} /\ a = Advance(q.dequeue_chunk_pos)
                       /\ b = Advance(q.dequeue_chunk_poll_pos)
    OBVIOUS
  <2>3. FinishDequeue(q) = [q EXCEPT !.dequeue_pos = NULL, !.clear = c,
                                     !.dequeue_chunk_pos = a, !.dequeue_chunk_poll_pos = b]
    BY <1>3, <2>2 DEF FinishDequeue, NextChunk
  <2>4. c \in SUBSET Position /\ a \in Position /\ b \in Position
    BY <2>1, <2>2, QueueFields
  <2>5. /\ FinishDequeue(q) \in Queue(Tick)
        /\ FinishDequeue(q).buffer = q.buffer /\ FinishDequeue(q).enqueue_pos = q.enqueue_pos
        /\ FinishDequeue(q).clear = c /\ FinishDequeue(q).dequeue_pos = NULL
        /\ FinishDequeue(q).dequeue_chunk_pos = a /\ FinishDequeue(q).dequeue_chunk_poll_pos = b
    BY <2>3, <2>4 DEF Queue
  <2> QED
    BY <1>3, <2>2, <2>5
<1> QED
  BY <1>2, <1>3

---------------------------------------------------------------------------
(* The two ends of the ring.                                                 *)

\* Writing a record, on the same round of the ring or at the start of the next.
LEMMA EnqueueWritten ==
  ASSUME NEW q \in Queue(Tick), NEW r \in Tick, NEW n \in Nat, NEW base \in Nat, NEW T, Written(q, n, T, base),
         NEW U, NEW n2, n2 = n + 1, U[n2] = r, \A k \in 1 .. n : U[k] = T[k]
  PROVE  Written(Enqueue(q, r), n2, U, IF q.enqueue_pos = Size THEN base + Size ELSE base)
<1>1. PICK p : p = WrapPositionIfNeeded(q.enqueue_pos)
  OBVIOUS
<1>2. /\ Enqueue(q, r).buffer = [q.buffer EXCEPT ![p] = r] /\ Enqueue(q, r).enqueue_pos = p + 1 /\ p \in Position
  BY <1>1, EnqueueFields
<1>3. q.buffer \in [Position -> Tick] /\ q.enqueue_pos \in 0 .. Size /\ Size \in Nat \ {0} /\ Position = 0 .. Size - 1
  BY QueueFields, Tiling
<1>4. PICK b, e : b = Enqueue(q, r).buffer /\ e = q.enqueue_pos
  OBVIOUS
<1>5. b[p] = r /\ \A j \in Position : j # p => b[j] = q.buffer[j]
  BY <1>2, <1>3, <1>4
<1>6. /\ e = n - base /\ (base = 0 \/ (base >= Size /\ base < n))
      /\ \A k \in 1 .. n : k > base => q.buffer[k - 1 - base] = T[k]
      /\ \A k \in 1 .. n : k <= base /\ k > n - Size => q.buffer[k - 1 - base + Size] = T[k]
      /\ base = 0 => \A j \in n .. Size - 1 : q.buffer[j] = blank
  BY <1>4 DEF Written
<1>7. CASE e = Size
  <2>1. p = 0 /\ n = base + Size
    BY <1>1, <1>3, <1>4, <1>6, <1>7 DEF WrapPositionIfNeeded
  <2>2. \A k \in 1 .. n2 : k > n => b[k - 1 - n] = U[k]
    <3> SUFFICES ASSUME NEW k \in 1 .. n2, k > n PROVE b[k - 1 - n] = U[k]
      OBVIOUS
    <3>1. k = n2 /\ k - 1 - n = p
      BY <2>1
    <3> QED
      BY <1>5, <3>1
  <2>3. \A k \in 1 .. n2 : k <= n /\ k > n2 - Size => b[k - 1 - n + Size] = U[k]
    <3> SUFFICES ASSUME NEW k \in 1 .. n2, k <= n, k > n2 - Size PROVE b[k - 1 - n + Size] = U[k]
      OBVIOUS
    <3>1. k \in 1 .. n /\ k > base /\ k - 1 - n + Size = k - 1 - base
      BY <1>3, <2>1
    <3>2. k - 1 - base \in Position /\ k - 1 - base # p
      BY <1>3, <2>1
    <3> QED
      BY <1>5, <1>6, <3>1, <3>2
  <2>4. Enqueue(q, r).enqueue_pos = n2 - n /\ n # 0 /\ n >= Size /\ n < n2
    BY <1>2, <1>3, <2>1
  <2> QED
    BY <1>3, <1>4, <1>7, <2>1, <2>2, <2>3, <2>4 DEF Written
<1>8. CASE e # Size
  <2>1. p = n - base
    BY <1>1, <1>4, <1>6, <1>8 DEF WrapPositionIfNeeded
  <2>2. \A k \in 1 .. n2 : k > base => b[k - 1 - base] = U[k]
    <3> SUFFICES ASSUME NEW k \in 1 .. n2, k > base PROVE b[k - 1 - base] = U[k]
      OBVIOUS
    <3>1. CASE k = n2
      <4>1. k - 1 - base = p
        BY <2>1, <3>1
      <4> QED
        BY <1>5, <3>1, <4>1
    <3>2. CASE k # n2
      <4>1. k \in 1 .. n /\ k - 1 - base \in Position /\ k - 1 - base # p
        BY <1>3, <1>4, <1>6, <2>1, <3>2
      <4> QED
        BY <1>5, <1>6, <4>1
    <3> QED
      BY <3>1, <3>2
  <2>3. \A k \in 1 .. n2 : k <= base /\ k > n2 - Size => b[k - 1 - base + Size] = U[k]
    <3> SUFFICES ASSUME NEW k \in 1 .. n2, k <= base, k > n2 - Size PROVE b[k - 1 - base + Size] = U[k]
      OBVIOUS
    <3>1. /\ k \in 1 .. n /\ k > n - Size
          /\ k - 1 - base + Size \in Position /\ k - 1 - base + Size # p
      BY <1>2, <1>3, <1>6, <2>1
    <3> QED
      BY <1>5, <1>6, <3>1
  <2>4. base = 0 => \A j \in n2 .. Size - 1 : b[j] = blank
    <3> SUFFICES ASSUME base = 0, NEW j \in n2 .. Size - 1 PROVE b[j] = blank
      OBVIOUS
    <3>1. j \in n .. Size - 1 /\ j \in Position /\ j # p
      BY <1>3, <2>1
    <3> QED
      BY <1>5, <1>6, <3>1
  <2>5. Enqueue(q, r).enqueue_pos = n2 - base /\ (base = 0 \/ (base >= Size /\ base < n2))
    BY <1>2, <1>6, <2>1
  <2>6. (IF q.enqueue_pos = Size THEN base + Size ELSE base) = base
    BY <1>4, <1>8
  <2>7. Written(Enqueue(q, r), n2, U, base)
    <3>1. PICK q2 : q2 = Enqueue(q, r)
      OBVIOUS
    <3>2. q2.buffer = b /\ q2.enqueue_pos = n2 - base
      BY <1>4, <2>5, <3>1
    <3>3. base = 0 \/ (base >= Size /\ base < n2)
      BY <2>5
    <3>4. Written(q2, n2, U, base)
      BY <2>2, <2>3, <2>4, <3>2, <3>3 DEF Written
    <3> QED
      BY <3>1, <3>4
  <2> QED
    BY <2>6, <2>7
<1> QED
  BY <1>7, <1>8

\* Positions of records a ring apart.
LEMMA OnceRound ==
  ASSUME NEW lap \in Nat, NEW size \in Nat \ {0}, NEW p \in 0 .. size - 1, NEW c \in Nat,
         NEW b, b = lap \/ b = lap + size, b + p = lap + c + size
  PROVE  p = c
OBVIOUS

\* Writing a record where KeepsUp lets the sampler: it does not overtake.
LEMMA EnqueueRead ==
  ASSUME NEW q \in Queue(Tick), NEW r \in Tick, NEW n \in Nat, NEW base \in Nat, NEW m \in Nat, NEW lap \in Nat,
         NEW base2, base2 = IF q.enqueue_pos = Size THEN base + Size ELSE base,
         q.enqueue_pos = n - base, ReadTo(q, FALSE, n, base, m, lap),
         LET p == WrapPositionIfNeeded(q.enqueue_pos) IN p % ChunkRecords = 0 => p \in q.clear
  PROVE  ReadTo(Enqueue(q, r), FALSE, n + 1, base2, m, lap)
<1>1. PICK p : p = WrapPositionIfNeeded(q.enqueue_pos)
  OBVIOUS
<1>2. PICK e, c, l, d, D, R : /\ e = q.enqueue_pos /\ c = q.dequeue_chunk_pos /\ l = q.dequeue_chunk_poll_pos
                              /\ d = q.dequeue_pos /\ D = producer_consumer_distance /\ R = ChunkRecords
  OBVIOUS
<1>3. /\ Enqueue(q, r).clear = q.clear \ {p} /\ Enqueue(q, r).dequeue_chunk_pos = c
      /\ Enqueue(q, r).dequeue_chunk_poll_pos = l /\ Enqueue(q, r).dequeue_pos = d /\ p \in Position
  BY <1>1, <1>2, EnqueueFields
<1>4. /\ e \in 0 .. Size /\ Size \in Nat \ {0} /\ Position = 0 .. Size - 1 /\ D \in Nat /\ R \in Nat
      /\ \A s \in ChunkStart : s \in Position
      /\ \A s \in Position : s \in ChunkStart => s % ChunkRecords = 0
  BY <1>2, QueueFields, Tiling
<1>5. /\ {c, l} \subseteq ChunkStart /\ (lap = 0 \/ lap >= Size) /\ base \in {lap, lap + Size}
      /\ (l - c) \in {D, D - Size}
      /\ \A s \in ChunkStart : s \in q.clear <=> IsClear(s, q, n, lap)
      /\ ReadInChunk(q, FALSE, n, m, lap)
  BY <1>2 DEF ReadTo
<1>6. \A s : IsClear(s, q, n, lap) <=> n <= IF s >= c THEN lap + s ELSE lap + Size + s
  BY <1>2 DEF IsClear
<1>7. c \in 0 .. Size - 1
  BY <1>4, <1>5
<1>8. n <= lap + c + Size /\ lap + c <= n
  BY <1>2 , <1>5 DEF ReadInChunk
<1>9. p \in ChunkStart => n <= IF p >= c THEN lap + p ELSE lap + Size + p
  BY <1>1, <1>3, <1>4, <1>5, <1>6
<1>10. e = n - base /\ p = (IF e = Size THEN 0 ELSE e) /\ base2 = (IF e = Size THEN base + Size ELSE base)
  BY <1>1, <1>2 DEF WrapPositionIfNeeded
<1>11. 0 \in ChunkStart
  BY Tiling
<1>12. n = base2 + p /\ base2 \in {lap, lap + Size}
  <2>1. CASE e = Size
    <3>1. p = 0 /\ n = base + Size /\ base2 = n
      BY <1>4, <1>10, <2>1
    <3>2. n <= IF 0 >= c THEN lap + 0 ELSE lap + Size + 0
      BY <1>9, <1>11, <3>1
    <3>3. base = lap
      <4>1. Size \in Nat \ {0} /\ base \in {lap, lap + Size}
        BY <1>4, <1>5
      <4>2. n <= lap + Size
        BY <3>2, <4>1
      <4> QED
        BY <3>1, <4>1, <4>2
    <3> QED
      BY <1>4, <3>1, <3>3
  <2>2. CASE e # Size
    BY <1>4, <1>5, <1>10, <2>2
  <2> QED
    BY <2>1, <2>2
<1>13. n + 1 <= lap + c + Size
  <2>1. ASSUME n = lap + c + Size PROVE FALSE
    <3>1. Size \in Nat \ {0} /\ p \in 0 .. Size - 1 /\ c \in Nat
      BY <1>3, <1>4, <1>7
    <3>2. p = c
      <4>1. base2 = lap \/ base2 = lap + Size
        BY <1>12
      <4>2. base2 + p = lap + c + Size
        BY <1>12, <2>1
      <4> QED
        BY ONLY <3>1, <4>1, <4>2, OnceRound, lap \in Nat
    <3>3. n <= lap + c
      BY <1>5, <1>9, <3>1, <3>2
    <3> QED
      BY <2>1, <3>1, <3>3
  <2> QED
    BY <1>4, <1>7, <1>8, <2>1
<1>14. ASSUME NEW s \in ChunkStart
       PROVE  s \in q.clear \ {p} <=> n + 1 <= IF s >= c THEN lap + s ELSE lap + Size + s
  <2>1. s \in 0 .. Size - 1 /\ p \in 0 .. Size - 1
    BY <1>3, <1>4
  <2>2. s \in q.clear <=> n <= IF s >= c THEN lap + s ELSE lap + Size + s
    BY <1>5, <1>6
  <2>3. CASE s = p
    <3>1. n <= IF p >= c THEN lap + p ELSE lap + Size + p
      BY <1>9, <2>3
    <3>2. n = IF p >= c THEN lap + p ELSE lap + Size + p
      BY <1>4, <1>7, <1>8, <1>12, <2>1, <3>1
    <3> QED
      BY <2>1, <2>3, <3>2
  <2>4. CASE s # p
    <3>1. n # IF s >= c THEN lap + s ELSE lap + Size + s
      BY <1>4, <1>12, <2>1, <2>4
    <3>2. (IF s >= c THEN lap + s ELSE lap + Size + s) \in Int
      BY <1>4, <2>1
    <3> QED
      BY <2>2, <2>4, <3>1, <3>2
  <2> QED
    BY <2>3, <2>4
<1>15. PICK q2 : q2 = Enqueue(q, r)
  OBVIOUS
<1>16. ReadInChunk(q2, FALSE, n + 1, m, lap)
  <2>1. d = NULL => m = lap + c
    BY <1>2, <1>5 DEF ReadInChunk
  <2>2. d # NULL => m = lap + d /\ lap + c <= m /\ m < lap + c + R /\ lap + c < n /\ lap + c + D < n
    BY <1>2, <1>5 DEF ReadInChunk
  <2>3. q2.dequeue_chunk_pos = c /\ q2.dequeue_pos = d
    BY <1>3, <1>15
  <2>4. lap + c < n + 1 /\ lap + c <= n + 1 /\ (lap + c + D < n => lap + c + D < n + 1)
    BY <1>4, <1>7, <1>8
  <2> QED
    BY <1>2, <1>13, <2>1, <2>2, <2>3, <2>4 DEF ReadInChunk
<1>17. \A s \in ChunkStart : s \in q2.clear <=> IsClear(s, q2, n + 1, lap)
  <2>1. \A s : IsClear(s, q2, n + 1, lap) <=> n + 1 <= IF s >= c THEN lap + s ELSE lap + Size + s
    BY <1>3, <1>15 DEF IsClear
  <2>2. q2.clear = q.clear \ {p}
    BY <1>3, <1>15
  <2> QED
    BY <1>14, <2>1, <2>2
<1>18. q2.dequeue_chunk_pos = c /\ q2.dequeue_chunk_poll_pos = l
  BY <1>3, <1>15
<1>19. ReadTo(q2, FALSE, n + 1, base2, m, lap)
  BY <1>2, <1>5, <1>12, <1>16, <1>17, <1>18 DEF ReadTo
<1> QED
  BY <1>15, <1>19

\* Flushing only moves the poll position.
LEMMA FlushRead ==
  ASSUME NEW q \in Queue(Tick), NEW n \in Nat, NEW base \in Nat, NEW m \in Nat, NEW lap \in Nat,
         ReadTo(q, FALSE, n, base, m, lap)
  PROVE  ReadTo(FlushResidualRecords(q), TRUE, n, base, m, lap)
<1>1. PICK q2 : q2 = FlushResidualRecords(q)
  OBVIOUS
<1>2. /\ q2.clear = q.clear /\ q2.dequeue_chunk_pos = q.dequeue_chunk_pos
      /\ q2.dequeue_chunk_poll_pos = q.dequeue_chunk_pos /\ q2.dequeue_pos = q.dequeue_pos
  BY <1>1, FlushFields
<1>3. ReadInChunk(q2, TRUE, n, m, lap)
  BY <1>2 DEF ReadTo, ReadInChunk
<1>4. \A s \in ChunkStart : s \in q2.clear <=> IsClear(s, q2, n, lap)
  BY <1>2 DEF ReadTo, IsClear
<1>5. ReadTo(q2, TRUE, n, base, m, lap)
  BY <1>2, <1>3, <1>4 DEF ReadTo
<1> QED
  BY <1>1, <1>5

\* A chunk that is free when the poll position is free has not been written
\* beyond it.
LEMMA StartRead ==
  ASSUME NEW q \in Queue(Tick), NEW f \in BOOLEAN, NEW n \in Nat, NEW base \in Nat, NEW m \in Nat, NEW lap \in Nat,
         ReadTo(q, f, n, base, m, lap)
  PROVE  ReadTo(StartDequeue(q), f, n, base, m, lap)
<1>1. PICK q2, c, l, D : /\ q2 = StartDequeue(q) /\ c = q.dequeue_chunk_pos /\ l = q.dequeue_chunk_poll_pos
                         /\ D = producer_consumer_distance
  OBVIOUS
<1>2. /\ q2.clear = q.clear /\ q2.dequeue_chunk_pos = c /\ q2.dequeue_chunk_poll_pos = l
      /\ q2.dequeue_pos = IF q.dequeue_pos = NULL /\ l \notin q.clear THEN c ELSE q.dequeue_pos
  BY <1>1, StartFields
<1>3. /\ Size \in Nat \ {0} /\ ChunkRecords \in Nat \ {0} /\ D \in Nat /\ D + ChunkRecords <= Size /\ NULL = -1
      /\ \A s \in ChunkStart : s \in Nat /\ s + ChunkRecords <= Size
  BY <1>1, Tiling
<1>4. {c, l} \subseteq ChunkStart /\ (IF f THEN l = c ELSE l - c \in {D, D - Size})
  BY <1>1 DEF ReadTo
<1>5. c \in Nat /\ l \in Nat /\ c + ChunkRecords <= Size
  BY <1>3, <1>4
<1>6. l \notin q.clear => lap + c < n /\ (~f => lap + c + D < n)
  <2> SUFFICES ASSUME l \notin q.clear PROVE lap + c < n /\ (~f => lap + c + D < n)
    OBVIOUS
  <2>1. ~ (n <= IF l >= c THEN lap + l ELSE lap + Size + l)
    BY <1>1, <1>4 DEF ReadTo, IsClear
  <2>2. CASE f
    BY ONLY <1>4, <1>5, <2>1, <2>2, lap \in Nat, n \in Nat
  <2>3. CASE ~f
    <3>1. l = c + D \/ l = c + D - Size
      BY ONLY <1>3, <1>4, <1>5, <2>3
    <3> QED
      BY ONLY <1>3, <1>5, <2>1, <3>1, lap \in Nat, n \in Nat
  <2> QED
    BY <2>2, <2>3
<1>7. ReadInChunk(q2, f, n, m, lap)
  <2>1. CASE q.dequeue_pos = NULL /\ l \notin q.clear
    <3>1. q2.dequeue_pos = c /\ c # NULL /\ m = lap + c /\ n <= lap + c + Size /\ (~f => lap + c <= n)
      BY <1>1, <1>2, <1>3, <1>5, <2>1 DEF ReadTo, ReadInChunk
    <3>2. lap + c <= lap + c /\ lap + c < lap + c + ChunkRecords
      BY ONLY <1>3, <1>5, lap \in Nat
    <3> QED
      BY <1>1, <1>2, <1>6, <2>1, <3>1, <3>2 DEF ReadInChunk
  <2>2. CASE ~(q.dequeue_pos = NULL /\ l \notin q.clear)
    BY <1>1, <1>2, <2>2 DEF ReadTo, ReadInChunk
  <2> QED
    BY <2>1, <2>2
<1>8. \A s \in ChunkStart : s \in q2.clear <=> IsClear(s, q2, n, lap)
  BY <1>1, <1>2 DEF ReadTo, IsClear
<1>9. ReadTo(q2, f, n, base, m, lap)
  BY <1>1, <1>2, <1>7, <1>8 DEF ReadTo
<1> QED
  BY <1>1, <1>9

\* Finishing a record moves on in the chunk, to the next chunk, or, at the end
\* of the ring, to the round on which the sampler is already.
LEMMA FinishRead ==
  ASSUME NEW q \in Queue(Tick), NEW f \in BOOLEAN, NEW n \in Nat, NEW base \in Nat, NEW m \in Nat, NEW lap \in Nat,
         ReadTo(q, f, n, base, m, lap), q.dequeue_pos # NULL, n <= base + Size
  PROVE  \E lap2 \in Nat : ReadTo(FinishDequeue(q), f, n, base, m + 1, lap2)
<1>1. PICK q2, c, l, d, D, R : /\ q2 = FinishDequeue(q) /\ c = q.dequeue_chunk_pos /\ l = q.dequeue_chunk_poll_pos
                               /\ d = q.dequeue_pos /\ D = producer_consumer_distance /\ R = ChunkRecords
  OBVIOUS
<1>2. /\ Size \in Nat \ {0} /\ R \in Nat \ {0} /\ D = R + R /\ D + R <= Size
      /\ \A s \in ChunkStart : s \in Nat /\ s + R <= Size
      /\ \A s, t \in ChunkStart : s < t => s + R <= t
      /\ \A s \in ChunkStart : s + R # Size => s + R \in ChunkStart
      /\ 0 \in ChunkStart /\ NULL = -1
  BY <1>1, Tiling
<1>3. /\ {c, l} \subseteq ChunkStart /\ (lap = 0 \/ lap >= Size)
      /\ (IF f THEN l = c ELSE l - c \in {D, D - Size})
      /\ (~f \/ m < n => base = lap \/ base = lap + Size)
      /\ \A s \in ChunkStart : s \in q.clear <=> n <= IF s >= c THEN lap + s ELSE lap + Size + s
  BY <1>1 DEF ReadTo, IsClear
<1>4. /\ m = lap + d /\ lap + c <= m /\ m < lap + c + R /\ lap + c < n /\ (~f => lap + c + D < n)
      /\ n <= lap + c + Size
  BY <1>1 DEF ReadTo, ReadInChunk
<1>5. c \in Nat /\ l \in Nat /\ c + R <= Size /\ l + R <= Size
  BY <1>2, <1>3
<1>6. d \in c .. c + R - 1
  <2>1. d \in Int
    BY <1>1, <1>2, QueueFields, Tiling
  <2> QED
    BY ONLY <1>2, <1>4, <1>5, <2>1, lap \in Nat, m \in Nat
<1>7. /\ d + 1 < c + R => /\ q2.clear = q.clear /\ q2.dequeue_chunk_pos = c
                          /\ q2.dequeue_chunk_poll_pos = l /\ q2.dequeue_pos = d + 1
      /\ ~(d + 1 < c + R) => /\ q2.clear = q.clear \cup {c} /\ q2.dequeue_chunk_pos = Advance(c)
                             /\ q2.dequeue_chunk_poll_pos = Advance(l) /\ q2.dequeue_pos = NULL
  BY <1>1, <1>3, <1>6, FinishFields
<1>8. CASE d + 1 < c + R
  <2>1. /\ m + 1 = lap + (d + 1) /\ lap + c <= m + 1 /\ m + 1 < lap + c + R /\ d + 1 # NULL
        /\ (m + 1 < n => m < n)
    BY ONLY <1>2, <1>4, <1>5, <1>6, <1>8, lap \in Nat, m \in Nat, n \in Nat
  <2>2. n <= lap + c + Size /\ (~f => lap + c <= n)
    BY ONLY <1>2, <1>4, <1>5, lap \in Nat, n \in Nat
  <2>3. ReadInChunk(q2, f, n, m + 1, lap)
    BY <1>1, <1>4, <1>7, <1>8, <2>1, <2>2 DEF ReadInChunk
  <2>4. \A s \in ChunkStart : s \in q2.clear <=> IsClear(s, q2, n, lap)
    BY <1>3, <1>7, <1>8 DEF IsClear
  <2>5. ReadTo(q2, f, n, base, m + 1, lap)
    BY <1>1, <1>3, <1>7, <1>8, <2>1, <2>3, <2>4 DEF ReadTo
  <2> QED
    BY <1>1, <2>5
<1>9. CASE ~(d + 1 < c + R) /\ c + R # Size
  <2>1. m + 1 = lap + (c + R) /\ d + 1 = c + R
    BY ONLY <1>2, <1>4, <1>5, <1>6, <1>9, lap \in Nat, m \in Nat
  <2>2. Advance(c) = c + R /\ c + R \in ChunkStart
    BY <1>1, <1>2, <1>3, <1>9 DEF Advance, WrapPositionIfNeeded
  <2>3. Advance(l) = (IF l + R = Size THEN 0 ELSE l + R) /\ Advance(l) \in ChunkStart
    BY <1>1, <1>2, <1>3 DEF Advance, WrapPositionIfNeeded
  <2>4. PICK c2, l2 : c2 = c + R /\ l2 = Advance(l)
    OBVIOUS
  <2>5. IF f THEN l2 = c2 ELSE l2 - c2 \in {D, D - Size}
    <3>1. CASE f
      BY <1>3, <2>2, <2>4, <3>1
    <3>2. CASE ~f
      <4>1. l - c = D \/ l - c = D - Size
        BY <1>3, <3>2
      <4>2. l2 = (IF l + R = Size THEN 0 ELSE l + R)
        BY <2>3, <2>4
      <4>3. l2 - c2 = D \/ l2 - c2 = D - Size
        BY ONLY <1>2, <1>5, <4>1, <4>2, <2>4
      <4> QED
        BY <3>2, <4>3
    <3> QED
      BY <3>1, <3>2
  <2>6. q2.clear = q.clear \cup {c} /\ q2.dequeue_chunk_pos = c2 /\ q2.dequeue_chunk_poll_pos = l2 /\ q2.dequeue_pos = NULL
    BY <1>7, <1>9, <2>2, <2>4
  <2>7. ReadInChunk(q2, f, n, m + 1, lap)
    <3>1. m + 1 = lap + c2 /\ n <= lap + c2 + Size /\ (~f => lap + c2 <= n)
      BY ONLY <1>2, <1>4, <1>5, <2>1, <2>4, lap \in Nat, n \in Nat
    <3> QED
      BY <2>6, <3>1 DEF ReadInChunk
  <2>8. ASSUME NEW s \in ChunkStart
        PROVE  s \in q.clear \cup {c} <=> n <= IF s >= c2 THEN lap + s ELSE lap + Size + s
    <3>1. s \in Nat /\ (c < s => c + R <= s)
      BY <1>2, <1>3
    <3>2. s \in q.clear <=> n <= IF s >= c THEN lap + s ELSE lap + Size + s
      BY <1>3
    <3>3. CASE s = c
      <4>1. n <= IF s >= c2 THEN lap + s ELSE lap + Size + s
        BY ONLY <1>2, <1>4, <1>5, <2>4, <3>1, <3>3, lap \in Nat, n \in Nat
      <4> QED
        BY <3>3, <4>1
    <3>4. CASE s # c
      <4>1. s >= c <=> s >= c2
        BY ONLY <1>2, <1>5, <2>4, <3>1, <3>4
      <4> QED
        BY <3>2, <3>4, <4>1
    <3> QED
      BY <3>3, <3>4
  <2>9. \A s \in ChunkStart : s \in q2.clear <=> IsClear(s, q2, n, lap)
    <3>1. \A s : IsClear(s, q2, n, lap) <=> n <= IF s >= c2 THEN lap + s ELSE lap + Size + s
      BY <2>6 DEF IsClear
    <3> QED
      BY <2>6, <2>8, <3>1
  <2>10. ~f \/ m + 1 < n => base \in {lap, lap + Size}
    BY <1>3
  <2>11. ReadTo(q2, f, n, base, m + 1, lap)
    BY <1>1, <1>3, <2>2, <2>3, <2>4, <2>5, <2>6, <2>7, <2>9, <2>10 DEF ReadTo
  <2> QED
    BY <1>1, <2>11
<1>10. CASE ~(d + 1 < c + R) /\ c + R = Size
  <2>1. m + 1 = lap + Size
    BY ONLY <1>2, <1>4, <1>5, <1>6, <1>10, lap \in Nat, m \in Nat
  <2>2. PICK lap2 \in Nat : lap2 = lap + Size
    BY <1>2
  <2>3. Advance(c) = 0 /\ Advance(l) = (IF l + R = Size THEN 0 ELSE l + R) /\ Advance(l) \in ChunkStart
    BY <1>1, <1>2, <1>3, <1>10 DEF Advance, WrapPositionIfNeeded
  <2>4. PICK l2 : l2 = Advance(l)
    OBVIOUS
  <2>5. IF f THEN l2 = 0 ELSE l2 = D
    <3>1. CASE f
      BY <1>3, <1>10, <2>3, <2>4, <3>1
    <3>2. CASE ~f
      <4>1. l - c = D \/ l - c = D - Size
        BY <1>3, <3>2
      <4>2. l2 = (IF l + R = Size THEN 0 ELSE l + R)
        BY <2>3, <2>4
      <4>3. l2 = D
        BY ONLY <1>2, <1>5, <1>10, <4>1, <4>2
      <4> QED
        BY <3>2, <4>3
    <3> QED
      BY <3>1, <3>2
  <2>6. q2.clear = q.clear \cup {c} /\ q2.dequeue_chunk_pos = 0 /\ q2.dequeue_chunk_poll_pos = l2 /\ q2.dequeue_pos = NULL
    BY <1>7, <1>10, <2>3, <2>4
  <2>7. ReadInChunk(q2, f, n, m + 1, lap2)
    <3>1. m + 1 = lap2 + 0 /\ n <= lap2 + 0 + Size /\ (~f => lap2 + 0 <= n)
      BY ONLY <1>2, <1>4, <1>5, <1>10, <2>1, <2>2, lap \in Nat, n \in Nat
    <3> QED
      BY <2>6, <3>1 DEF ReadInChunk
  <2>8. ASSUME NEW s \in ChunkStart
        PROVE  s \in q.clear \cup {c} <=> n <= IF s >= 0 THEN lap2 + s ELSE lap2 + Size + s
    <3>1. s \in Nat /\ s + R <= Size /\ (c < s => c + R <= s)
      BY <1>2, <1>3
    <3>2. s \in q.clear <=> n <= IF s >= c THEN lap + s ELSE lap + Size + s
      BY <1>3
    <3>3. CASE s = c
      <4>1. n <= IF s >= 0 THEN lap2 + s ELSE lap2 + Size + s
        BY ONLY <1>2, <1>4, <1>5, <2>2, <3>1, <3>3, lap \in Nat, n \in Nat
      <4> QED
        BY <3>3, <4>1
    <3>4. CASE s # c
      <4>1. ~(s >= c) /\ lap + Size + s = lap2 + s /\ s >= 0
        BY ONLY <1>2, <1>5, <1>10, <2>2, <3>1, <3>4, lap \in Nat
      <4> QED
        BY <3>2, <3>4, <4>1
    <3> QED
      BY <3>3, <3>4
  <2>9. \A s \in ChunkStart : s \in q2.clear <=> IsClear(s, q2, n, lap2)
    <3>1. \A s : IsClear(s, q2, n, lap2) <=> n <= IF s >= 0 THEN lap2 + s ELSE lap2 + Size + s
      BY <2>6 DEF IsClear
    <3> QED
      BY <2>6, <2>8, <3>1
  <2>10. ~f \/ m + 1 < n => base \in {lap2, lap2 + Size}
    <3> SUFFICES ASSUME ~f \/ m + 1 < n PROVE base = lap2
      OBVIOUS
    <3>1. n > lap + Size
      BY ONLY <1>2, <1>4, <1>5, <1>10, <2>1, ~f \/ m + 1 < n, lap \in Nat, n \in Nat
    <3>2. m < n \/ ~f
      BY m + 1 < n => m < n
    <3>3. base = lap \/ base = lap + Size
      BY <1>3, <3>2
    <3> QED
      BY <1>2, <2>2, <3>1, <3>3
  <2>11. lap2 >= Size
    BY <1>2, <2>2
  <2>12. IF f THEN l2 = 0 ELSE l2 - 0 \in {D, D - Size}
    BY <1>2, <2>5
  <2>13. ReadTo(q2, f, n, base, m + 1, lap2)
    BY <1>1, <1>2, <2>3, <2>4, <2>6, <2>7, <2>9, <2>10, <2>11, <2>12 DEF ReadTo
  <2> QED
    BY <1>1, <2>13
<1> QED
  BY <1>8, <1>9, <1>10

\* The record exposed to the processor is the next one, or was never written.
LEMMA ReadValue ==
  ASSUME NEW q \in Queue(Tick), NEW f \in BOOLEAN, NEW n \in Nat, NEW base \in Nat, NEW m \in Nat, NEW lap \in Nat,
         NEW T, Written(q, n, T, base), ReadTo(q, f, n, base, m, lap), q.dequeue_pos # NULL
  PROVE  /\ m < n => q.buffer[q.dequeue_pos] = T[m + 1]
         /\ m >= n /\ n <= Size => q.buffer[q.dequeue_pos] = blank /\ n > 0
<1>1. PICK c, d, R : c = q.dequeue_chunk_pos /\ d = q.dequeue_pos /\ R = ChunkRecords
  OBVIOUS
<1>2. /\ Size \in Nat \ {0} /\ R \in Nat \ {0} /\ Position = 0 .. Size - 1
      /\ \A s \in ChunkStart : s \in Nat /\ s + R <= Size
  BY <1>1, Tiling
<1>3. /\ c \in ChunkStart /\ (lap = 0 \/ lap >= Size) /\ (m < n => base = lap \/ base = lap + Size)
  BY <1>1 DEF ReadTo
<1>4. /\ m = lap + d /\ lap + c <= m /\ m < lap + c + R /\ lap + c < n /\ n <= lap + c + Size
  BY <1>1 DEF ReadTo, ReadInChunk
<1>5. c \in Nat /\ c + R <= Size
  BY <1>2, <1>3
<1>6. d \in Int
  BY <1>1, QueueFields, Tiling
<1>7. d \in 0 .. Size - 1
  BY ONLY <1>2, <1>4, <1>5, <1>6, lap \in Nat, m \in Nat
<1>8. /\ (base = 0 \/ (base >= Size /\ base < n))
      /\ \A k \in 1 .. n : k > base => q.buffer[k - 1 - base] = T[k]
      /\ \A k \in 1 .. n : k <= base /\ k > n - Size => q.buffer[k - 1 - base + Size] = T[k]
      /\ base = 0 => \A p \in n .. Size - 1 : q.buffer[p] = blank
  BY DEF Written
<1>9. ASSUME m < n PROVE q.buffer[d] = T[m + 1]
  <2>1. PICK k : k = m + 1
    OBVIOUS
  <2>2. k \in 1 .. n
    BY ONLY <1>9, <2>1, m \in Nat, n \in Nat
  <2>3. CASE base = lap
    <3>1. k > base /\ k - 1 - base = d
      BY ONLY <1>4, <1>7, <2>1, <2>3, lap \in Nat, m \in Nat
    <3> QED
      BY <1>8, <2>1, <2>2, <3>1
  <2>4. CASE base = lap + Size
    <3>1. k <= base /\ k > n - Size /\ k - 1 - base + Size = d
      BY ONLY <1>2, <1>4, <1>5, <1>7, <2>1, <2>4, lap \in Nat, m \in Nat, n \in Nat
    <3> QED
      BY <1>8, <2>1, <2>2, <3>1
  <2> QED
    BY <1>3, <1>9, <2>3, <2>4
<1>10. ASSUME m >= n, n <= Size PROVE q.buffer[d] = blank /\ n > 0
  <2>1. base = 0 /\ lap = 0 /\ n > 0
    BY ONLY <1>2, <1>3, <1>4, <1>5, <1>8, <1>10, lap \in Nat, base \in Nat, n \in Nat
  <2>2. d \in n .. Size - 1
    BY ONLY <1>4, <1>7, <1>10, <2>1, m \in Nat, n \in Nat
  <2>3. \A p \in n .. Size - 1 : q.buffer[p] = blank
    BY <1>8, <2>1
  <2> QED
    BY <2>1, <2>2, <2>3
<1> QED
  BY <1>1, <1>9, <1>10

\* Every record of the ring is blank or one that was written.
LEMMA WrittenRange ==
  ASSUME NEW q \in Queue(Tick), NEW n \in Nat, NEW base \in Nat, NEW T, Written(q, n, T, base), NEW p \in Position
  PROVE  q.buffer[p] = blank \/ \E k \in 1 .. n : q.buffer[p] = T[k]
<1>1. /\ q.enqueue_pos = n - base /\ (base = 0 \/ (base >= Size /\ base < n))
      /\ \A k \in 1 .. n : k > base => q.buffer[k - 1 - base] = T[k]
      /\ \A k \in 1 .. n : k <= base /\ k > n - Size => q.buffer[k - 1 - base + Size] = T[k]
      /\ base = 0 => \A j \in n .. Size - 1 : q.buffer[j] = blank
  BY DEF Written
<1>2. Size \in Nat \ {0} /\ p \in 0 .. Size - 1 /\ n - base \in 0 .. Size
  BY <1>1, Tiling, QueueFields
<1>3. CASE p < n - base
  <2>1. PICK k : k = p + 1 + base
    OBVIOUS
  <2>2. k \in 1 .. n /\ k > base /\ k - 1 - base = p
    BY ONLY <1>2, <1>3, <2>1, n \in Nat, base \in Nat
  <2> QED
    BY <1>1, <2>2
<1>4. CASE p >= n - base /\ base = 0
  BY <1>1, <1>2, <1>4
<1>5. CASE p >= n - base /\ base # 0
  <2>1. PICK k : k = p + 1 + base - Size
    OBVIOUS
  <2>2. k \in 1 .. n /\ k <= base /\ k > n - Size /\ k - 1 - base + Size = p
    BY ONLY <1>1, <1>2, <1>5, <2>1, n \in Nat, base \in Nat
  <2> QED
    BY <1>1, <2>2
<1> QED
  BY <1>2, <1>3, <1>4, <1>5

---------------------------------------------------------------------------
(* The ticks taken and the ticks recorded.                                   *)

Sample == [source : {"sampler", "vm"}, order : 0 .. MaxEvents]
Entry == [order : Nat, id : Nat, map : Nat]

LEMMA AppendTo ==
  ASSUME NEW X, NEW s \in Seq(X), NEW e \in X
  PROVE  /\ Append(s, e) \in Seq(X) /\ Len(s) \in Nat /\ Len(Append(s, e)) = Len(s) + 1
         /\ \A i \in 1 .. Len(s) : Append(s, e)[i] = s[i] /\ s[i] \in X
         /\ Append(s, e)[Len(s) + 1] = e
OBVIOUS

\* The first k of n ascending numbers are k.
LEMMA Ascending ==
  ASSUME NEW n \in Nat, NEW S \in [1 .. n -> Nat], \A j, k \in 1 .. n : j < k => S[j] < S[k], NEW k \in 0 .. n
  PROVE  Cardinality({S[j] : j \in 1 .. k}) = k
<1> DEFINE f == [j \in 1 .. k |-> S[j]]
           X == {S[j] : j \in 1 .. k}
<1>1. f \in Injection(1 .. k, X)
  <2>1. f \in [1 .. k -> X]
    OBVIOUS
  <2>2. \A i, j \in 1 .. k : f[i] = f[j] => i = j
    <3> SUFFICES ASSUME NEW i \in 1 .. k, NEW j \in 1 .. k, i # j PROVE S[i] # S[j]
      OBVIOUS
    <3>1. i \in 1 .. n /\ j \in 1 .. n /\ (i < j \/ j < i) /\ S[i] \in Nat /\ S[j] \in Nat
      OBVIOUS
    <3> QED
      BY <3>1
  <2> QED
    BY <2>1, <2>2, Zenon DEF Injection, IsInjective
<1>2. f \in Surjection(1 .. k, X)
  <2>1. \A x \in X : \E j \in 1 .. k : f[j] = x
    OBVIOUS
  <2> QED
    BY <2>1 DEF Surjection
<1>3. ExistsBijection(1 .. k, X)
  BY <1>1, <1>2, Zenon DEF ExistsBijection, Bijection
<1> HIDE DEF f, X
<1>4. Cardinality(X) = k
  BY <1>3, FS_CountingElements
<1> QED
  BY <1>4 DEF X

LEMMA TicksCounted ==
  ASSUME sampled \in Seq(Sample), NEW source
  PROVE  IsFiniteSet(TickIds(source)) /\ Cardinality(TickIds(source)) \in Nat
<1>1. IsFiniteSet(1 .. Len(sampled)) /\ TickIds(source) \subseteq 1 .. Len(sampled)
  BY FS_Interval DEF TickIds
<1> QED
  BY <1>1, FS_Subset, FS_CardinalityType

LEMMA TakenCounted ==
  ASSUME sampled \in Seq(Sample), NEW n \in Nat, NEW S, Taken(n, S)
  PROVE  /\ Cardinality(TickIds("sampler")) = n
         /\ \A k \in 1 .. n : Cardinality({id \in TickIds("sampler") : id <= S[k]}) = k
<1>1. S \in [1 .. n -> 1 .. Len(sampled)] /\ TickIds("sampler") = {S[k] : k \in 1 .. n}
  BY DEF Taken
<1>2. \A j, k \in 1 .. n : j < k => S[j] < S[k]
  BY DEF Taken
<1>3. S \in [1 .. n -> Nat]
  BY <1>1
<1>4. n \in 0 .. n /\ \A k \in 1 .. n : k \in 0 .. n
  OBVIOUS
<1>5. \A k \in 0 .. n : Cardinality({S[j] : j \in 1 .. k}) = k
  BY <1>2, <1>3, Ascending
<1>6. ASSUME NEW k \in 1 .. n PROVE {id \in TickIds("sampler") : id <= S[k]} = {S[j] : j \in 1 .. k}
  <2>1. \A j \in 1 .. n : S[j] <= S[k] <=> j \in 1 .. k
    <3> SUFFICES ASSUME NEW j \in 1 .. n PROVE S[j] <= S[k] <=> j \in 1 .. k
      OBVIOUS
    <3>1. S[j] \in Nat /\ S[k] \in Nat /\ (j < k => S[j] < S[k]) /\ (k < j => S[k] < S[j])
      BY <1>2, <1>3
    <3>2. CASE j <= k
      BY <3>1, <3>2
    <3>3. CASE k < j
      BY <3>1, <3>3
    <3> QED
      BY <3>2, <3>3
  <2>2. \A j \in 1 .. k : j \in 1 .. n
    OBVIOUS
  <2> QED
    BY <1>1, <2>1, <2>2
<1> QED
  BY <1>1, <1>4, <1>5, <1>6

LEMMA SampledGrows ==
  ASSUME sampled \in Seq(Sample), NEW src \in {"sampler", "vm"}, NEW e \in 0 .. MaxEvents,
         NEW l, l = Len(sampled), sampled' = Append(sampled, [source |-> src, order |-> e])
  PROVE  /\ sampled' \in Seq(Sample) /\ l \in Nat /\ Len(sampled') = l + 1
         /\ \A i \in 1 .. l : sampled'[i] = sampled[i]
         /\ sampled'[l + 1].source = src /\ sampled'[l + 1].order = e
         /\ TickIds(src)' = TickIds(src) \cup {l + 1}
         /\ \A other : other # src => TickIds(other)' = TickIds(other)
         /\ \A id \in 1 .. l : TickOf(id)' = TickOf(id)
         /\ TickOf(l + 1)' = [order |-> e, id |-> l + 1]
<1>1. [source |-> src, order |-> e] \in Sample
  BY DEF Sample
<1>2. /\ sampled' \in Seq(Sample) /\ l \in Nat /\ Len(sampled') = l + 1
      /\ \A i \in 1 .. l : sampled'[i] = sampled[i]
      /\ sampled'[l + 1] = [source |-> src, order |-> e]
  BY <1>1, AppendTo
<1>3. sampled'[l + 1].source = src /\ sampled'[l + 1].order = e
  BY <1>2
<1>4. \A i : i \in 1 .. l + 1 <=> i \in 1 .. l \/ i = l + 1
  BY <1>2
<1>5. \A i : i \in 1 .. l => i # l + 1
  BY <1>2
<1>6. TickIds(src)' = TickIds(src) \cup {l + 1}
  BY <1>2, <1>3, <1>4, <1>5 DEF TickIds
<1>7. ASSUME NEW other, other # src PROVE TickIds(other)' = TickIds(other)
  BY <1>2, <1>3, <1>4, <1>5, <1>7 DEF TickIds
<1> QED
  BY <1>2, <1>3, <1>6, <1>7 DEF TickOf

\* Recording a tick.
LEMMA RecordedGrows ==
  ASSUME recorded \in Seq(Entry), NEW t \in Entry, NEW l, l = Len(recorded),
         recorded' = Append(recorded, t), sampled' = sampled
  PROVE  /\ recorded' \in Seq(Entry) /\ l \in Nat /\ Len(recorded') = l + 1
         /\ \A i \in 1 .. l : recorded'[i] = recorded[i]
         /\ recorded'[l + 1] = t
         /\ \A i \in 1 .. l : FromSampler(i)' <=> FromSampler(i)
         /\ FromSampler(l + 1)' <=> t.id = 0 \/ sampled[t.id].source = "sampler"
         /\ \A i \in 0 .. l : FromRing(i)' = FromRing(i)
         /\ FromRing(l + 1)' = IF FromSampler(l + 1)' THEN FromRing(l) \cup {l + 1} ELSE FromRing(l)
         /\ \A id : Recorded(id)' <=> Recorded(id) \/ id = t.id
<1>1. /\ recorded' \in Seq(Entry) /\ l \in Nat /\ Len(recorded') = l + 1
      /\ \A i \in 1 .. l : recorded'[i] = recorded[i]
      /\ recorded'[l + 1] = t
  BY AppendTo
<1>2. \A i : i \in 1 .. l + 1 <=> i \in 1 .. l \/ i = l + 1
  BY <1>1
<1>3. \A i \in 1 .. l : FromSampler(i)' <=> FromSampler(i)
  BY <1>1 DEF FromSampler
<1>4. FromSampler(l + 1)' <=> t.id = 0 \/ sampled[t.id].source = "sampler"
  BY <1>1 DEF FromSampler
<1>5. \A i \in 0 .. l : \A j \in 1 .. i : j \in 1 .. l
  BY <1>1
<1>6. \A i \in 0 .. l : FromRing(i)' = FromRing(i)
  BY <1>3, <1>5 DEF FromRing
<1>7. FromRing(l + 1)' = IF FromSampler(l + 1)' THEN FromRing(l) \cup {l + 1} ELSE FromRing(l)
  BY <1>2, <1>3 DEF FromRing
<1>8. \A id : Recorded(id)' <=> Recorded(id) \/ id = t.id
  BY <1>1, <1>2 DEF Recorded
<1> QED
  BY <1>1, <1>3, <1>4, <1>6, <1>7, <1>8

\* How many of the first records are from the ring.
LEMMA RingCounted ==
  ASSUME NEW l \in Nat
  PROVE  /\ IsFiniteSet(FromRing(l)) /\ Cardinality(FromRing(l)) \in Nat
         /\ \A i \in 0 .. l : Cardinality(FromRing(i)) \in Nat /\ Cardinality(FromRing(i)) <= Cardinality(FromRing(l))
         /\ \A i, j \in 1 .. l : i < j /\ FromSampler(j) => Cardinality(FromRing(i)) < Cardinality(FromRing(j))
         /\ \A i \in 1 .. l : FromSampler(i) => Cardinality(FromRing(i)) > 0
<1>1. ASSUME NEW i \in Nat PROVE IsFiniteSet(FromRing(i)) /\ Cardinality(FromRing(i)) \in Nat
  <2>1. IsFiniteSet(1 .. i) /\ FromRing(i) \subseteq 1 .. i
    BY FS_Interval DEF FromRing
  <2> QED
    BY <2>1, FS_Subset, FS_CardinalityType
<1>2. ASSUME NEW i \in Nat, NEW j \in Nat, i <= j PROVE Cardinality(FromRing(i)) <= Cardinality(FromRing(j))
  <2>1. FromRing(i) \subseteq FromRing(j)
    BY <1>2 DEF FromRing
  <2> QED
    BY <1>1, <2>1, FS_Subset
<1>3. ASSUME NEW i \in Nat, NEW j \in Nat, i < j, FromSampler(j) PROVE Cardinality(FromRing(i)) < Cardinality(FromRing(j))
  <2>1. FromRing(i) \cup {j} \subseteq FromRing(j) /\ j \notin FromRing(i)
    BY <1>3 DEF FromRing
  <2>2. Cardinality(FromRing(i) \cup {j}) = Cardinality(FromRing(i)) + 1
    BY <1>1, <2>1, FS_AddElement
  <2>3. Cardinality(FromRing(i) \cup {j}) <= Cardinality(FromRing(j))
    BY <1>1, <2>1, FS_Subset
  <2> QED
    BY <1>1, <2>2, <2>3
<1>4. \A i \in 1 .. l : i \in Nat /\ 0 \in Nat /\ 0 < i
  OBVIOUS
<1>5. \A i \in 1 .. l : FromSampler(i) => Cardinality(FromRing(i)) > 0
  BY <1>1, <1>3, <1>4
<1>6. \A i \in 0 .. l : i \in Nat /\ i <= l
  OBVIOUS
<1> QED
  BY <1>1, <1>2, <1>3, <1>4, <1>5, <1>6

---------------------------------------------------------------------------
(* Types and control.                                                        *)

LEMMA Types ==
  ASSUME TypeOK
  PROVE  /\ ticks_buffer \in Queue(Tick) /\ ticks_from_vm_buffer \in Seq(Tick) /\ events_buffer \in Seq(Nat)
         /\ sampled \in Seq(Sample) /\ recorded \in Seq(Entry)
         /\ enqueue_order \in 0 .. MaxEvents /\ dequeue_order \in 0 .. MaxEvents /\ code_map \in 0 .. MaxEvents
         /\ profiles \in 0 .. MaxProfiles /\ MaxEvents \in Nat /\ MaxProfiles \in Nat
BY BoundAssumption DEF TypeOK, Sample, Entry

LEMMA NewTickType ==
  ASSUME TypeOK
  PROVE  NewTick \in Tick /\ NewTick.id = Len(sampled) + 1 /\ NewTick.order = enqueue_order /\ Len(sampled) \in Nat
<1>1. enqueue_order \in Nat /\ Len(sampled) + 1 \in Nat
  BY Types
<1> QED
  BY <1>1, Types DEF NewTick, Tick

\* A record of the ring that TakeTick records is a tick.
LEMMA ExposedType ==
  ASSUME NEW q \in Queue(Tick), q.dequeue_pos # NULL
  PROVE  /\ q.dequeue_pos \in Position /\ q.buffer[q.dequeue_pos] \in Tick
         /\ q.buffer[q.dequeue_pos].order \in Nat /\ q.buffer[q.dequeue_pos].id \in Nat
<1>1. q.dequeue_pos \in Position /\ q.buffer[q.dequeue_pos] \in Tick
  BY QueueFields
<1> QED
  BY <1>1 DEF Tick

\* The processor is in the chunk the ring says it is in.
LEMMA ExposedInChunk ==
  ASSUME NEW q \in Queue(Tick), NEW f \in BOOLEAN, NEW n \in Nat, NEW base \in Nat, NEW m \in Nat, NEW lap \in Nat,
         ReadTo(q, f, n, base, m, lap), q.dequeue_pos # NULL
  PROVE  /\ q.dequeue_pos \in q.dequeue_chunk_pos .. q.dequeue_chunk_pos + ChunkRecords - 1
         /\ {q.dequeue_chunk_pos, q.dequeue_chunk_poll_pos} \subseteq ChunkStart
         /\ n > 0 /\ (~f => m < n /\ producer_consumer_distance < n)
<1>1. PICK c, d, R, D : c = q.dequeue_chunk_pos /\ d = q.dequeue_pos /\ R = ChunkRecords /\ D = producer_consumer_distance
  OBVIOUS
<1>2. /\ m = lap + d /\ lap + c <= m /\ m < lap + c + R /\ lap + c < n /\ (~f => lap + c + D < n)
  BY <1>1 DEF ReadTo, ReadInChunk
<1>3. {c, q.dequeue_chunk_poll_pos} \subseteq ChunkStart
  BY <1>1 DEF ReadTo
<1>4. c \in Nat /\ d \in Int /\ R \in Nat /\ D \in Nat /\ D = R + R
  BY <1>1, <1>3, QueueFields, Tiling
<1>5. d \in c .. c + R - 1 /\ n > 0 /\ (~f => m < n /\ D < n)
  BY ONLY <1>2, <1>4, lap \in Nat, m \in Nat, n \in Nat
<1> QED
  BY <1>1, <1>3, <1>5

\* TakeTick: no tick, a tick that is due, or one that is not.
NoneThere(q) ==
  /\ q.dequeue_pos = NULL /\ pc' = "no tick" /\ UNCHANGED <<ticks_buffer, recorded>>
DueThere(q) ==
  /\ q.dequeue_pos # NULL /\ IsDue(q.buffer[q.dequeue_pos])
  /\ RecordTickSample(q.buffer[q.dequeue_pos])
  /\ ticks_buffer' = FinishDequeue(q) /\ pc' = "vm ticks"
LaterThere(q) ==
  /\ q.dequeue_pos # NULL /\ ~IsDue(q.buffer[q.dequeue_pos])
  /\ ticks_buffer' = q /\ pc' = "event" /\ UNCHANGED recorded

LEMMA TakeTickCases ==
  ASSUME TakeTick, NEW q, q = StartDequeue(ticks_buffer)
  PROVE  /\ pc = "ticks" /\ (NoneThere(q) \/ DueThere(q) \/ LaterThere(q))
         /\ UNCHANGED <<ticks_from_vm_buffer, events_buffer, vmVars, draining, dequeue_order, code_map>>
BY DEF TakeTick, NoneThere, DueThere, LaterThere

LEMMA RecordedEntry ==
  ASSUME TypeOK, NEW t \in Tick
  PROVE  /\ [order |-> t.order, id |-> t.id, map |-> code_map] \in Entry
         /\ RecordTickSample(t) => /\ recorded' = Append(recorded, [order |-> t.order, id |-> t.id, map |-> code_map])
                                   /\ recorded' \in Seq(Entry)
<1>1. t.order \in Nat /\ t.id \in Nat /\ code_map \in Nat
  BY Types DEF Tick
<1>2. [order |-> t.order, id |-> t.id, map |-> code_map] \in Entry
  BY <1>1 DEF Entry
<1>3. PICK e \in Entry : e = [order |-> t.order, id |-> t.id, map |-> code_map]
  BY <1>2
<1>4. Append(recorded, e) \in Seq(Entry)
  BY Types, AppendTo
<1> QED
  BY <1>3, <1>4 DEF RecordTickSample

LEMMA TypeStep ==
  ASSUME IInv, Next
  PROVE  TypeOK'
<1>0. TypeOK /\ ControlInv /\ OrdersInv /\ RingInv
  BY DEF IInv
<1>1. /\ ticks_buffer \in Queue(Tick) /\ ticks_from_vm_buffer \in Seq(Tick) /\ events_buffer \in Seq(Nat)
      /\ MaxEvents \in Nat /\ MaxProfiles \in Nat
  BY <1>0, Types
<1>2. CASE NumberCodeEvent
  <2>1. enqueue_order + 1 \in 0 .. MaxEvents
    <3>1. enqueue_order \in 0 .. MaxEvents /\ enqueue_order < MaxEvents
      BY <1>0, <1>2, Types DEF NumberCodeEvent
    <3> QED
      BY ONLY <1>1, <3>1
  <2> QED
    BY <1>0, <1>2, <2>1 DEF NumberCodeEvent, TypeOK, processorVars
<1>3. CASE QueueCodeEvent
  <2>1. Append(events_buffer, enqueue_order) \in Seq(Nat)
    BY <1>0, <1>1, Types, AppendTo
  <2> QED
    BY <1>0, <1>3, <2>1 DEF QueueCodeEvent, EventOrder, TypeOK, processorVars
<1>4. CASE StartSampler
  BY <1>0, <1>1, <1>4 DEF StartSampler, TypeOK, processorVars
<1>5. CASE StartProfiling
  <2>1. Cardinality(VmTicks) \in Nat
    BY <1>0, Types, TicksCounted DEF VmTicks
  <2>2. profiles + 1 \in 0 .. MaxProfiles
    <3>1. Cardinality(VmTicks) < MaxProfiles /\ Starting = 0
      BY <1>5 DEF StartProfiling, VmTicks, Starting
    <3>2. profiles <= Cardinality(VmTicks) + Starting /\ profiles \in 0 .. MaxProfiles
      BY <1>0, Types DEF ControlInv
    <3> QED
      BY ONLY <1>1, <2>1, <3>1, <3>2
  <2> QED
    BY <1>0, <1>5, <2>2 DEF StartProfiling, TypeOK, processorVars
<1>6. CASE AddCurrentStack
  <2>1. Append(ticks_from_vm_buffer, NewTick) \in Seq(Tick)
    BY <1>0, <1>1, NewTickType, AppendTo
  <2>2. sampled' \in Seq(Sample)
    BY <1>0, <1>6, Types, SampledGrows DEF AddCurrentStack
  <2> QED
    BY <1>0, <1>6, <2>1, <2>2 DEF AddCurrentStack, TypeOK, processorVars, Sample
<1>7. CASE TickSampleEvent
  <2>1. Enqueue(ticks_buffer, NewTick) \in Queue(Tick)
    BY <1>0, <1>1, NewTickType, EnqueueFields
  <2>2. sampled' \in Seq(Sample)
    BY <1>0, <1>7, Types, SampledGrows DEF TickSampleEvent
  <2> QED
    BY <1>0, <1>7, <2>1, <2>2 DEF TickSampleEvent, TypeOK, processorVars, Sample
<1>8. CASE StopProfiling
  <2>1. profiles - 1 \in 0 .. MaxProfiles
    <3>1. profiles \in 0 .. MaxProfiles /\ profiles > 1
      BY <1>0, <1>8, Types DEF StopProfiling
    <3> QED
      BY ONLY <1>1, <3>1
  <2> QED
    BY <1>0, <1>8, <2>1 DEF StopProfiling, TypeOK, processorVars
<1>9. CASE StopSampler
  BY <1>0, <1>1, <1>9 DEF StopSampler, TypeOK, processorVars
<1>10. CASE StopProcessor
  BY <1>0, <1>1, <1>10 DEF StopProcessor, TypeOK, processorVars
<1>11. CASE JoinProcessor
  BY <1>0, <1>1, <1>11 DEF JoinProcessor, TypeOK, processorVars
<1>12. CASE CheckRunning
  <2>1. FlushResidualRecords(ticks_buffer) \in Queue(Tick)
    BY <1>1, FlushFields
  <2>2. ticks_buffer' \in Queue(Tick)
    BY <1>1, <1>12, <2>1 DEF CheckRunning
  <2> QED
    BY <1>0, <1>12, <2>2 DEF CheckRunning, TypeOK, vmVars
<1>13. CASE TakeTickFromVm
  <2>1. ticks_from_vm_buffer # <<>> =>
          Head(ticks_from_vm_buffer) \in Tick /\ Tail(ticks_from_vm_buffer) \in Seq(Tick)
    BY <1>1
  <2>2. recorded' \in Seq(Entry) /\ ticks_from_vm_buffer' \in Seq(Tick)
    BY <1>0, <1>1, <1>13, <2>1, Types, RecordedEntry DEF TakeTickFromVm
  <2> QED
    BY <1>0, <1>13, <2>2 DEF TakeTickFromVm, TypeOK, vmVars, Entry
<1>14. CASE TakeTick
  <2>1. PICK q : q = StartDequeue(ticks_buffer)
    OBVIOUS
  <2>2. q \in Queue(Tick)
    BY <1>1, <2>1, StartFields
  <2>ring. PICK n, base, m, lap \in Nat : \E S : Ring(n, S, base, m, lap)
    BY <1>0 DEF RingInv
  <2>3. PICK S : Ring(n, S, base, m, lap)
    BY <2>ring
  <2>4. draining \in BOOLEAN /\ ReadTo(q, draining, n, base, m, lap)
    BY <1>0, <1>1, <2>1, <2>3, StartRead DEF Ring, TypeOK
  <2>5. ticks_buffer' \in Queue(Tick) /\ recorded' \in Seq(Entry) /\ pc' \in {"no tick", "vm ticks", "event"}
    <3>1. CASE NoneThere(q)
      BY <1>0, <1>1, <3>1, Types DEF NoneThere
    <3>2. CASE DueThere(q)
      <4>1. FinishDequeue(q) \in Queue(Tick)
        BY <2>2, <2>4, <3>2, ExposedInChunk, FinishFields DEF DueThere
      <4>2. q.buffer[q.dequeue_pos] \in Tick
        BY <2>2, <3>2, ExposedType DEF DueThere
      <4> QED
        BY <1>0, <3>2, <4>1, <4>2, RecordedEntry DEF DueThere
    <3>3. CASE LaterThere(q)
      BY <1>0, <1>1, <2>2, <3>3, Types DEF LaterThere
    <3> QED
      BY <1>14, <2>1, <3>1, <3>2, <3>3, TakeTickCases
  <2>6. UNCHANGED <<ticks_from_vm_buffer, events_buffer, vmVars, draining, dequeue_order, code_map>>
    BY <1>14 DEF TakeTick
  <2> QED
    BY <1>0, <2>5, <2>6 DEF TypeOK, vmVars, Entry
<1>15. CASE NoTick
  BY <1>0, <1>1, <1>15 DEF NoTick, GiveUp, TypeOK, vmVars
<1>16. CASE ProcessCodeEvent
  <2>1. CASE events_buffer = <<>>
    BY <1>0, <1>1, <1>16, <2>1 DEF ProcessCodeEvent, AfterNoEvent, GiveUp, TypeOK, vmVars
  <2>2. CASE events_buffer # <<>>
    <3>1. Len(events_buffer) \in Nat \ {0} /\ Tail(events_buffer) \in Seq(Nat) /\ Head(events_buffer) = events_buffer[1]
      BY <1>1, <2>2
    <3>2. Head(events_buffer) = dequeue_order + 1 /\ code_map = dequeue_order
      BY <1>0, <3>1 DEF OrdersInv
    <3>3. dequeue_order + Len(events_buffer) + (IF numbered THEN 1 ELSE 0) = enqueue_order
      BY <1>0 DEF OrdersInv
    <3>4. dequeue_order + 1 \in 0 .. MaxEvents
      <4>1. dequeue_order \in 0 .. MaxEvents /\ enqueue_order \in 0 .. MaxEvents
        BY <1>0, Types
      <4> QED
        BY ONLY <1>1, <3>1, <3>3, <4>1
    <3> QED
      BY <1>0, <1>16, <2>2, <3>1, <3>2, <3>4 DEF ProcessCodeEvent, TypeOK, vmVars
  <2> QED
    BY <2>1, <2>2
<1> QED
  BY <1>2, <1>3, <1>4, <1>5, <1>6, <1>7, <1>8, <1>9, <1>10, <1>11, <1>12, <1>13, <1>14, <1>15, <1>16
     DEF Next, VM, Processor

LEMMA ControlStep ==
  ASSUME IInv, Next
  PROVE  ControlInv'
<1>0. TypeOK /\ ControlInv
  BY DEF IInv
<1>1. Cardinality(VmTicks) \in Nat /\ sampled \in Seq(Sample) /\ MaxProfiles \in Nat /\ MaxProfiles # 0 /\ profiles \in Nat
  BY <1>0, Types, TicksCounted, BoundAssumption DEF VmTicks
<1>2. sampled' = sampled => VmTicks' = VmTicks
  BY DEF VmTicks, TickIds
<1>3. CASE NumberCodeEvent
  BY <1>0, <1>2, <1>3 DEF NumberCodeEvent, ControlInv, Starting, processorVars
<1>4. CASE QueueCodeEvent
  BY <1>0, <1>2, <1>4 DEF QueueCodeEvent, ControlInv, Starting, processorVars
<1>5. CASE StartSampler
  BY <1>0, <1>2, <1>5 DEF StartSampler, ControlInv, Starting, processorVars, TypeOK
<1>6. CASE StartProfiling
  <2>1. Cardinality(VmTicks) < MaxProfiles /\ profiles <= Cardinality(VmTicks) + 0
    BY <1>0, <1>6 DEF StartProfiling, ControlInv, Starting, VmTicks
  <2>2. profiles + 1 <= Cardinality(VmTicks) + 1 /\ Cardinality(VmTicks) + 1 <= MaxProfiles
    BY ONLY <1>1, <2>1
  <2> QED
    BY <1>0, <1>2, <1>6, <2>2 DEF StartProfiling, ControlInv, Starting, processorVars
<1>7. CASE AddCurrentStack
  <2>1. PICK l : l = Len(sampled)
    OBVIOUS
  <2>2. VmTicks' = VmTicks \cup {l + 1} /\ l + 1 \notin VmTicks
    <3>1. VmTicks' = VmTicks \cup {l + 1} /\ l \in Nat
      BY <1>0, <1>7, <2>1, Types, SampledGrows DEF AddCurrentStack, VmTicks
    <3>2. l + 1 \notin 1 .. l /\ VmTicks \subseteq 1 .. l
      BY <2>1, <3>1 DEF VmTicks, TickIds
    <3> QED
      BY <3>1, <3>2
  <2>3. Cardinality(VmTicks') = Cardinality(VmTicks) + 1
    BY <1>1, <2>2, TicksCounted, FS_AddElement DEF VmTicks
  <2>4. profiles <= Cardinality(VmTicks) + 1 /\ Cardinality(VmTicks) + 1 <= MaxProfiles
    BY <1>0, <1>7 DEF AddCurrentStack, ControlInv, Starting
  <2>5. profiles <= Cardinality(VmTicks') + 0 /\ Cardinality(VmTicks') + 0 <= MaxProfiles
    BY ONLY <1>1, <2>3, <2>4
  <2> QED
    BY <1>0, <1>7, <2>5 DEF AddCurrentStack, ControlInv, Starting, processorVars
<1>8. CASE TickSampleEvent
  <2>1. VmTicks' = VmTicks
    BY <1>0, <1>8, Types, SampledGrows DEF TickSampleEvent, VmTicks
  <2> QED
    BY <1>0, <1>8, <2>1 DEF TickSampleEvent, ControlInv, Starting, processorVars
<1>9. CASE StopProfiling
  BY <1>0, <1>1, <1>2, <1>9 DEF StopProfiling, ControlInv, Starting, processorVars
<1>10. CASE StopSampler
  BY <1>0, <1>1, <1>2, <1>10 DEF StopSampler, ControlInv, Starting, processorVars
<1>11. CASE StopProcessor
  BY <1>0, <1>1, <1>2, <1>11 DEF StopProcessor, ControlInv, Starting, processorVars
<1>12. CASE JoinProcessor
  BY <1>0, <1>1, <1>2, <1>12 DEF JoinProcessor, ControlInv, Starting, processorVars
<1>13. CASE CheckRunning
  BY <1>0, <1>2, <1>13 DEF CheckRunning, ControlInv, Starting, vmVars
<1>14. CASE TakeTickFromVm
  BY <1>0, <1>2, <1>14 DEF TakeTickFromVm, ControlInv, Starting, vmVars
<1>15. CASE TakeTick
  <2>1. pc' \in {"no tick", "vm ticks", "event"} /\ UNCHANGED <<vmVars, draining>> /\ pc = "ticks"
    BY <1>15 DEF TakeTick
  <2> QED
    BY <1>0, <1>2, <2>1 DEF ControlInv, Starting, vmVars
<1>16. CASE NoTick
  BY <1>0, <1>2, <1>16 DEF NoTick, GiveUp, ControlInv, Starting, vmVars
<1>17. CASE ProcessCodeEvent
  BY <1>0, <1>2, <1>17 DEF ProcessCodeEvent, AfterNoEvent, GiveUp, ControlInv, Starting, vmVars
<1> QED
  BY <1>3, <1>4, <1>5, <1>6, <1>7, <1>8, <1>9, <1>10, <1>11, <1>12, <1>13, <1>14, <1>15, <1>16, <1>17
     DEF Next, VM, Processor

---------------------------------------------------------------------------
(* The code events and the ticks taken.                                      *)

LEMMA OrdersRecorded ==
  ASSUME TypeOK, OrdersInv, NEW t \in Tick, IsDue(t), RecordTickSample(t),
         UNCHANGED <<code_map, dequeue_order, events_buffer, numbered, enqueue_order>>
  PROVE  OrdersInv'
<1>1. PICK l, e : l = Len(recorded) /\ e = [order |-> t.order, id |-> t.id, map |-> code_map]
  OBVIOUS
<1>2. recorded \in Seq(Entry) /\ e \in Entry /\ recorded' = Append(recorded, e)
  BY <1>1, Types, RecordedEntry
<1>3. /\ Len(recorded') = l + 1 /\ l \in Nat /\ recorded'[l + 1] = e
      /\ \A i \in 1 .. l : recorded'[i] = recorded[i]
  BY <1>1, <1>2, AppendTo
<1>4. e.map = e.order
  BY <1>1 DEF IsDue, OrdersInv
<1>5. \A i \in 1 .. l + 1 : i \in 1 .. l \/ i = l + 1
  BY <1>3
<1>6. \A i \in 1 .. l + 1 : recorded'[i].map = recorded'[i].order
  BY <1>1, <1>3, <1>4, <1>5 DEF OrdersInv
<1> QED
  BY <1>3, <1>6 DEF OrdersInv

LEMMA OrdersStep ==
  ASSUME IInv, Next
  PROVE  OrdersInv'
<1>0. TypeOK /\ OrdersInv /\ RingInv
  BY DEF IInv
<1>1. events_buffer \in Seq(Nat) /\ enqueue_order \in Nat /\ dequeue_order \in Nat /\ Len(events_buffer) \in Nat
  BY <1>0, Types
<1>2. /\ code_map = dequeue_order
      /\ \A i \in 1 .. Len(events_buffer) : events_buffer[i] = dequeue_order + i
      /\ dequeue_order + Len(events_buffer) + (IF numbered THEN 1 ELSE 0) = enqueue_order
      /\ \A i \in 1 .. Len(recorded) : recorded[i].map = recorded[i].order
  BY <1>0 DEF OrdersInv
<1>3. CASE NumberCodeEvent
  <2>1. dequeue_order + Len(events_buffer) + 1 = enqueue_order + 1
    BY <1>1, <1>2, <1>3 DEF NumberCodeEvent
  <2> QED
    BY <1>2, <1>3, <2>1 DEF NumberCodeEvent, OrdersInv, processorVars
<1>4. CASE QueueCodeEvent
  <2>1. PICK b, l : b = Append(events_buffer, enqueue_order) /\ l = Len(events_buffer)
    OBVIOUS
  <2>2. Len(b) = l + 1 /\ l \in Nat /\ b[l + 1] = enqueue_order /\ \A i \in 1 .. l : b[i] = events_buffer[i]
    BY <1>1, <2>1, AppendTo
  <2>3. dequeue_order + (l + 1) = enqueue_order /\ dequeue_order + (l + 1) + 0 = enqueue_order
    BY <1>1, <1>2, <1>4, <2>1 DEF QueueCodeEvent
  <2>4. \A i \in 1 .. l + 1 : i \in 1 .. l \/ i = l + 1
    BY <2>2
  <2>5. \A i \in 1 .. l + 1 : b[i] = dequeue_order + i
    BY <1>2, <2>1, <2>2, <2>3, <2>4
  <2>6. /\ events_buffer' = b /\ ~numbered' /\ enqueue_order' = enqueue_order
        /\ UNCHANGED <<code_map, dequeue_order, recorded>>
    BY <1>4, <2>1 DEF QueueCodeEvent, EventOrder, processorVars
  <2> QED
    BY <1>2, <2>2, <2>3, <2>5, <2>6 DEF OrdersInv
<1>5. CASE UNCHANGED <<code_map, dequeue_order, events_buffer, numbered, enqueue_order, recorded>>
  BY <1>0, <1>5 DEF OrdersInv
<1>6. CASE StartSampler \/ StartProfiling \/ AddCurrentStack \/ TickSampleEvent \/ StopProfiling
           \/ StopSampler \/ StopProcessor \/ JoinProcessor
  BY <1>5, <1>6 DEF StartSampler, StartProfiling, AddCurrentStack, TickSampleEvent, StopProfiling, StopSampler,
                    StopProcessor, JoinProcessor, processorVars
<1>7. CASE CheckRunning \/ NoTick
  BY <1>5, <1>7 DEF CheckRunning, NoTick, vmVars
<1>8. CASE TakeTickFromVm
  <2>1. CASE ticks_from_vm_buffer # <<>> /\ IsDue(Head(ticks_from_vm_buffer))
    <3>1. Head(ticks_from_vm_buffer) \in Tick
      BY <1>0, <2>1, Types
    <3>2. /\ RecordTickSample(Head(ticks_from_vm_buffer))
          /\ UNCHANGED <<code_map, dequeue_order, events_buffer, numbered, enqueue_order>>
      BY <1>8, <2>1 DEF TakeTickFromVm, vmVars
    <3> QED
      BY <1>0, <2>1, <3>1, <3>2, OrdersRecorded
  <2>2. CASE ~(ticks_from_vm_buffer # <<>> /\ IsDue(Head(ticks_from_vm_buffer)))
    BY <1>5, <1>8, <2>2 DEF TakeTickFromVm, vmVars
  <2> QED
    BY <2>1, <2>2
<1>9. CASE TakeTick
  <2>1. PICK q : q = StartDequeue(ticks_buffer)
    OBVIOUS
  <2>2. q \in Queue(Tick)
    BY <1>0, <2>1, Types, StartFields
  <2>3. UNCHANGED <<code_map, dequeue_order, events_buffer, numbered, enqueue_order>>
    BY <1>9 DEF TakeTick, vmVars
  <2>4. CASE DueThere(q)
    <3>1. q.buffer[q.dequeue_pos] \in Tick
      BY <2>2, <2>4, ExposedType DEF DueThere
    <3>2. IsDue(q.buffer[q.dequeue_pos]) /\ RecordTickSample(q.buffer[q.dequeue_pos])
      BY <2>4 DEF DueThere
    <3> QED
      BY <1>0, <2>3, <3>1, <3>2, OrdersRecorded
  <2>5. CASE NoneThere(q) \/ LaterThere(q)
    BY <1>5, <2>3, <2>5 DEF NoneThere, LaterThere
  <2> QED
    BY <1>9, <2>1, <2>4, <2>5, TakeTickCases
<1>10. CASE ProcessCodeEvent
  <2>1. CASE events_buffer = <<>>
    BY <1>5, <1>10, <2>1 DEF ProcessCodeEvent, vmVars
  <2>2. CASE events_buffer # <<>>
    <3>1. PICK b, l, d : b = Tail(events_buffer) /\ l = Len(events_buffer) /\ d = dequeue_order
      OBVIOUS
    <3>2. /\ l \in Nat \ {0} /\ Head(events_buffer) = events_buffer[1] /\ Len(b) = l - 1
          /\ \A i \in 1 .. l - 1 : b[i] = events_buffer[i + 1]
      BY <1>1, <2>2, <3>1
    <3>3. /\ events_buffer' = b /\ dequeue_order' = Head(events_buffer) /\ code_map' = code_map + 1
          /\ UNCHANGED <<numbered, enqueue_order, recorded>>
      BY <1>10, <2>2, <3>1 DEF ProcessCodeEvent, vmVars
    <3>4. Head(events_buffer) = d + 1
      BY <1>2, <3>1, <3>2
    <3>5. \A i \in 1 .. l - 1 : i + 1 \in 1 .. l /\ d + 1 + i = d + (i + 1)
      BY <1>1, <3>1, <3>2
    <3>6. \A i \in 1 .. l - 1 : b[i] = d + 1 + i
      BY <1>2, <3>1, <3>2, <3>5
    <3>7. d + 1 + (l - 1) + (IF numbered THEN 1 ELSE 0) = enqueue_order
      <4>1. PICK c : c = IF numbered THEN 1 ELSE 0
        OBVIOUS
      <4>2. c \in Nat /\ d \in Nat /\ d + l + c = enqueue_order
        BY <1>1, <1>2, <3>1, <4>1
      <4>3. d + 1 + (l - 1) + c = enqueue_order
        BY ONLY <3>2, <4>2
      <4> QED
        BY <4>1, <4>3
    <3> QED
      BY <1>2, <3>1, <3>2, <3>3, <3>4, <3>6, <3>7 DEF OrdersInv
  <2> QED
    BY <2>1, <2>2
<1> QED
  BY <1>3, <1>4, <1>6, <1>7, <1>8, <1>9, <1>10 DEF Next, VM, Processor

LEMMA OrdersNatural ==
  ASSUME sampled \in Seq(Sample), NEW i \in 1 .. Len(sampled)
  PROVE  sampled[i].order \in Nat /\ sampled[i].source \in {"sampler", "vm"}
<1>1. sampled[i] \in Sample /\ MaxEvents \in Nat
  BY BoundAssumption
<1> QED
  BY <1>1 DEF Sample

LEMMA SampledGrowsInv ==
  ASSUME TypeOK, SampledInv, phase # "logging", phase' # "logging", enqueue_order' = enqueue_order,
         NEW src \in {"sampler", "vm"}, sampled' = Append(sampled, [source |-> src, order |-> enqueue_order])
  PROVE  SampledInv'
<1>1. PICK l, e : l = Len(sampled) /\ e = enqueue_order
  OBVIOUS
<1>2. /\ Len(sampled') = l + 1 /\ l \in Nat /\ sampled'[l + 1].order = e /\ e \in Nat
      /\ \A i \in 1 .. l : sampled'[i] = sampled[i]
  BY <1>1, Types, SampledGrows
<1>3. /\ e > 0 /\ \A i \in 1 .. l : sampled[i].order > 0 /\ sampled[i].order <= e
      /\ \A i, j \in 1 .. l : i <= j => sampled[i].order <= sampled[j].order
  BY <1>1 DEF SampledInv
<1>4. \A i \in 1 .. l + 1 : i \in 1 .. l \/ i = l + 1
  BY <1>2
<1>5. e <= e
  BY <1>2
<1>6. \A i \in 1 .. l + 1 : sampled'[i].order > 0 /\ sampled'[i].order <= e
  BY <1>2, <1>3, <1>4, <1>5
<1>7. ASSUME NEW i \in 1 .. l + 1, NEW j \in 1 .. l + 1, i <= j PROVE sampled'[i].order <= sampled'[j].order
  <2>1. CASE j = l + 1
    BY <1>2, <1>6, <2>1
  <2>2. CASE j \in 1 .. l
    <3>1. i \in 1 .. l
      BY <1>2, <1>7, <2>2
    <3> QED
      BY <1>2, <1>3, <1>7, <2>2, <3>1
  <2> QED
    BY <1>4, <2>1, <2>2
<1> QED
  BY <1>1, <1>2, <1>3, <1>6, <1>7 DEF SampledInv

LEMMA SampledStep ==
  ASSUME IInv, Next
  PROVE  SampledInv'
<1>0. TypeOK /\ SampledInv /\ ControlInv
  BY DEF IInv
<1>1. CASE NumberCodeEvent
  <2>1. PICK e, f : e = enqueue_order /\ f = e + 1
    OBVIOUS
  <2>2. e \in Nat /\ sampled \in Seq(Sample)
    BY <1>0, <2>1, Types
  <2>3. \A i \in 1 .. Len(sampled) : sampled[i].order \in Nat
    BY <2>2, OrdersNatural
  <2>4. \A x \in Nat : x <= e => x <= f
    BY <2>1, <2>2
  <2>5. \A i \in 1 .. Len(sampled) : sampled[i].order <= f
    BY <1>0, <2>1, <2>3, <2>4 DEF SampledInv
  <2>6. f > 0 /\ enqueue_order' = f /\ phase' = phase /\ sampled' = sampled
    BY <1>1, <2>1, <2>2 DEF NumberCodeEvent
  <2> QED
    BY <1>0, <2>5, <2>6 DEF SampledInv
<1>2. CASE /\ UNCHANGED <<sampled, enqueue_order>>
           /\ phase' = phase \/ (phase' # "logging" /\ enqueue_order > 0)
  BY <1>0, <1>2 DEF SampledInv
<1>3. CASE QueueCodeEvent \/ StartSampler
  BY <1>2, <1>3 DEF QueueCodeEvent, StartSampler
<1>4. CASE StartProfiling \/ StopProfiling \/ StopSampler \/ StopProcessor \/ JoinProcessor
  <2>1. UNCHANGED <<sampled, enqueue_order>> /\ phase # "logging" /\ phase' # "logging"
    BY <1>4 DEF StartProfiling, StopProfiling, StopSampler, StopProcessor, JoinProcessor
  <2> QED
    BY <1>0, <1>2, <2>1 DEF SampledInv
<1>5. CASE AddCurrentStack
  BY <1>0, <1>5, SampledGrowsInv DEF AddCurrentStack
<1>6. CASE TickSampleEvent
  BY <1>0, <1>6, SampledGrowsInv DEF TickSampleEvent, ControlInv
<1>7. CASE Processor
  BY <1>2, <1>7 DEF Processor, CheckRunning, TakeTickFromVm, TakeTick, NoTick, ProcessCodeEvent, vmVars
<1> QED
  BY <1>1, <1>3, <1>4, <1>5, <1>6, <1>7 DEF Next, VM

---------------------------------------------------------------------------
(* The ticks of the VM.                                                      *)

\* Taking a tick does not change what was recorded.
LEMMA RecordedKept ==
  ASSUME TypeOK, VmInv, NEW src \in {"sampler", "vm"}, recorded' = recorded,
         sampled' = Append(sampled, [source |-> src, order |-> enqueue_order])
  PROVE  /\ \A i \in 1 .. Len(recorded) : FromSampler(i)' <=> FromSampler(i)
         /\ \A i \in 0 .. Len(recorded) : FromRing(i)' = FromRing(i)
         /\ \A id : Recorded(id)' <=> Recorded(id)
<1>1. PICK l : l = Len(sampled)
  OBVIOUS
<1>2. l \in Nat /\ \A i \in 1 .. l : sampled'[i] = sampled[i]
  BY <1>1, Types, SampledGrows
<1>3. \A i \in 1 .. Len(recorded) : recorded[i].id = 0 \/ recorded[i].id \in 1 .. l
  BY <1>1, <1>2 DEF VmInv
<1>4. \A i \in 1 .. Len(recorded) : FromSampler(i)' <=> FromSampler(i)
  BY <1>2, <1>3 DEF FromSampler
<1>5. Len(recorded) \in Nat
  BY Types
<1>6. \A i \in 0 .. Len(recorded) : \A j \in 1 .. i : j \in 1 .. Len(recorded)
  BY <1>5
<1>7. \A i \in 0 .. Len(recorded) : FromRing(i)' = FromRing(i)
  BY <1>4, <1>6 DEF FromRing
<1> QED
  BY <1>4, <1>7 DEF Recorded

LEMMA VmSampler ==
  ASSUME TypeOK, VmInv, recorded' = recorded, ticks_from_vm_buffer' = ticks_from_vm_buffer,
         sampled' = Append(sampled, [source |-> "sampler", order |-> enqueue_order])
  PROVE  VmInv'
<1>1. PICK l, b : l = Len(sampled) /\ b = ticks_from_vm_buffer
  OBVIOUS
<1>2. /\ Len(sampled') = l + 1 /\ l \in Nat
      /\ \A id \in 1 .. l : TickOf(id)' = TickOf(id)
      /\ VmTicks' = VmTicks
  BY <1>1, Types, SampledGrows DEF VmTicks
<1>3. VmTicks \subseteq 1 .. l
  BY <1>1 DEF VmTicks, TickIds
<1>4. \A i \in 1 .. Len(b) : b[i].id \in VmTicks /\ b[i] = TickOf(b[i].id)'
  BY <1>1, <1>2, <1>3 DEF VmInv
<1>5. \A i \in 1 .. Len(recorded) : FromSampler(i)' <=> FromSampler(i)
  BY RecordedKept
<1>6. \A id : Recorded(id)' <=> Recorded(id)
  BY RecordedKept
<1>7. 0 .. l \subseteq 0 .. l + 1
  BY <1>2
<1>8. \A i \in 1 .. Len(recorded) : recorded[i].id \in 0 .. l + 1
  BY <1>1, <1>7 DEF VmInv
<1> QED
  BY <1>1, <1>2, <1>4, <1>5, <1>6, <1>8 DEF VmInv

LEMMA VmAdds ==
  ASSUME TypeOK, VmInv, recorded' = recorded, ticks_from_vm_buffer' = Append(ticks_from_vm_buffer, NewTick),
         sampled' = Append(sampled, [source |-> "vm", order |-> enqueue_order])
  PROVE  VmInv'
<1>1. PICK l, b, b2, k : l = Len(sampled) /\ b = ticks_from_vm_buffer /\ b2 = Append(b, NewTick) /\ k = Len(b)
  OBVIOUS
<1>2. /\ Len(sampled') = l + 1 /\ l \in Nat
      /\ \A id \in 1 .. l : TickOf(id)' = TickOf(id)
      /\ TickOf(l + 1)' = [order |-> enqueue_order, id |-> l + 1]
      /\ VmTicks' = VmTicks \cup {l + 1}
  BY <1>1, Types, SampledGrows DEF VmTicks
<1>3. VmTicks \subseteq 1 .. l
  BY <1>1 DEF VmTicks, TickIds
<1>4. NewTick = TickOf(l + 1)' /\ NewTick.id = l + 1
  BY <1>1, <1>2 DEF NewTick
<1>5. Len(b2) = k + 1 /\ k \in Nat /\ b2[k + 1] = NewTick /\ \A i \in 1 .. k : b2[i] = b[i]
  BY <1>1, NewTickType, Types, AppendTo
<1>6. \A i \in 1 .. k + 1 : i \in 1 .. k \/ i = k + 1
  BY <1>5
<1>7. \A i \in 1 .. k : b[i].id \in VmTicks /\ b[i] = TickOf(b[i].id)
  BY <1>1 DEF VmInv
<1>8. \A i \in 1 .. k + 1 : b2[i].id \in VmTicks' /\ b2[i] = TickOf(b2[i].id)'
  <2> SUFFICES ASSUME NEW i \in 1 .. k + 1 PROVE b2[i].id \in VmTicks' /\ b2[i] = TickOf(b2[i].id)'
    OBVIOUS
  <2>1. CASE i = k + 1
    <3>1. b2[i] = NewTick /\ b2[i].id = l + 1
      BY <1>4, <1>5, <2>1
    <3> QED
      BY <1>2, <1>4, <3>1
  <2>2. CASE i \in 1 .. k
    <3>1. b2[i] = b[i] /\ b2[i].id \in VmTicks /\ b2[i].id \in 1 .. l
      BY <1>3, <1>5, <1>7, <2>2
    <3>2. TickOf(b2[i].id)' = TickOf(b2[i].id)
      BY <1>2, <3>1
    <3> QED
      BY <1>2, <1>7, <2>2, <3>1, <3>2
  <2> QED
    BY <1>6, <2>1, <2>2
<1>9. \A i, j \in 1 .. k + 1 : i < j => b2[i].id < b2[j].id
  <2> SUFFICES ASSUME NEW i \in 1 .. k + 1, NEW j \in 1 .. k + 1, i < j PROVE b2[i].id < b2[j].id
    OBVIOUS
  <2>1. i \in 1 .. k
    BY <1>5
  <2>2. CASE j = k + 1
    <3>1. b2[j].id = l + 1 /\ b2[i].id \in 1 .. l
      BY <1>3, <1>4, <1>5, <1>7, <2>1, <2>2
    <3> QED
      BY <1>2, <3>1
  <2>3. CASE j \in 1 .. k
    BY <1>1, <1>5, <2>1, <2>3 DEF VmInv
  <2> QED
    BY <1>6, <2>2, <2>3
<1>10. \A i \in 1 .. Len(recorded) : FromSampler(i)' <=> FromSampler(i)
  BY RecordedKept
<1>11. \A id : Recorded(id)' <=> Recorded(id)
  BY RecordedKept
<1>12. \A i \in 1 .. Len(recorded) : recorded[i].id \in 0 .. l + 1 /\ recorded[i].id < l + 1
  <2>1. \A x \in 0 .. l : x \in 0 .. l + 1 /\ x < l + 1
    BY <1>2
  <2> QED
    BY <1>1, <2>1 DEF VmInv
<1>13. \A i \in 1 .. Len(recorded) : ~FromSampler(i) => \A j \in 1 .. k + 1 : recorded[i].id < b2[j].id
  <2>1. \A i \in 1 .. Len(recorded) : ~FromSampler(i) => \A j \in 1 .. k : recorded[i].id < b[j].id
    BY <1>1 DEF VmInv
  <2> QED
    BY <1>4, <1>5, <1>6, <1>12, <2>1
<1>14. k + 1 \in 1 .. k + 1 /\ \A i \in 1 .. k : i \in 1 .. k + 1
  BY <1>5
<1>15. \A id \in VmTicks \cup {l + 1} : Recorded(id) \/ \E i \in 1 .. k + 1 : b2[i].id = id
  <2>1. \A id \in VmTicks : Recorded(id) \/ \E i \in 1 .. k : b[i].id = id
    BY <1>1 DEF VmInv
  <2> QED
    BY <1>4, <1>5, <1>14, <2>1
<1>16. \A i \in 1 .. Len(recorded) : ~FromSampler(i) =>
         \A j \in 1 .. Len(recorded) : recorded[j].id = recorded[i].id => j = i
  BY DEF VmInv
<1>17. ticks_from_vm_buffer' = b2 /\ Len(b2) = k + 1
  BY <1>1, <1>5
<1> QED
  BY <1>2, <1>8, <1>9, <1>10, <1>11, <1>12, <1>13, <1>15, <1>16, <1>17 DEF VmInv

LEMMA VmTaken ==
  ASSUME TypeOK, VmInv, ticks_from_vm_buffer # <<>>, RecordTickSample(Head(ticks_from_vm_buffer)),
         ticks_from_vm_buffer' = Tail(ticks_from_vm_buffer), sampled' = sampled
  PROVE  VmInv' /\ Head(ticks_from_vm_buffer).id \in VmTicks
<1>1. PICK b, k, t, l, b2 : /\ b = ticks_from_vm_buffer /\ k = Len(b) /\ t = Head(b) /\ l = Len(recorded)
                            /\ b2 = Tail(b)
  OBVIOUS
<1>2. /\ k \in Nat \ {0} /\ t = b[1] /\ t \in Tick /\ Len(b2) = k - 1
      /\ \A i \in 1 .. k - 1 : b2[i] = b[i + 1] /\ i + 1 \in 1 .. k /\ 1 < i + 1
  BY <1>1, Types
<1>3. PICK e : e = [order |-> t.order, id |-> t.id, map |-> code_map]
  OBVIOUS
<1>4. recorded \in Seq(Entry) /\ e \in Entry /\ recorded' = Append(recorded, e) /\ e.id = t.id
  BY <1>1, <1>2, <1>3, Types, RecordedEntry
<1>5. /\ l \in Nat /\ Len(recorded') = l + 1 /\ recorded'[l + 1] = e
      /\ \A i \in 1 .. l : recorded'[i] = recorded[i]
      /\ \A i \in 1 .. l : FromSampler(i)' <=> FromSampler(i)
      /\ \A id : Recorded(id)' <=> Recorded(id) \/ id = e.id
  BY <1>1, <1>4, RecordedGrows
<1>6. \A i \in 1 .. k : b[i].id \in VmTicks /\ b[i] = TickOf(b[i].id)
  BY <1>1 DEF VmInv
<1>7. 1 \in 1 .. k /\ \A i \in 1 .. l + 1 : i \in 1 .. l \/ i = l + 1
  BY <1>2, <1>5
<1>8. t.id \in VmTicks
  BY <1>2, <1>6, <1>7
<1>9. VmTicks \subseteq 1 .. Len(sampled) /\ \A id \in VmTicks : sampled[id].source = "vm"
  BY DEF VmTicks, TickIds
<1>10. Len(sampled) \in Nat
  BY Types
<1>11. \A i \in 1 .. l + 1 : recorded'[i].id \in 0 .. Len(sampled)
  <2>1. t.id \in 0 .. Len(sampled)
    <3>1. t.id \in 1 .. Len(sampled)
      BY ONLY <1>8, <1>9
    <3> QED
      BY ONLY <1>10, <3>1
  <2>2. \A i \in 1 .. l : recorded[i].id \in 0 .. Len(sampled)
    BY <1>1 DEF VmInv
  <2> QED
    BY <1>4, <1>5, <1>7, <2>1, <2>2
<1>12. \A i, j \in 1 .. k : i < j => b[i].id < b[j].id
  BY <1>1 DEF VmInv
<1>13. \A i \in 1 .. k - 1 : b2[i].id \in VmTicks /\ b2[i] = TickOf(b2[i].id)
  BY <1>2, <1>6
<1>14. \A i, j \in 1 .. k - 1 : i < j => b2[i].id < b2[j].id
  <2>1. \A i, j \in 1 .. k - 1 : i < j => i + 1 < j + 1
    BY <1>2
  <2> QED
    BY <1>2, <1>12, <2>1
<1>15. \A i \in 1 .. l : ~FromSampler(i) => /\ recorded[i].id < t.id /\ \A j \in 1 .. k - 1 : recorded[i].id < b2[j].id
                                            /\ \A j \in 1 .. l : recorded[j].id = recorded[i].id => j = i
  BY <1>1, <1>2, <1>7 DEF VmInv
<1>16. \A i \in 1 .. l : recorded[i].id # t.id
  <2> SUFFICES ASSUME NEW i \in 1 .. l, recorded[i].id = t.id PROVE FALSE
    OBVIOUS
  <2>1. t.id \in 1 .. Len(sampled) /\ sampled[t.id].source = "vm"
    BY <1>8, <1>9
  <2>2. ~FromSampler(i)
    BY <1>10, <2>1 DEF FromSampler
  <2>3. recorded[i].id < t.id
    BY <1>15, <2>2
  <2> QED
    BY <1>10, <2>1, <2>3
<1>17. \A i \in 1 .. l + 1 : ~FromSampler(i)' =>
         /\ \A j \in 1 .. k - 1 : recorded'[i].id < b2[j].id
         /\ \A j \in 1 .. l + 1 : recorded'[j].id = recorded'[i].id => j = i
  <2> SUFFICES ASSUME NEW i \in 1 .. l + 1, ~FromSampler(i)'
               PROVE  /\ \A j \in 1 .. k - 1 : recorded'[i].id < b2[j].id
                      /\ \A j \in 1 .. l + 1 : recorded'[j].id = recorded'[i].id => j = i
    OBVIOUS
  <2>1. CASE i \in 1 .. l
    <3>1. ~FromSampler(i) /\ recorded'[i] = recorded[i] /\ recorded[i].id # t.id
      BY <1>5, <1>16, <2>1
    <3> QED
      BY <1>4, <1>5, <1>7, <1>15, <2>1, <3>1
  <2>2. CASE i = l + 1
    <3>1. recorded'[i].id = t.id
      BY <1>4, <1>5, <2>2
    <3>2. \A j \in 1 .. k - 1 : b[1].id < b[j + 1].id
      BY <1>2, <1>7, <1>12
    <3> QED
      BY <1>2, <1>5, <1>7, <1>16, <2>2, <3>1, <3>2
  <2> QED
    BY <1>7, <2>1, <2>2
<1>18. \A id \in VmTicks : Recorded(id)' \/ \E i \in 1 .. k - 1 : b2[i].id = id
  <2> SUFFICES ASSUME NEW id \in VmTicks, ~Recorded(id), id # t.id PROVE \E i \in 1 .. k - 1 : b2[i].id = id
    BY <1>4, <1>5
  <2>1. PICK i \in 1 .. k : b[i].id = id
    BY <1>1 DEF VmInv
  <2>2. i # 1
    BY <1>2, <2>1
  <2>3. i - 1 \in 1 .. k - 1 /\ (i - 1) + 1 = i
    BY <1>2, <2>1, <2>2
  <2> QED
    BY <1>2, <2>1, <2>3
<1>19. VmTicks' = VmTicks /\ \A id : TickOf(id)' = TickOf(id)
  BY DEF VmTicks, TickIds, TickOf
<1>20. ticks_from_vm_buffer' = b2 /\ Len(b2) = k - 1
  BY <1>1, <1>2
<1>21. VmInv'
  <2>1. \A i \in 1 .. k - 1 : b2[i].id \in VmTicks' /\ b2[i] = TickOf(b2[i].id)'
    BY <1>13, <1>19
  <2>2. \A id \in VmTicks' : Recorded(id)' \/ \E i \in 1 .. k - 1 : b2[i].id = id
    BY <1>18, <1>19
  <2>3. Len(recorded') = l + 1 /\ sampled' = sampled
    BY <1>5
  <2> QED
    BY <1>11, <1>14, <1>17, <1>20, <2>1, <2>2, <2>3 DEF VmInv
<1> QED
  BY <1>1, <1>8, <1>21

\* Recording a tick of the ring.
LEMMA VmRecorded ==
  ASSUME TypeOK, VmInv, NEW t \in Tick, t.id = 0 \/ t.id \in TickIds("sampler"), RecordTickSample(t),
         UNCHANGED <<ticks_from_vm_buffer, sampled>>
  PROVE  VmInv'
<1>1. PICK l, e : l = Len(recorded) /\ e = [order |-> t.order, id |-> t.id, map |-> code_map]
  OBVIOUS
<1>2. recorded \in Seq(Entry) /\ e \in Entry /\ recorded' = Append(recorded, e) /\ e.id = t.id
  BY <1>1, Types, RecordedEntry
<1>3. /\ l \in Nat /\ Len(recorded') = l + 1 /\ recorded'[l + 1] = e
      /\ \A i \in 1 .. l : recorded'[i] = recorded[i]
      /\ \A i \in 1 .. l : FromSampler(i)' <=> FromSampler(i)
      /\ FromSampler(l + 1)' <=> e.id = 0 \/ sampled[e.id].source = "sampler"
      /\ \A id : Recorded(id)' <=> Recorded(id) \/ id = e.id
  BY <1>1, <1>2, RecordedGrows
<1>4. t.id = 0 \/ (t.id \in 1 .. Len(sampled) /\ sampled[t.id].source = "sampler")
  BY DEF TickIds
<1>5. Len(sampled) \in Nat
  BY Types
<1>6. FromSampler(l + 1)' /\ t.id \in 0 .. Len(sampled)
  BY <1>2, <1>3, <1>4, <1>5
<1>7. \A i \in 1 .. l + 1 : i \in 1 .. l \/ i = l + 1
  BY <1>3
<1>8. \A i \in 1 .. l + 1 : recorded'[i].id \in 0 .. Len(sampled)
  BY <1>1, <1>2, <1>3, <1>6, <1>7 DEF VmInv
<1>9. \A i \in 1 .. l : ~FromSampler(i) => recorded[i].id # t.id
  BY <1>4 DEF FromSampler
<1>10. \A i \in 1 .. l : ~FromSampler(i) =>
         /\ \A j \in 1 .. Len(ticks_from_vm_buffer) : recorded[i].id < ticks_from_vm_buffer[j].id
         /\ \A j \in 1 .. l : recorded[j].id = recorded[i].id => j = i
  BY <1>1 DEF VmInv
<1>11. \A i \in 1 .. l + 1 : ~FromSampler(i)' =>
         /\ \A j \in 1 .. Len(ticks_from_vm_buffer) : recorded'[i].id < ticks_from_vm_buffer[j].id
         /\ \A j \in 1 .. l + 1 : recorded'[j].id = recorded'[i].id => j = i
  BY <1>2, <1>3, <1>6, <1>7, <1>9, <1>10
<1>12. VmTicks' = VmTicks /\ \A id : TickOf(id)' = TickOf(id)
  BY DEF VmTicks, TickIds, TickOf
<1> QED
  BY <1>3, <1>8, <1>11, <1>12 DEF VmInv

\* The tick TakeTick finds.
LEMMA RingTick ==
  ASSUME TypeOK, NEW n \in Nat, NEW base \in Nat, NEW m \in Nat, NEW lap \in Nat, NEW S, Ring(n, S, base, m, lap),
         NEW q, q = StartDequeue(ticks_buffer), q.dequeue_pos # NULL, NEW t, t = q.buffer[q.dequeue_pos],
         NEW T, T = Ticks(n, S)
  PROVE  /\ q \in Queue(Tick) /\ ReadTo(q, draining, n, base, m, lap)
         /\ Written(q, n, T, base)
         /\ t \in Tick /\ (t.id = 0 \/ t.id \in TickIds("sampler"))
         /\ m < n => t = TickOf(S[m + 1])
         /\ m >= n /\ n <= Size => t.order = 0
         /\ n > 0 /\ (~draining => m < n /\ producer_consumer_distance < n)
         /\ n <= base + Size
<1>2. /\ ticks_buffer \in Queue(Tick) /\ draining \in BOOLEAN
      /\ Written(ticks_buffer, n, T, base) /\ ReadTo(ticks_buffer, draining, n, base, m, lap)
  BY Types DEF Ring, TypeOK
<1>3. /\ q \in Queue(Tick) /\ ReadTo(q, draining, n, base, m, lap)
      /\ q.buffer = ticks_buffer.buffer /\ q.enqueue_pos = ticks_buffer.enqueue_pos
  BY <1>2, StartRead, StartFields
<1>4. Written(q, n, T, base)
  BY <1>2, <1>3 DEF Written
<1>5. t \in Tick /\ q.dequeue_pos \in Position
  BY <1>3, ExposedType
<1>6. /\ m < n => t = T[m + 1]
      /\ m >= n /\ n <= Size => t = blank
  BY <1>2, <1>3, <1>4, ReadValue
<1>7. n > 0 /\ (~draining => m < n /\ producer_consumer_distance < n)
  BY <1>2, <1>3, ExposedInChunk
<1>8. t = blank \/ \E k \in 1 .. n : t = T[k]
  BY <1>3, <1>4, <1>5, WrittenRange
<1>9. \A k \in 1 .. n : T[k] = TickOf(S[k])
  BY DEF Ticks
<1>10. \A k \in 1 .. n : S[k] \in TickIds("sampler") /\ TickOf(S[k]).id = S[k]
  BY DEF Ring, Taken, TickOf
<1>11. blank.id = 0 /\ blank.order = 0
  BY DEF blank
<1>12. t.id = 0 \/ t.id \in TickIds("sampler")
  BY <1>8, <1>9, <1>10, <1>11
<1>13. m < n => m + 1 \in 1 .. n
  OBVIOUS
<1>14. n <= base + Size
  <2>1. n - base \in 0 .. Size /\ Size \in Nat
    BY <1>3, <1>4, QueueFields, Tiling DEF Written
  <2> QED
    BY ONLY <2>1, n \in Nat, base \in Nat
<1> QED
  BY <1>3, <1>4, <1>5, <1>6, <1>7, <1>9, <1>11, <1>12, <1>13, <1>14

LEMMA VmStep ==
  ASSUME IInv, Next
  PROVE  VmInv'
<1>0. TypeOK /\ VmInv /\ RingInv
  BY DEF IInv
<1>1. CASE UNCHANGED <<sampled, recorded, ticks_from_vm_buffer>>
  <2>1. VmTicks' = VmTicks /\ \A id : TickOf(id)' = TickOf(id)
    BY <1>1 DEF VmTicks, TickIds, TickOf
  <2>2. \A id : (Recorded(id)' <=> Recorded(id)) /\ (FromSampler(id)' <=> FromSampler(id))
    BY <1>1 DEF Recorded, FromSampler
  <2> QED
    BY <1>0, <1>1, <2>1, <2>2 DEF VmInv
<1>2. CASE NumberCodeEvent \/ QueueCodeEvent \/ StartSampler \/ StartProfiling \/ StopProfiling
           \/ StopSampler \/ StopProcessor \/ JoinProcessor
  BY <1>1, <1>2 DEF NumberCodeEvent, QueueCodeEvent, StartSampler, StartProfiling, StopProfiling,
                    StopSampler, StopProcessor, JoinProcessor, processorVars
<1>3. CASE AddCurrentStack
  BY <1>0, <1>3, VmAdds DEF AddCurrentStack, processorVars
<1>4. CASE TickSampleEvent
  BY <1>0, <1>4, VmSampler DEF TickSampleEvent, processorVars
<1>5. CASE CheckRunning \/ NoTick \/ ProcessCodeEvent
  BY <1>1, <1>5 DEF CheckRunning, NoTick, ProcessCodeEvent, vmVars
<1>6. CASE TakeTickFromVm
  <2>1. CASE ticks_from_vm_buffer # <<>> /\ IsDue(Head(ticks_from_vm_buffer))
    BY <1>0, <1>6, <2>1, VmTaken DEF TakeTickFromVm, vmVars
  <2>2. CASE ~(ticks_from_vm_buffer # <<>> /\ IsDue(Head(ticks_from_vm_buffer)))
    BY <1>1, <1>6, <2>2 DEF TakeTickFromVm, vmVars
  <2> QED
    BY <2>1, <2>2
<1>7. CASE TakeTick
  <2>1. PICK q : q = StartDequeue(ticks_buffer)
    OBVIOUS
  <2>2. UNCHANGED <<sampled, ticks_from_vm_buffer>>
    BY <1>7 DEF TakeTick, vmVars
  <2>3. CASE NoneThere(q) \/ LaterThere(q)
    BY <1>1, <2>2, <2>3 DEF NoneThere, LaterThere
  <2>4. CASE DueThere(q)
    <3>ring. PICK n, base, m, lap \in Nat : \E S : Ring(n, S, base, m, lap)
      BY <1>0 DEF RingInv
    <3>1. PICK S : Ring(n, S, base, m, lap)
      BY <3>ring
    <3>2. PICK t : t = q.buffer[q.dequeue_pos]
      OBVIOUS
    <3>3. q.dequeue_pos # NULL /\ RecordTickSample(t)
      BY <2>4, <3>2 DEF DueThere
    <3>4. t \in Tick /\ (t.id = 0 \/ t.id \in TickIds("sampler"))
      <4>1. PICK T : T = Ticks(n, S)
        OBVIOUS
      <4> QED
        BY <1>0, <2>1, <3>1, <3>2, <3>3, <4>1, RingTick
    <3> QED
      BY <1>0, <2>2, <3>3, <3>4, VmRecorded
  <2> QED
    BY <1>7, <2>1, <2>3, <2>4, TakeTickCases
<1> QED
  BY <1>2, <1>3, <1>4, <1>5, <1>6, <1>7 DEF Next, VM, Processor

---------------------------------------------------------------------------
(* The ring between the two threads.                                         *)

LEMMA RingFrom ==
  ASSUME NEW n \in Nat, NEW base \in Nat, NEW m \in Nat, NEW lap \in Nat, NEW S, Ring(n, S, base, m, lap)'
  PROVE  RingInv'
<1>1. S \in [1 .. n -> 1 .. Len(sampled)]'
  BY DEF Ring, Taken
<1> QED
  BY <1>1 DEF RingInv

LEMMA TakenKept ==
  ASSUME sampled' = sampled, NEW n, NEW S
  PROVE  /\ Taken(n, S) => Taken(n, S)'
         /\ Ticks(n, S)' = Ticks(n, S)
         /\ VmTicks' = VmTicks
BY DEF Taken, TickIds, Ticks, TickOf, VmTicks

\* Steps that neither take nor process a tick.
LEMMA RingKept ==
  ASSUME TypeOK, UNCHANGED <<sampled, recorded, ticks_buffer, draining>>,
         dequeue_order' = dequeue_order \/ dequeue_order' > 0,
         pc' = "no tick" => pc = "no tick",
         NEW n \in Nat, NEW base \in Nat, NEW m \in Nat, NEW lap \in Nat, NEW S, Ring(n, S, base, m, lap),
         VmTicks = {} => NotStarted(n, m)'
  PROVE  RingInv'
<1>1. Taken(n, S)' /\ Ticks(n, S)' = Ticks(n, S) /\ VmTicks' = VmTicks
  BY TakenKept DEF Ring
<1>2. \A i : (FromSampler(i)' <=> FromSampler(i)) /\ FromRing(i)' = FromRing(i) /\ (Recorded(i)' <=> Recorded(i))
  BY DEF FromSampler, FromRing, Recorded
<1>3. RecordedTo(n, S, m)'
  BY <1>2 DEF Ring, RecordedTo
<1>4. Written(ticks_buffer, n, Ticks(n, S), base)'
  BY <1>1 DEF Ring
<1>5. ReadTo(ticks_buffer, draining, n, base, m, lap)'
  BY DEF Ring
<1>6. (pc = "no tick" /\ draining => n <= m)'
  BY DEF Ring
<1>7. (VmTicks = {} => NotStarted(n, m))'
  BY <1>1
<1>8. Ring(n, S, base, m, lap)'
  BY <1>1, <1>3, <1>4, <1>5, <1>6, <1>7 DEF Ring
<1> QED
  BY <1>8, RingFrom

\* RecordedTo when what was recorded does not change.
LEMMA RecordedToKept ==
  ASSUME TypeOK, VmInv, NEW src \in {"sampler", "vm"}, recorded' = recorded, dequeue_order' = dequeue_order,
         sampled' = Append(sampled, [source |-> src, order |-> enqueue_order]),
         NEW n \in Nat, NEW m \in Nat, NEW S, RecordedTo(n, S, m)
  PROVE  RecordedTo(n, S, m)'
<1>1. PICK l : l = Len(recorded)
  OBVIOUS
<1>2. l \in Nat
  BY <1>1, Types
<1>3. /\ \A i \in 1 .. l : (FromSampler(i)' <=> FromSampler(i)) /\ FromRing(i)' = FromRing(i)
      /\ FromRing(l)' = FromRing(l) /\ \A id : Recorded(id)' <=> Recorded(id)
  BY <1>1, <1>2, RecordedKept
<1>4. /\ Cardinality(FromRing(l)) = m
      /\ \A i \in 1 .. l : FromSampler(i) /\ Cardinality(FromRing(i)) <= n => recorded[i].id = S[Cardinality(FromRing(i))]
      /\ \A k \in 1 .. n : k <= m => Recorded(S[k])
      /\ n <= Size => m <= n
      /\ m > 0 => dequeue_order > 0
  BY <1>1 DEF RecordedTo
<1>5. /\ Cardinality(FromRing(l)') = m
      /\ \A i \in 1 .. l : FromSampler(i)' /\ Cardinality(FromRing(i)') <= n => recorded[i].id = S[Cardinality(FromRing(i)')]
      /\ \A k \in 1 .. n : k <= m => Recorded(S[k])'
  BY <1>3, <1>4
<1>6. Len(recorded') = l /\ l = Len(recorded)
  BY <1>1
<1> QED
  BY <1>4, <1>5, <1>6 DEF RecordedTo

LEMMA RingAddStack ==
  ASSUME IInv, AddCurrentStack
  PROVE  RingInv'
<1>0. TypeOK /\ VmInv /\ RingInv
  BY DEF IInv
<1>ring. PICK n, base, m, lap \in Nat : \E S : Ring(n, S, base, m, lap)
  BY <1>0 DEF RingInv
<1>1. PICK S : Ring(n, S, base, m, lap)
  BY <1>ring
<1>2. PICK l : l = Len(sampled)
  OBVIOUS
<1>3. /\ sampled' = Append(sampled, [source |-> "vm", order |-> enqueue_order])
      /\ UNCHANGED <<recorded, ticks_buffer, draining, dequeue_order, pc>>
  BY DEF AddCurrentStack, processorVars
<1>4. /\ Len(sampled') = l + 1 /\ l \in Nat
      /\ TickIds("sampler")' = TickIds("sampler") /\ VmTicks' = VmTicks \cup {l + 1}
      /\ \A id \in 1 .. l : TickOf(id)' = TickOf(id)
  BY <1>0, <1>2, <1>3, Types, SampledGrows DEF VmTicks
<1>5. /\ S \in [1 .. n -> 1 .. l] /\ \A j, k \in 1 .. n : j < k => S[j] < S[k]
      /\ TickIds("sampler") = {S[k] : k \in 1 .. n}
  BY <1>1, <1>2 DEF Ring, Taken
<1>6. S \in [1 .. n -> 1 .. l + 1]
  BY <1>4, <1>5
<1>7. Taken(n, S)'
  BY <1>4, <1>5, <1>6 DEF Taken
<1>8. Ticks(n, S)' = Ticks(n, S)
  BY <1>4, <1>5 DEF Ticks
<1>9. RecordedTo(n, S, m)'
  BY <1>0, <1>1, <1>3, RecordedToKept DEF Ring
<1>10. Written(ticks_buffer, n, Ticks(n, S), base)'
  BY <1>1, <1>3, <1>8 DEF Ring
<1>11. ReadTo(ticks_buffer, draining, n, base, m, lap)' /\ (pc = "no tick" /\ draining => n <= m)'
  BY <1>1, <1>3 DEF Ring
<1>12. (VmTicks = {} => NotStarted(n, m))'
  BY <1>4
<1>13. Ring(n, S, base, m, lap)'
  BY <1>7, <1>9, <1>10, <1>11, <1>12 DEF Ring
<1> QED
  BY <1>13, RingFrom

LEMMA RingSample ==
  ASSUME IInv, TickSampleEvent
  PROVE  RingInv'
<1>0. TypeOK /\ VmInv /\ RingInv /\ ControlInv /\ SampledInv
  BY DEF IInv
<1>ring. PICK n, base, m, lap \in Nat : \E S : Ring(n, S, base, m, lap)
  BY <1>0 DEF RingInv
<1>1. PICK S : Ring(n, S, base, m, lap)
  BY <1>ring
<1>2. PICK l, T, q, p : /\ l = Len(sampled) /\ T = Ticks(n, S) /\ q = ticks_buffer
                        /\ p = WrapPositionIfNeeded(q.enqueue_pos)
  OBVIOUS
<1>3. /\ sampled' = Append(sampled, [source |-> "sampler", order |-> enqueue_order])
      /\ UNCHANGED <<recorded, draining, dequeue_order, pc, phase, profiles, running, enqueue_order>>
      /\ ticks_buffer' = Enqueue(q, NewTick) /\ sampling /\ AddsStackInTime
      /\ (p % ChunkRecords = 0 => p \in q.clear)
  BY <1>2 DEF TickSampleEvent, processorVars, KeepsUp
<1>4. /\ sampled \in Seq(Sample) /\ q \in Queue(Tick) /\ NewTick \in Tick /\ NewTick.order = enqueue_order
      /\ NewTick = [order |-> enqueue_order, id |-> l + 1]
  BY <1>0, <1>2, Types, NewTickType DEF NewTick
<1>5. /\ Len(sampled') = l + 1 /\ l \in Nat /\ sampled'[l + 1].order = enqueue_order
      /\ TickIds("sampler")' = TickIds("sampler") \cup {l + 1} /\ VmTicks' = VmTicks
      /\ \A id \in 1 .. l : TickOf(id)' = TickOf(id) /\ sampled'[id] = sampled[id]
      /\ TickOf(l + 1)' = NewTick
  <2>1. PICK e : e = enqueue_order
    OBVIOUS
  <2>2. e \in 0 .. MaxEvents /\ l = Len(sampled) /\ sampled' = Append(sampled, [source |-> "sampler", order |-> e])
    BY <1>0, <1>2, <1>3, <2>1, Types
  <2>3. /\ Len(sampled') = l + 1 /\ l \in Nat /\ sampled'[l + 1].order = e
        /\ TickIds("sampler")' = TickIds("sampler") \cup {l + 1}
        /\ \A other : other # "sampler" => TickIds(other)' = TickIds(other)
        /\ \A id \in 1 .. l : TickOf(id)' = TickOf(id)
        /\ \A id \in 1 .. l : sampled'[id] = sampled[id]
        /\ TickOf(l + 1)' = [order |-> e, id |-> l + 1]
    BY <1>4, <2>2, SampledGrows
  <2>4. VmTicks' = VmTicks
    BY <2>3 DEF VmTicks
  <2> QED
    BY <1>4, <2>1, <2>3, <2>4
<1>6. /\ S \in [1 .. n -> 1 .. l] /\ \A j, k \in 1 .. n : j < k => S[j] < S[k]
      /\ TickIds("sampler") = {S[k] : k \in 1 .. n}
  BY <1>1, <1>2 DEF Ring, Taken
<1>7. PICK n2 \in Nat : n2 = n + 1
  OBVIOUS
<1>8. PICK S2 : S2 = [k \in 1 .. n2 |-> IF k = n2 THEN l + 1 ELSE S[k]]
  OBVIOUS
<1>9. /\ S2 \in [1 .. n2 -> 1 .. l + 1] /\ n2 \in 1 .. n2 /\ S2[n2] = l + 1
      /\ \A k \in 1 .. n2 : k \in 1 .. n \/ k = n2
      /\ \A k \in 1 .. n : k \in 1 .. n2 /\ k # n2 /\ k < n2
  <2>1. \A k \in 1 .. n2 : k \in 1 .. n \/ k = n2
    BY <1>7
  <2>2. \A k \in 1 .. n : k \in 1 .. n2 /\ k # n2 /\ k < n2
    BY <1>7
  <2>3. 1 .. l \subseteq 1 .. l + 1 /\ l + 1 \in 1 .. l + 1
    BY <1>5
  <2> QED
    BY <1>6, <1>7, <1>8, <2>1, <2>2, <2>3
<1>10. \A k \in 1 .. n : S2[k] = S[k]
  BY <1>8, <1>9
<1>11. Taken(n2, S2)'
  <2>1. \A j, k \in 1 .. n2 : j < k => S2[j] < S2[k]
    <3> SUFFICES ASSUME NEW j \in 1 .. n2, NEW k \in 1 .. n2, j < k PROVE S2[j] < S2[k]
      OBVIOUS
    <3>1. j \in 1 .. n
      BY <1>7
    <3>2. CASE k = n2
      <4>1. S2[j] \in 1 .. l /\ S2[k] = l + 1
        BY <1>6, <1>9, <1>10, <3>1, <3>2
      <4> QED
        BY <1>5, <4>1
    <3>3. CASE k \in 1 .. n
      BY <1>6, <1>10, <3>1, <3>3
    <3> QED
      BY <1>9, <3>2, <3>3
  <2>2. TickIds("sampler")' = {S2[k] : k \in 1 .. n2}
    BY <1>5, <1>6, <1>9, <1>10
  <2> QED
    BY <1>5, <1>9, <2>1, <2>2 DEF Taken
<1>12. PICK U : U = [k \in 1 .. n2 |-> TickOf(S2[k])']
  OBVIOUS
<1>13. U[n2] = NewTick /\ \A k \in 1 .. n : U[k] = T[k]
  <2>1. U[n2] = NewTick
    BY <1>5, <1>9, <1>12
  <2>2. \A k \in 1 .. n : TickOf(S2[k])' = TickOf(S[k])
    BY <1>5, <1>6, <1>10
  <2> QED
    BY <1>2, <1>9, <1>12, <2>1, <2>2 DEF Ticks
<1>14. phase \in {"adding stack", "profiling"} /\ running /\ ~draining /\ pc # "done"
  BY <1>0, <1>3 DEF ControlInv
<1>15. draining = FALSE
  BY <1>0, <1>14 DEF TypeOK
<1>16. Written(q, n, T, base) /\ ReadTo(q, FALSE, n, base, m, lap)
  BY <1>1, <1>2, <1>15 DEF Ring
<1>17. q.enqueue_pos = n - base
  BY <1>16 DEF Written
<1>18. PICK base2 : base2 = IF q.enqueue_pos = Size THEN base + Size ELSE base
  OBVIOUS
<1>19. base2 \in Nat
  BY <1>18, Tiling
<1>20. Written(ticks_buffer', n2, U, base2)
  <2>1. Written(Enqueue(q, NewTick), n2, U, IF q.enqueue_pos = Size THEN base + Size ELSE base)
    BY ONLY <1>4, <1>7, <1>13, <1>16, EnqueueWritten, n \in Nat, base \in Nat
  <2> QED
    BY <1>3, <1>18, <2>1
<1>21. ReadTo(ticks_buffer', FALSE, n2, base2, m, lap)
  <2>1. LET p2 == WrapPositionIfNeeded(q.enqueue_pos) IN p2 % ChunkRecords = 0 => p2 \in q.clear
    BY <1>2, <1>3
  <2>2. ReadTo(Enqueue(q, NewTick), FALSE, n + 1, base2, m, lap)
    BY <1>4, <1>16, <1>17, <1>18, <2>1, EnqueueRead
  <2> QED
    BY <1>3, <1>7, <2>2
<1>22. m <= n
  <2>1. PICK c, R, D : c = q.dequeue_chunk_pos /\ R = ChunkRecords /\ D = producer_consumer_distance
    OBVIOUS
  <2>2. \/ m = lap + c /\ lap + c <= n
        \/ m < lap + c + R /\ lap + c + D < n
    BY <1>16, <2>1 DEF ReadTo, ReadInChunk
  <2>3. c \in Nat /\ R \in Nat /\ D = R + R
    BY <1>16, <2>1, Tiling DEF ReadTo
  <2> QED
    BY ONLY <2>2, <2>3, n \in Nat, m \in Nat, lap \in Nat
<1>23. RecordedTo(n2, S2, m)'
  <2>1. RecordedTo(n, S, m)'
    BY <1>0, <1>1, <1>3, RecordedToKept DEF Ring
  <2>2. PICK r : r = Len(recorded)
    OBVIOUS
  <2>3. r \in Nat /\ Len(recorded') = r
    BY <1>0, <1>3, <2>2, Types
  <2>4. /\ Cardinality(FromRing(r)') = m
        /\ \A i \in 1 .. r : FromSampler(i)' /\ Cardinality(FromRing(i)') <= n =>
             recorded'[i].id = S[Cardinality(FromRing(i)')]
        /\ \A k \in 1 .. n : k <= m => Recorded(S[k])'
        /\ m > 0 => dequeue_order' > 0
    BY <2>1, <2>3 DEF RecordedTo
  <2>5. \A i \in 1 .. r : FromSampler(i)' => Cardinality(FromRing(i)') \in 1 .. n
    <3>1. /\ \A i \in 1 .. r : FromSampler(i) => Cardinality(FromRing(i)) > 0
          /\ \A i \in 0 .. r : Cardinality(FromRing(i)) \in Nat /\ Cardinality(FromRing(i)) <= Cardinality(FromRing(r))
      BY <2>3, RingCounted
    <3>2. /\ \A i \in 1 .. r : FromSampler(i)' <=> FromSampler(i)
          /\ \A i \in 0 .. r : FromRing(i)' = FromRing(i)
      BY <1>0, <1>3, <2>2, RecordedKept
    <3>3. r \in 0 .. r /\ \A i \in 1 .. r : i \in 0 .. r
      BY <2>3
    <3>4. Cardinality(FromRing(r)) <= n
      BY <1>22, <2>4, <3>2, <3>3
    <3>5. \A x, y \in Nat : x > 0 /\ x <= y /\ y <= n => x \in 1 .. n
      OBVIOUS
    <3> QED
      BY <3>1, <3>2, <3>3, <3>4, <3>5
  <2>6. \A i \in 1 .. r : FromSampler(i)' /\ Cardinality(FromRing(i)') <= n2 =>
          recorded'[i].id = S2[Cardinality(FromRing(i)')]
    <3>1. \A x \in 1 .. n : x <= n
      OBVIOUS
    <3> QED
      BY <1>10, <2>4, <2>5, <3>1
  <2>7. \A k \in 1 .. n2 : k <= m => Recorded(S2[k])'
    <3>1. \A k \in 1 .. n2 : k <= m => k \in 1 .. n
      BY <1>22
    <3> QED
      BY <1>10, <2>4, <3>1
  <2>8. n2 <= Size => m <= n2
    BY <1>7, <1>22
  <2> QED
    BY <2>3, <2>4, <2>6, <2>7, <2>8 DEF RecordedTo
<1>24. (VmTicks = {} => NotStarted(n2, m))'
  <2> SUFFICES ASSUME VmTicks = {} PROVE NotStarted(n2, m)'
    BY <1>5
  <2>1. NotStarted(n, m)
    BY <1>1 DEF Ring
  <2>2. Cardinality(TickIds("sampler")) < producer_consumer_distance
    BY <1>3, <1>14, <2>1 DEF AddsStackInTime, NotStarted
  <2>3. Cardinality(TickIds("sampler")) = n
    BY <1>1, <1>4, TakenCounted DEF Ring
  <2>4. n2 <= producer_consumer_distance
    BY <1>7, <2>2, <2>3, Tiling
  <2>5. \A i \in 1 .. l + 1 : sampled'[i].order = enqueue_order
    <3>1. \A i \in 1 .. l + 1 : i \in 1 .. l \/ i = l + 1
      BY <1>5
    <3> QED
      BY <1>2, <1>5, <2>1, <3>1 DEF NotStarted
  <2>6. ticks_buffer'.dequeue_pos = NULL
    BY <1>2, <1>3, <1>4, <2>1, EnqueueFields DEF NotStarted
  <2> QED
    BY <1>3, <1>5, <2>1, <2>4, <2>5, <2>6 DEF NotStarted
<1>25. Ticks(n2, S2)' = U
  BY <1>12 DEF Ticks
<1>26. Ring(n2, S2, base2, m, lap)'
  <2>1. Written(ticks_buffer, n2, Ticks(n2, S2), base2)'
    BY <1>20, <1>25
  <2>2. ReadTo(ticks_buffer, draining, n2, base2, m, lap)'
    BY <1>3, <1>15, <1>21
  <2>3. (pc = "no tick" /\ draining => n2 <= m)'
    BY <1>3, <1>15
  <2> QED
    BY <1>11, <1>23, <1>24, <2>1, <2>2, <2>3 DEF Ring
<1> QED
  BY <1>19, <1>26, RingFrom

LEMMA RingCheckRunning ==
  ASSUME IInv, CheckRunning
  PROVE  RingInv'
<1>0. TypeOK /\ ControlInv /\ RingInv
  BY DEF IInv
<1>ring. PICK n, base, m, lap \in Nat : \E S : Ring(n, S, base, m, lap)
  BY <1>0 DEF RingInv
<1>1. PICK S : Ring(n, S, base, m, lap)
  BY <1>ring
<1>2. /\ UNCHANGED <<sampled, recorded, dequeue_order, phase, profiles, running, enqueue_order>>
      /\ pc = "loop" /\ pc' = "vm ticks" /\ draining' = ~running
      /\ ticks_buffer' = IF running THEN ticks_buffer ELSE FlushResidualRecords(ticks_buffer)
  BY DEF CheckRunning, vmVars
<1>3. draining = FALSE /\ running \in BOOLEAN
  BY <1>0, <1>2 DEF ControlInv, TypeOK
<1>4. CASE running
  <2>1. draining' = draining /\ ticks_buffer' = ticks_buffer
    BY <1>2, <1>3, <1>4
  <2>2. VmTicks = {} => NotStarted(n, m)'
    BY <1>1, <1>2, <2>1 DEF Ring, NotStarted
  <2> QED
    BY <1>0, <1>1, <1>2, <2>1, <2>2, RingKept
<1>5. CASE ~running
  <2>1. PICK q, T : q = ticks_buffer /\ T = Ticks(n, S)
    OBVIOUS
  <2>2. q \in Queue(Tick) /\ ReadTo(q, FALSE, n, base, m, lap) /\ Written(q, n, T, base)
    BY <1>0, <1>1, <1>3, <2>1, Types DEF Ring
  <2>3. draining' = TRUE /\ ticks_buffer' = FlushResidualRecords(q)
    BY <1>2, <1>3, <1>5, <2>1
  <2>4. ReadTo(ticks_buffer', TRUE, n, base, m, lap)
    BY <2>2, <2>3, FlushRead
  <2>5. Written(ticks_buffer', n, T, base)
    BY <2>2, <2>3, FlushFields DEF Written
  <2>6. /\ Taken(n, S)' /\ Ticks(n, S)' = T /\ VmTicks' = VmTicks
    BY <1>1, <1>2, <2>1, TakenKept DEF Ring
  <2>7. \A i : (FromSampler(i)' <=> FromSampler(i)) /\ FromRing(i)' = FromRing(i) /\ (Recorded(i)' <=> Recorded(i))
    BY <1>2 DEF FromSampler, FromRing, Recorded
  <2>8. RecordedTo(n, S, m)'
    BY <1>1, <1>2, <2>7 DEF Ring, RecordedTo
  <2>9. VmTicks # {}
    BY <1>1, <1>5 DEF Ring, NotStarted
  <2>10. Written(ticks_buffer, n, Ticks(n, S), base)'
    BY <2>5, <2>6
  <2>11. ReadTo(ticks_buffer, draining, n, base, m, lap)'
    BY <2>3, <2>4
  <2>12. Ring(n, S, base, m, lap)'
    BY <1>2, <2>6, <2>8, <2>9, <2>10, <2>11 DEF Ring
  <2> QED
    BY <2>12, RingFrom
<1> QED
  BY <1>3, <1>4, <1>5

\* A tick of the VM is recorded.
LEMMA RecordedToVm ==
  ASSUME TypeOK, NEW t \in Tick, t.id \in VmTicks, RecordTickSample(t), UNCHANGED <<sampled, dequeue_order>>,
         NEW n \in Nat, NEW m \in Nat, NEW S, RecordedTo(n, S, m)
  PROVE  RecordedTo(n, S, m)'
<1>1. PICK l, e : l = Len(recorded) /\ e = [order |-> t.order, id |-> t.id, map |-> code_map]
  OBVIOUS
<1>2. recorded \in Seq(Entry) /\ e \in Entry /\ recorded' = Append(recorded, e) /\ e.id = t.id
  BY <1>1, Types, RecordedEntry
<1>3. /\ l \in Nat /\ Len(recorded') = l + 1
      /\ \A i \in 1 .. l : recorded'[i] = recorded[i]
      /\ \A i \in 1 .. l : FromSampler(i)' <=> FromSampler(i)
      /\ FromSampler(l + 1)' <=> e.id = 0 \/ sampled[e.id].source = "sampler"
      /\ \A i \in 0 .. l : FromRing(i)' = FromRing(i)
      /\ FromRing(l + 1)' = IF FromSampler(l + 1)' THEN FromRing(l) \cup {l + 1} ELSE FromRing(l)
      /\ \A id : Recorded(id)' <=> Recorded(id) \/ id = e.id
  BY <1>1, <1>2, RecordedGrows
<1>4. t.id \in 1 .. Len(sampled) /\ sampled[t.id].source = "vm" /\ Len(sampled) \in Nat
  BY Types DEF VmTicks, TickIds
<1>5. t.id # 0
  BY ONLY <1>4
<1>6. ~FromSampler(l + 1)' /\ FromRing(l + 1)' = FromRing(l)
  BY <1>2, <1>3, <1>4, <1>5
<1>7. /\ Cardinality(FromRing(l)) = m
      /\ \A i \in 1 .. l : FromSampler(i) /\ Cardinality(FromRing(i)) <= n => recorded[i].id = S[Cardinality(FromRing(i))]
      /\ \A k \in 1 .. n : k <= m => Recorded(S[k])
      /\ n <= Size => m <= n
      /\ m > 0 => dequeue_order > 0
  BY <1>1 DEF RecordedTo
<1>8. /\ \A i \in 1 .. l + 1 : i \in 1 .. l \/ i = l + 1
      /\ \A i \in 1 .. l : i \in 0 .. l
  BY <1>3
<1>9. \A i \in 1 .. l + 1 : FromSampler(i)' /\ Cardinality(FromRing(i)') <= n =>
        recorded'[i].id = S[Cardinality(FromRing(i)')]
  BY <1>3, <1>6, <1>7, <1>8
<1>10. \A k \in 1 .. n : k <= m => Recorded(S[k])'
  BY <1>3, <1>7
<1>11. Cardinality(FromRing(l + 1)') = m
  BY <1>6, <1>7
<1> QED
  BY <1>3, <1>7, <1>9, <1>10, <1>11 DEF RecordedTo

LEMMA RingTakeVm ==
  ASSUME IInv, TakeTickFromVm
  PROVE  RingInv'
<1>0. TypeOK /\ VmInv /\ RingInv
  BY DEF IInv
<1>ring. PICK n, base, m, lap \in Nat : \E S : Ring(n, S, base, m, lap)
  BY <1>0 DEF RingInv
<1>1. PICK S : Ring(n, S, base, m, lap)
  BY <1>ring
<1>2. /\ UNCHANGED <<sampled, ticks_buffer, draining, dequeue_order, phase, profiles, running, enqueue_order>>
      /\ pc' = "ticks"
  BY DEF TakeTickFromVm, vmVars
<1>3. CASE ticks_from_vm_buffer # <<>> /\ IsDue(Head(ticks_from_vm_buffer))
  <2>1. PICK t : t = Head(ticks_from_vm_buffer)
    OBVIOUS
  <2>2. t \in Tick /\ RecordTickSample(t) /\ ticks_from_vm_buffer' = Tail(ticks_from_vm_buffer)
    <3>1. t \in Tick
      BY <1>0, <1>3, <2>1, Types
    <3>2. RecordTickSample(t) /\ ticks_from_vm_buffer' = Tail(ticks_from_vm_buffer)
      BY <1>3, <2>1 DEF TakeTickFromVm
    <3> QED
      BY <3>1, <3>2
  <2>3. t.id \in VmTicks
    BY <1>0, <1>2, <1>3, <2>1, <2>2, VmTaken
  <2>4. RecordedTo(n, S, m)'
    BY <1>0, <1>1, <1>2, <2>2, <2>3, RecordedToVm DEF Ring
  <2>5. /\ Taken(n, S)' /\ Ticks(n, S)' = Ticks(n, S) /\ VmTicks' = VmTicks
    BY <1>1, <1>2, TakenKept DEF Ring
  <2>6. Written(ticks_buffer, n, Ticks(n, S), base)'
    BY <1>1, <1>2, <2>5 DEF Ring
  <2>7. ReadTo(ticks_buffer, draining, n, base, m, lap)'
    BY <1>1, <1>2 DEF Ring
  <2>8. Ring(n, S, base, m, lap)'
    BY <1>2, <2>3, <2>4, <2>5, <2>6, <2>7 DEF Ring
  <2> QED
    BY <2>8, RingFrom
<1>4. CASE ~(ticks_from_vm_buffer # <<>> /\ IsDue(Head(ticks_from_vm_buffer)))
  <2>1. recorded' = recorded
    BY <1>4 DEF TakeTickFromVm
  <2>2. VmTicks = {} => NotStarted(n, m)'
    BY <1>1, <1>2, <2>1 DEF Ring, NotStarted
  <2> QED
    BY <1>0, <1>1, <1>2, <2>1, <2>2, RingKept
<1> QED
  BY <1>3, <1>4

\* The ring's next record is recorded.
LEMMA RecordedToNext ==
  ASSUME TypeOK, NEW t \in Tick, t.id = 0 \/ t.id \in TickIds("sampler"), RecordTickSample(t),
         UNCHANGED <<sampled, dequeue_order>>, dequeue_order > 0,
         NEW n \in Nat, NEW m \in Nat, NEW S, RecordedTo(n, S, m),
         m < n => t.id = S[m + 1], n <= Size => m < n
  PROVE  RecordedTo(n, S, m + 1)'
<1>1. PICK l, e : l = Len(recorded) /\ e = [order |-> t.order, id |-> t.id, map |-> code_map]
  OBVIOUS
<1>2. recorded \in Seq(Entry) /\ e \in Entry /\ recorded' = Append(recorded, e) /\ e.id = t.id
  BY <1>1, Types, RecordedEntry
<1>3. /\ l \in Nat /\ Len(recorded') = l + 1 /\ recorded'[l + 1] = e
      /\ \A i \in 1 .. l : recorded'[i] = recorded[i]
      /\ \A i \in 1 .. l : FromSampler(i)' <=> FromSampler(i)
      /\ FromSampler(l + 1)' <=> e.id = 0 \/ sampled[e.id].source = "sampler"
      /\ \A i \in 0 .. l : FromRing(i)' = FromRing(i)
      /\ FromRing(l + 1)' = IF FromSampler(l + 1)' THEN FromRing(l) \cup {l + 1} ELSE FromRing(l)
      /\ \A id : Recorded(id)' <=> Recorded(id) \/ id = e.id
  BY <1>1, <1>2, RecordedGrows
<1>4. FromRing(l + 1)' = FromRing(l) \cup {l + 1}
  BY <1>2, <1>3 DEF TickIds
<1>5. /\ Cardinality(FromRing(l)) = m
      /\ \A i \in 1 .. l : FromSampler(i) /\ Cardinality(FromRing(i)) <= n => recorded[i].id = S[Cardinality(FromRing(i))]
      /\ \A k \in 1 .. n : k <= m => Recorded(S[k])
  BY <1>1 DEF RecordedTo
<1>6. Cardinality(FromRing(l + 1)') = m + 1
  <2>1. IsFiniteSet(FromRing(l)) /\ l + 1 \notin FromRing(l)
    BY <1>3, RingCounted DEF FromRing
  <2> QED
    BY <1>4, <1>5, <2>1, FS_AddElement
<1>7. /\ \A i \in 1 .. l + 1 : i \in 1 .. l \/ i = l + 1
      /\ \A i \in 1 .. l : i \in 0 .. l
  BY <1>3
<1>8. m + 1 <= n => e.id = S[m + 1]
  BY <1>2
<1>9. \A i \in 1 .. l + 1 : FromSampler(i)' /\ Cardinality(FromRing(i)') <= n =>
        recorded'[i].id = S[Cardinality(FromRing(i)')]
  <2> SUFFICES ASSUME NEW i \in 1 .. l + 1, FromSampler(i)', Cardinality(FromRing(i)') <= n
               PROVE  recorded'[i].id = S[Cardinality(FromRing(i)')]
    OBVIOUS
  <2>1. CASE i \in 1 .. l
    <3>1. FromSampler(i) /\ FromRing(i)' = FromRing(i) /\ recorded'[i] = recorded[i]
      BY <1>3, <1>7, <2>1
    <3> QED
      BY <1>5, <2>1, <3>1
  <2>2. CASE i = l + 1
    BY <1>3, <1>6, <1>8, <2>2
  <2> QED
    BY <1>7, <2>1, <2>2
<1>10. \A k \in 1 .. n : k <= m + 1 => Recorded(S[k])'
  <2> SUFFICES ASSUME NEW k \in 1 .. n, k <= m + 1 PROVE Recorded(S[k])'
    OBVIOUS
  <2>1. CASE k <= m
    BY <1>3, <1>5, <2>1
  <2>2. CASE k = m + 1
    <3>1. m + 1 <= n
      BY <2>2
    <3> QED
      BY <1>3, <1>8, <2>2, <3>1
  <2> QED
    BY <2>1, <2>2
<1>11. n <= Size => m + 1 <= n
  OBVIOUS
<1> QED
  BY <1>3, <1>6, <1>9, <1>10, <1>11 DEF RecordedTo

LEMMA RingTake ==
  ASSUME IInv, TakeTick
  PROVE  RingInv'
<1>0. TypeOK /\ ControlInv /\ SampledInv /\ VmInv /\ RingInv
  BY DEF IInv
<1>ring. PICK n, base, m, lap \in Nat : \E S : Ring(n, S, base, m, lap)
  BY <1>0 DEF RingInv
<1>1. PICK S : Ring(n, S, base, m, lap)
  BY <1>ring
<1>2. PICK q, T : q = StartDequeue(ticks_buffer) /\ T = Ticks(n, S)
  OBVIOUS
<1>3. /\ UNCHANGED <<sampled, draining, dequeue_order, phase, profiles, running, enqueue_order>>
      /\ pc = "ticks"
  BY DEF TakeTick, vmVars
<1>4. /\ Taken(n, S)' /\ Ticks(n, S)' = T /\ VmTicks' = VmTicks
  BY <1>1, <1>2, <1>3, TakenKept DEF Ring
<1>5. /\ ticks_buffer \in Queue(Tick) /\ draining \in BOOLEAN /\ dequeue_order \in Nat
      /\ ReadTo(ticks_buffer, draining, n, base, m, lap)
  <2>1. ReadTo(ticks_buffer, draining, n, base, m, lap)
    BY <1>1 DEF Ring
  <2>2. ticks_buffer \in Queue(Tick) /\ draining \in BOOLEAN
    BY <1>0 DEF TypeOK
  <2>3. dequeue_order \in Nat
    BY <1>0, Types
  <2> QED
    BY <2>1, <2>2, <2>3
<1>6. q \in Queue(Tick) /\ ReadTo(q, draining, n, base, m, lap)
  BY <1>2, <1>5, StartRead, StartFields
<1>7. q.dequeue_pos # NULL => VmTicks # {}
  <2> SUFFICES ASSUME q.dequeue_pos # NULL, VmTicks = {} PROVE FALSE
    OBVIOUS
  <2>1. NotStarted(n, m)
    BY <1>1 DEF Ring
  <2>2. ~draining /\ n <= producer_consumer_distance
    BY <1>0, <2>1 DEF NotStarted, ControlInv
  <2>3. producer_consumer_distance < n
    BY <1>6, <2>2, ExposedInChunk, <1>5
  <2> QED
    BY <2>2, <2>3, Tiling
<1>8. CASE NoneThere(q)
  <2>1. /\ UNCHANGED <<ticks_buffer, recorded>> /\ pc' = "no tick" /\ q.dequeue_pos = NULL
    BY <1>8 DEF NoneThere
  <2>2. draining => n <= m
    <3> SUFFICES ASSUME draining PROVE n <= m
      OBVIOUS
    <3>1. PICK c : c = ticks_buffer.dequeue_chunk_pos
      OBVIOUS
    <3>2. ticks_buffer.dequeue_chunk_poll_pos = c /\ c \in ChunkStart
      BY <1>5, <3>1 DEF ReadTo
    <3>3. ticks_buffer.dequeue_pos = NULL /\ c \in ticks_buffer.clear
      <4>1. c # NULL
        BY <3>2, Tiling
      <4> QED
        BY <1>2, <1>5, <2>1, <3>1, <3>2, <4>1, StartFields
    <3>4. n <= IF c >= c THEN lap + c ELSE lap + Size + c
      BY <1>5, <3>1, <3>2, <3>3 DEF ReadTo, IsClear
    <3>5. m = lap + c
      BY <1>5, <3>1, <3>3 DEF ReadTo, ReadInChunk
    <3>6. c \in Nat
      BY <3>2, Tiling
    <3> QED
      BY ONLY <3>4, <3>5, <3>6
  <2>3. RecordedTo(n, S, m)'
    <3>1. \A i : (FromSampler(i)' <=> FromSampler(i)) /\ FromRing(i)' = FromRing(i) /\ (Recorded(i)' <=> Recorded(i))
      BY <1>3, <2>1 DEF FromSampler, FromRing, Recorded
    <3> QED
      BY <1>1, <1>3, <2>1, <3>1 DEF Ring, RecordedTo
  <2>4. Written(ticks_buffer, n, Ticks(n, S), base)'
    BY <1>1, <1>2, <1>4, <2>1 DEF Ring
  <2>5. ReadTo(ticks_buffer, draining, n, base, m, lap)'
    BY <1>3, <1>5, <2>1
  <2>6. (VmTicks = {} => NotStarted(n, m))'
    BY <1>1, <1>3, <1>4, <2>1 DEF Ring, NotStarted
  <2>7. (pc = "no tick" /\ draining => n <= m)'
    BY <1>3, <2>2
  <2>8. Ring(n, S, base, m, lap)'
    BY <1>4, <2>3, <2>4, <2>5, <2>6, <2>7 DEF Ring
  <2> QED
    BY <2>8, RingFrom
<1>9. CASE DueThere(q)
  <2>1. PICK t : t = q.buffer[q.dequeue_pos]
    OBVIOUS
  <2>2. /\ q.dequeue_pos # NULL /\ IsDue(t) /\ RecordTickSample(t) /\ ticks_buffer' = FinishDequeue(q)
        /\ pc' = "vm ticks"
    BY <1>9, <2>1 DEF DueThere
  <2>3. /\ Written(q, n, T, base) /\ t \in Tick /\ (t.id = 0 \/ t.id \in TickIds("sampler"))
        /\ m < n => t = TickOf(S[m + 1])
        /\ m >= n /\ n <= Size => t.order = 0
        /\ n > 0 /\ n <= base + Size
    <3>1. TypeOK /\ q.dequeue_pos # NULL
      BY <1>0, <2>2
    <3> QED
      BY ONLY <1>1, <1>2, <2>1, <3>1, RingTick, n \in Nat, base \in Nat, m \in Nat, lap \in Nat
  <2>4. m > 0 => dequeue_order > 0
    BY <1>1 DEF Ring, RecordedTo
  <2>5. dequeue_order > 0
    <3>1. CASE m >= n
      BY <2>3, <2>4, <3>1
    <3>2. CASE m < n
      <4>1. PICK k : k = m + 1
        OBVIOUS
      <4>2. k \in 1 .. n /\ t = TickOf(S[k])
        BY <2>3, <3>2, <4>1
      <4>3. S[k] \in 1 .. Len(sampled)
        BY <1>1, <4>2 DEF Ring, Taken
      <4>4. t.order = sampled[S[k]].order /\ sampled[S[k]].order > 0
        BY <1>0, <4>2, <4>3 DEF TickOf, SampledInv
      <4> QED
        BY <2>2, <4>4 DEF IsDue
    <3> QED
      BY <3>1, <3>2
  <2>6. m < n => t.id = S[m + 1]
    BY <2>3 DEF TickOf
  <2>7. n <= Size => m < n
    <3>0. t.order = dequeue_order
      BY <2>2 DEF IsDue
    <3>1. t.order # 0
      BY ONLY <2>5, <3>0
    <3>2. ~(m >= n /\ n <= Size)
      BY <2>3, <3>1
    <3> QED
      BY <3>2
  <2>8. RecordedTo(n, S, m + 1)'
    BY <1>0, <1>1, <1>3, <2>2, <2>3, <2>5, <2>6, <2>7, RecordedToNext DEF Ring
  <2>9. PICK lap2 \in Nat : ReadTo(FinishDequeue(q), draining, n, base, m + 1, lap2)
    BY <1>5, <1>6, <2>2, <2>3, FinishRead
  <2>10. Written(FinishDequeue(q), n, T, base)
    <3>1. /\ q.dequeue_pos \in q.dequeue_chunk_pos .. q.dequeue_chunk_pos + ChunkRecords - 1
          /\ {q.dequeue_chunk_pos, q.dequeue_chunk_poll_pos} \subseteq ChunkStart
      BY <1>5, <1>6, <2>2, ExposedInChunk
    <3>2. FinishDequeue(q).buffer = q.buffer /\ FinishDequeue(q).enqueue_pos = q.enqueue_pos
      BY <1>6, <3>1, FinishFields
    <3> QED
      BY <2>3, <3>2 DEF Written
  <2>11. Written(ticks_buffer, n, Ticks(n, S), base)'
    BY <1>4, <2>2, <2>10
  <2>12. ReadTo(ticks_buffer, draining, n, base, m + 1, lap2)'
    BY <1>3, <2>2, <2>9
  <2>13. Ring(n, S, base, m + 1, lap2)'
    BY <1>4, <1>7, <2>2, <2>8, <2>11, <2>12 DEF Ring
  <2> QED
    BY <2>13, RingFrom
<1>10. CASE LaterThere(q)
  <2>1. /\ q.dequeue_pos # NULL /\ ticks_buffer' = q /\ pc' = "event" /\ recorded' = recorded
    BY <1>10 DEF LaterThere
  <2>2. Written(q, n, T, base)
    <3>1. PICK t : t = q.buffer[q.dequeue_pos]
      OBVIOUS
    <3> QED
      BY <1>0, <1>1, <1>2, <2>1, <3>1, RingTick
  <2>3. RecordedTo(n, S, m)'
    <3>1. \A i : (FromSampler(i)' <=> FromSampler(i)) /\ FromRing(i)' = FromRing(i) /\ (Recorded(i)' <=> Recorded(i))
      BY <1>3, <2>1 DEF FromSampler, FromRing, Recorded
    <3> QED
      BY <1>1, <1>3, <2>1, <3>1 DEF Ring, RecordedTo
  <2>4. Written(ticks_buffer, n, Ticks(n, S), base)'
    BY <1>4, <2>1, <2>2
  <2>5. ReadTo(ticks_buffer, draining, n, base, m, lap)'
    BY <1>3, <1>6, <2>1
  <2>6. Ring(n, S, base, m, lap)'
    BY <1>4, <1>7, <2>1, <2>3, <2>4, <2>5 DEF Ring
  <2> QED
    BY <2>6, RingFrom
<1> QED
  BY <1>2, <1>8, <1>9, <1>10, TakeTickCases

LEMMA RingStep ==
  ASSUME IInv, Next
  PROVE  RingInv'
<1>0. TypeOK /\ ControlInv /\ OrdersInv /\ SampledInv /\ VmInv /\ RingInv
  BY DEF IInv
<1>ring. PICK n, base, m, lap \in Nat : \E S : Ring(n, S, base, m, lap)
  BY <1>0 DEF RingInv
<1>1. PICK S : Ring(n, S, base, m, lap)
  BY <1>ring
<1>2. VmTicks = {} => NotStarted(n, m)
  BY <1>1 DEF Ring
<1>3. CASE NumberCodeEvent
  <2>1. UNCHANGED <<sampled, recorded, ticks_buffer, draining, dequeue_order, pc, phase, profiles, running>>
    BY <1>3 DEF NumberCodeEvent, processorVars
  <2>2. ASSUME VmTicks = {} PROVE NotStarted(n, m)'
    <3>1. phase = "logging"
      BY <1>2, <1>3, <2>2 DEF NumberCodeEvent, NotStarted
    <3>2. sampled = <<>>
      BY <1>0, <3>1 DEF SampledInv
    <3>3. \A i \in 1 .. Len(sampled) : FALSE
      BY <3>2
    <3> QED
      BY <1>2, <2>1, <2>2, <3>3 DEF NotStarted
  <2> QED
    BY <1>0, <1>1, <2>1, <2>2, RingKept
<1>4. CASE QueueCodeEvent \/ StartSampler \/ StartProfiling \/ StopProfiling
           \/ StopSampler \/ StopProcessor \/ JoinProcessor
  <2>1. UNCHANGED <<sampled, recorded, ticks_buffer, draining, dequeue_order, pc>>
    BY <1>4 DEF QueueCodeEvent, StartSampler, StartProfiling, StopProfiling, StopSampler, StopProcessor,
                JoinProcessor, processorVars
  <2>2. VmTicks = {} => NotStarted(n, m)'
    BY <1>2, <1>4, <2>1 DEF NotStarted, QueueCodeEvent, StartSampler, StartProfiling, StopProfiling, StopSampler,
                            StopProcessor, JoinProcessor
  <2> QED
    BY <1>0, <1>1, <2>1, <2>2, RingKept
<1>5. CASE NoTick
  <2>1. UNCHANGED <<sampled, recorded, ticks_buffer, draining, dequeue_order, phase, profiles, running, enqueue_order>>
    BY <1>5 DEF NoTick, vmVars
  <2>2. pc' # "no tick" /\ (VmTicks = {} => pc' # "event")
    <3>1. VmTicks = {} => ticks_from_vm_buffer = <<>>
      <4> SUFFICES ASSUME VmTicks = {}, ticks_from_vm_buffer # <<>> PROVE FALSE
        OBVIOUS
      <4>1. 1 \in 1 .. Len(ticks_from_vm_buffer)
        BY <1>0, Types
      <4> QED
        BY <1>0, <4>1 DEF VmInv
    <3> QED
      BY <1>5, <3>1 DEF NoTick, MoreTicks, GiveUp
  <2>3. VmTicks = {} => NotStarted(n, m)'
    BY <1>2, <2>1, <2>2 DEF NotStarted
  <2> QED
    BY <1>0, <1>1, <2>1, <2>2, <2>3, RingKept
<1>6. CASE ProcessCodeEvent
  <2>1. UNCHANGED <<sampled, recorded, ticks_buffer, draining>> /\ pc' # "no tick" /\ VmTicks # {}
    BY <1>2, <1>6 DEF ProcessCodeEvent, AfterNoEvent, GiveUp, vmVars, NotStarted
  <2>2. dequeue_order' = dequeue_order \/ dequeue_order' > 0
    <3>1. CASE events_buffer = <<>>
      BY <1>6, <3>1 DEF ProcessCodeEvent
    <3>2. CASE events_buffer # <<>>
      <4>1. 1 \in 1 .. Len(events_buffer) /\ Head(events_buffer) = events_buffer[1] /\ dequeue_order \in Nat
        BY <1>0, <3>2, Types
      <4>2. dequeue_order' = dequeue_order + 1
        BY <1>0, <1>6, <3>2, <4>1 DEF ProcessCodeEvent, OrdersInv
      <4> QED
        BY <4>1, <4>2
    <3> QED
      BY <3>1, <3>2
  <2> QED
    BY <1>0, <1>1, <2>1, <2>2, RingKept
<1> QED
  BY <1>3, <1>4, <1>5, <1>6, RingAddStack, RingSample, RingCheckRunning, RingTakeVm, RingTake
     DEF Next, VM, Processor

---------------------------------------------------------------------------
(* A single profile.                                                         *)

LEMMA OneVm ==
  ASSUME TypeOK, OneProfile, NEW v \in VmTicks, NEW w \in VmTicks
  PROVE  v = w
<1> SUFFICES ASSUME v # w PROVE FALSE
  OBVIOUS
<1>1. IsFiniteSet(VmTicks) /\ Cardinality(VmTicks) <= 1 /\ Cardinality(VmTicks) \in Nat
  BY Types, TicksCounted DEF VmTicks, OneProfile
<1>2. IsFiniteSet({}) /\ Cardinality({}) = 0 /\ v \notin {}
  BY FS_EmptySet
<1>3. IsFiniteSet({} \cup {v}) /\ Cardinality({} \cup {v}) = 0 + 1
  BY <1>2, FS_AddElement
<1>4. {} \cup {v} = {v}
  OBVIOUS
<1>5. IsFiniteSet({v}) /\ Cardinality({v}) = 1 /\ w \notin {v}
  BY <1>3, <1>4
<1>6. Cardinality({v} \cup {w}) = 2
  BY <1>5, FS_AddElement
<1>7. {v} \cup {w} \subseteq VmTicks
  OBVIOUS
<1>8. Cardinality({v} \cup {w}) <= Cardinality(VmTicks)
  BY <1>1, <1>7, FS_Subset
<1> QED
  BY ONLY <1>1, <1>6, <1>8

LEMMA OneBuffered ==
  ASSUME TypeOK, VmInv, OneProfile, NEW i \in 1 .. Len(ticks_from_vm_buffer)
  PROVE  i = 1
<1>1. 1 \in 1 .. Len(ticks_from_vm_buffer) /\ i \in Nat /\ (i # 1 => 1 < i)
  BY Types
<1>2. ticks_from_vm_buffer[1].id = ticks_from_vm_buffer[i].id
  BY <1>1, OneVm DEF VmInv
<1>3. ticks_from_vm_buffer[1].id \in Nat
  <2>1. VmTicks \subseteq Nat
    BY DEF VmTicks, TickIds
  <2> QED
    BY <1>1, <2>1 DEF VmInv
<1>4. 1 < i => ticks_from_vm_buffer[1].id < ticks_from_vm_buffer[i].id
  BY <1>1 DEF VmInv
<1> QED
  BY <1>1, <1>2, <1>3, <1>4

\* The orders are numbers.
LEMMA OrdersOfTicks ==
  ASSUME TypeOK, VmInv
  PROVE  /\ \A id \in 1 .. Len(sampled) : sampled[id].order \in Nat
         /\ \A i \in 1 .. Len(ticks_from_vm_buffer) :
              /\ ticks_from_vm_buffer[i].order \in Nat
              /\ ticks_from_vm_buffer[i].id \in 1 .. Len(sampled)
              /\ ticks_from_vm_buffer[i].order = sampled[ticks_from_vm_buffer[i].id].order
<1>1. \A id \in 1 .. Len(sampled) : sampled[id].order \in Nat
  BY Types, OrdersNatural
<1>2. ASSUME NEW i \in 1 .. Len(ticks_from_vm_buffer)
      PROVE  /\ ticks_from_vm_buffer[i].id \in 1 .. Len(sampled)
             /\ ticks_from_vm_buffer[i].order = sampled[ticks_from_vm_buffer[i].id].order
  <2>1. ticks_from_vm_buffer[i].id \in VmTicks /\ ticks_from_vm_buffer[i] = TickOf(ticks_from_vm_buffer[i].id)
    BY DEF VmInv
  <2>2. PICK id : id = ticks_from_vm_buffer[i].id
    OBVIOUS
  <2>3. ticks_from_vm_buffer[i].order = sampled[id].order
    BY <2>1, <2>2 DEF TickOf
  <2> QED
    BY <2>1, <2>2, <2>3 DEF VmTicks, TickIds
<1> QED
  BY <1>1, <1>2

\* The next record of the ring has not been recorded.
LEMMA NextUnread ==
  ASSUME TypeOK, NEW n \in Nat, NEW m \in Nat, NEW S, Taken(n, S), RecordedTo(n, S, m), m < n
  PROVE  ~Recorded(S[m + 1])
<1> SUFFICES ASSUME Recorded(S[m + 1]) PROVE FALSE
  OBVIOUS
<1>1. PICK i \in 1 .. Len(recorded) : recorded[i].id = S[m + 1]
  BY DEF Recorded
<1>2. m + 1 \in 1 .. n
  OBVIOUS
<1>3. S \in [1 .. n -> 1 .. Len(sampled)] /\ S[m + 1] \in TickIds("sampler")
  BY <1>2 DEF Taken
<1>4. FromSampler(i)
  BY <1>1, <1>3 DEF FromSampler, TickIds
<1>5. PICK k : k = Cardinality(FromRing(i))
  OBVIOUS
<1>6. k \in Nat /\ k > 0 /\ k <= m
  <2>1. Len(recorded) \in Nat /\ Len(recorded) \in 0 .. Len(recorded) /\ i \in 0 .. Len(recorded)
    BY Types
  <2>2. Cardinality(FromRing(Len(recorded))) = m
    BY DEF RecordedTo
  <2> QED
    BY <1>4, <1>5, <2>1, <2>2, RingCounted
<1>7. k \in 1 .. n /\ k < m + 1
  BY <1>6
<1>8. recorded[i].id = S[k]
  BY <1>4, <1>5, <1>7 DEF RecordedTo
<1>9. S[k] < S[m + 1] /\ S[k] \in Nat
  BY <1>2, <1>3, <1>7 DEF Taken
<1> QED
  BY <1>1, <1>8, <1>9

\* Steps that leave the ticks alone.
LEMMA ProfileKept ==
  ASSUME TypeOK, ProfileInv, UNCHANGED <<sampled, recorded, ticks_from_vm_buffer, dequeue_order>>,
         OneProfile => /\ pc' # "done" \/ pc = "done" \/ \A id \in 1 .. Len(sampled) : Recorded(id)
                       /\ pc \in {"loop", "vm ticks"} => pc' \in {"loop", "vm ticks"}
                       /\ pc' = "event" =>
                            /\ \A id \in 1 .. Len(sampled) : Recorded(id) \/ dequeue_order < sampled[id].order
                            /\ draining' \/ dequeue_order < enqueue_order'
  PROVE  ProfileInv'
<1>1. VmTicks' = VmTicks /\ (OneProfile' <=> OneProfile) /\ \A id : Recorded(id)' <=> Recorded(id)
  BY DEF VmTicks, TickIds, OneProfile, Recorded
<1>2. ASSUME OneProfile
      PROVE  /\ \A v \in VmTicks : \A id \in 1 .. Len(sampled) : sampled[v].order <= sampled[id].order
             /\ \A i \in 1 .. Len(ticks_from_vm_buffer) :
                  /\ dequeue_order <= ticks_from_vm_buffer[i].order
                  /\ pc' \notin {"loop", "vm ticks"} => dequeue_order < ticks_from_vm_buffer[i].order
             /\ \A id \in 1 .. Len(sampled) : Recorded(id) \/
                  /\ dequeue_order <= sampled[id].order
                  /\ pc' = "event" => dequeue_order < sampled[id].order
                  /\ pc' # "done"
             /\ pc' = "event" => draining' \/ dequeue_order < enqueue_order'
  BY <1>2 DEF ProfileInv
<1> QED
  BY <1>1, <1>2 DEF ProfileInv

LEMMA TickTaken ==
  ASSUME TypeOK, NEW src \in {"sampler", "vm"}, NEW l, l = Len(sampled), NEW e, e = enqueue_order,
         sampled' = Append(sampled, [source |-> src, order |-> e])
  PROVE  /\ Len(sampled') = l + 1 /\ l \in Nat /\ sampled'[l + 1].order = e /\ e \in Nat
         /\ VmTicks' = IF src = "vm" THEN VmTicks \cup {l + 1} ELSE VmTicks
         /\ \A id \in 1 .. l : sampled'[id] = sampled[id]
<1>1. sampled \in Seq(Sample) /\ e \in 0 .. MaxEvents /\ e \in Nat
  BY Types
<1>2. Len(sampled') = l + 1 /\ l \in Nat /\ sampled'[l + 1].order = e
  BY <1>1, SampledGrows
<1>3. \A id \in 1 .. l : sampled'[id] = sampled[id]
  BY <1>1, SampledGrows
<1>4. VmTicks' = IF src = "vm" THEN VmTicks \cup {l + 1} ELSE VmTicks
  BY <1>1, SampledGrows DEF VmTicks
<1> QED
  BY <1>1, <1>2, <1>3, <1>4

LEMMA ProfileAddStack ==
  ASSUME IInv, AddCurrentStack
  PROVE  ProfileInv'
<1>0. TypeOK /\ ControlInv /\ SampledInv /\ VmInv /\ RingInv
  BY DEF IInv
<1>1. PICK l, e : l = Len(sampled) /\ e = enqueue_order
  OBVIOUS
<1>2. /\ sampled' = Append(sampled, [source |-> "vm", order |-> e]) /\ phase = "adding stack"
      /\ ticks_from_vm_buffer' = Append(ticks_from_vm_buffer, NewTick)
      /\ UNCHANGED <<recorded, dequeue_order, pc, draining, enqueue_order>>
  BY <1>1 DEF AddCurrentStack, processorVars
<1>3. /\ Len(sampled') = l + 1 /\ l \in Nat /\ sampled'[l + 1].order = e
      /\ VmTicks' = VmTicks \cup {l + 1}
      /\ \A id \in 1 .. l : sampled'[id] = sampled[id]
  BY <1>0, <1>1, <1>2, TickTaken
<1> SUFFICES ASSUME OneProfile' PROVE ProfileInv'
  BY DEF ProfileInv
<1>4. VmTicks = {}
  <2>1. IsFiniteSet(VmTicks) /\ Cardinality(VmTicks) \in Nat
    BY <1>0, Types, TicksCounted DEF VmTicks
  <2>2. l + 1 \notin VmTicks
    BY <1>1, <1>3 DEF VmTicks, TickIds
  <2>3. Cardinality(VmTicks') = Cardinality(VmTicks) + 1
    BY <1>3, <2>1, <2>2, FS_AddElement
  <2>4. Cardinality(VmTicks') <= 1
    BY DEF OneProfile, VmTicks
  <2> QED
    BY <2>1, <2>3, <2>4, FS_EmptySet
<1>5. PICK n, m \in Nat : NotStarted(n, m)
  BY <1>0, <1>4 DEF RingInv, Ring
<1>6. /\ dequeue_order = 0 /\ pc # "event" /\ running
      /\ \A i \in 1 .. l : sampled[i].order = e
  BY <1>1, <1>5 DEF NotStarted
<1>7. e > 0 /\ e \in Nat /\ pc # "done"
  <2>1. e > 0
    BY <1>0, <1>1, <1>2 DEF SampledInv
  <2>2. pc # "done"
    BY <1>0, <1>6 DEF ControlInv
  <2>3. e \in Nat
    BY <1>0, <1>1, <1>2, TickTaken
  <2> QED
    BY <2>1, <2>2, <2>3
<1>8. \A id \in 1 .. l + 1 : id \in 1 .. l \/ id = l + 1
  BY <1>3
<1>9. \A id \in 1 .. l + 1 : sampled'[id].order = e
  BY <1>3, <1>6, <1>8
<1>10. VmTicks' = {l + 1} /\ l + 1 \in 1 .. l + 1
  BY <1>3, <1>4
<1>11. \A v \in VmTicks' : \A id \in 1 .. l + 1 : sampled'[v].order <= sampled'[id].order
  BY <1>7, <1>9, <1>10
<1>12. \A i \in 1 .. Len(ticks_from_vm_buffer') : ticks_from_vm_buffer'[i].order = e
  <2>1. Len(ticks_from_vm_buffer) = 0
    <3>1. Len(ticks_from_vm_buffer) \in Nat
      BY <1>0, Types
    <3>2. Len(ticks_from_vm_buffer) # 0 => 1 \in 1 .. Len(ticks_from_vm_buffer)
      BY <3>1
    <3> QED
      BY <1>0, <1>4, <3>2 DEF VmInv
  <2>2. Len(ticks_from_vm_buffer') = 1 /\ ticks_from_vm_buffer'[1] = NewTick
    <3>1. ticks_from_vm_buffer \in Seq(Tick) /\ NewTick \in Tick
      BY <1>0, Types, NewTickType
    <3>2. Len(ticks_from_vm_buffer') = Len(ticks_from_vm_buffer) + 1 /\
          ticks_from_vm_buffer'[Len(ticks_from_vm_buffer) + 1] = NewTick
      BY <1>2, <3>1, AppendTo
    <3> QED
      BY <2>1, <3>2
  <2>3. \A i \in 1 .. 1 : i = 1
    OBVIOUS
  <2> QED
    BY <1>0, <1>1, <2>2, <2>3, NewTickType
<1>13. 0 <= e /\ 0 < e
  BY <1>7
<1> QED
  BY <1>2, <1>3, <1>6, <1>7, <1>9, <1>11, <1>12, <1>13 DEF ProfileInv

LEMMA ProfileSample ==
  ASSUME IInv, TickSampleEvent
  PROVE  ProfileInv'
<1>0. TypeOK /\ ControlInv /\ OrdersInv /\ SampledInv /\ VmInv /\ ProfileInv
  BY DEF IInv
<1>1. PICK l, e : l = Len(sampled) /\ e = enqueue_order
  OBVIOUS
<1>2. /\ sampled' = Append(sampled, [source |-> "sampler", order |-> e]) /\ sampling
      /\ UNCHANGED <<ticks_from_vm_buffer, recorded, dequeue_order, pc, draining, enqueue_order>>
  BY <1>1 DEF TickSampleEvent, processorVars
<1>3. /\ Len(sampled') = l + 1 /\ l \in Nat /\ sampled'[l + 1].order = e
      /\ VmTicks' = VmTicks
      /\ \A id \in 1 .. l : sampled'[id] = sampled[id]
  BY <1>0, <1>1, <1>2, TickTaken
<1> SUFFICES ASSUME OneProfile' PROVE ProfileInv'
  BY DEF ProfileInv
<1>4. OneProfile
  BY <1>3 DEF OneProfile, VmTicks
<1>5. ~draining /\ pc # "done" /\ e \in Nat /\ dequeue_order \in Nat
  <2>1. ~draining /\ pc # "done"
    BY <1>0, <1>2 DEF ControlInv
  <2>2. e \in Nat /\ dequeue_order \in Nat
    BY <1>0, <1>1, Types
  <2> QED
    BY <2>1, <2>2
<1>6. dequeue_order <= e
  <2>1. dequeue_order + Len(events_buffer) + (IF numbered THEN 1 ELSE 0) = e /\ Len(events_buffer) \in Nat
    BY <1>0, <1>1, Types DEF OrdersInv
  <2> QED
    BY ONLY <1>5, <2>1
<1>7. pc = "event" => dequeue_order < e
  BY <1>0, <1>1, <1>4, <1>5 DEF ProfileInv
<1>8. \A id \in 1 .. l + 1 : id \in 1 .. l \/ id = l + 1
  BY <1>3
<1>9. \A v \in VmTicks : v \in 1 .. l /\ \A id \in 1 .. l + 1 : sampled'[v].order <= sampled'[id].order
  <2>1. \A v \in VmTicks : v \in 1 .. l
    BY <1>1 DEF VmTicks, TickIds
  <2>2. \A v \in VmTicks : sampled[v].order <= e /\ \A id \in 1 .. l : sampled[v].order <= sampled[id].order
    BY <1>0, <1>1, <1>4, <2>1 DEF ProfileInv, SampledInv
  <2> QED
    BY <1>3, <1>8, <2>1, <2>2
<1>10. \A id : Recorded(id)' <=> Recorded(id)
  BY <1>2 DEF Recorded
<1>11. \A id \in 1 .. l + 1 : Recorded(id)' \/
         /\ dequeue_order <= sampled'[id].order
         /\ pc = "event" => dequeue_order < sampled'[id].order
  <2>1. \A id \in 1 .. l : Recorded(id) \/
          /\ dequeue_order <= sampled[id].order
          /\ pc = "event" => dequeue_order < sampled[id].order
    BY <1>0, <1>1, <1>4 DEF ProfileInv
  <2> QED
    BY <1>3, <1>6, <1>7, <1>8, <1>10, <2>1
<1>12. \A i \in 1 .. Len(ticks_from_vm_buffer) :
       /\ dequeue_order <= ticks_from_vm_buffer[i].order
       /\ pc \notin {"loop", "vm ticks"} => dequeue_order < ticks_from_vm_buffer[i].order
  BY <1>0, <1>4 DEF ProfileInv
<1> QED
  BY <1>1, <1>2, <1>3, <1>5, <1>7, <1>9, <1>11, <1>12 DEF ProfileInv

\* Recording more ticks, at a point where none must have been passed.
LEMMA ProfileRecords ==
  ASSUME TypeOK, ProfileInv, UNCHANGED <<sampled, dequeue_order>>, NEW t \in Tick, RecordTickSample(t),
         pc' \in {"vm ticks", "ticks"},
         OneProfile => \A i \in 1 .. Len(ticks_from_vm_buffer') :
                         /\ dequeue_order <= ticks_from_vm_buffer'[i].order
                         /\ pc' = "vm ticks" \/ dequeue_order < ticks_from_vm_buffer'[i].order
  PROVE  ProfileInv'
<1>1. PICK e \in Entry : recorded' = Append(recorded, e)
  BY RecordedEntry
<1>2. PICK l : l = Len(recorded)
  OBVIOUS
<1>3. \A id : Recorded(id) => Recorded(id)'
  <2>1. recorded \in Seq(Entry)
    BY Types
  <2>2. \A id : Recorded(id)' <=> Recorded(id) \/ id = e.id
    BY <1>1, <1>2, <2>1, RecordedGrows
  <2> QED
    BY <2>2
<1>4. VmTicks' = VmTicks /\ (OneProfile' <=> OneProfile)
  BY DEF VmTicks, TickIds, OneProfile
<1>5. ASSUME OneProfile
      PROVE  /\ \A v \in VmTicks : \A id \in 1 .. Len(sampled) : sampled[v].order <= sampled[id].order
             /\ \A id \in 1 .. Len(sampled) : Recorded(id)' \/ dequeue_order <= sampled[id].order
  BY <1>3, <1>5 DEF ProfileInv
<1>6. pc' # "event" /\ pc' # "done" /\ (pc' \notin {"loop", "vm ticks"} => pc' # "vm ticks")
  OBVIOUS
<1> QED
  BY <1>4, <1>5, <1>6 DEF ProfileInv

LEMMA ProfileTakeVm ==
  ASSUME IInv, TakeTickFromVm
  PROVE  ProfileInv'
<1>0. TypeOK /\ VmInv /\ ProfileInv
  BY DEF IInv
<1>1. UNCHANGED <<sampled, dequeue_order, draining, enqueue_order>> /\ pc = "vm ticks" /\ pc' = "ticks"
  BY DEF TakeTickFromVm, vmVars
<1>2. PICK b : b = ticks_from_vm_buffer
  OBVIOUS
<1>3. CASE b # <<>> /\ IsDue(Head(b))
  <2>1. b \in Seq(Tick) /\ Head(b) \in Tick /\ Len(Tail(b)) = Len(b) - 1 /\ Len(b) \in Nat
    BY <1>0, <1>2, <1>3, Types
  <2>2. RecordTickSample(Head(b)) /\ ticks_from_vm_buffer' = Tail(b)
    BY <1>2, <1>3 DEF TakeTickFromVm
  <2>3. OneProfile => \A i \in 1 .. Len(Tail(b)) : FALSE
    <3> SUFFICES ASSUME OneProfile, NEW i \in 1 .. Len(Tail(b)) PROVE FALSE
      OBVIOUS
    <3>1. i + 1 \in 1 .. Len(b) /\ i + 1 # 1
      BY <2>1
    <3> QED
      BY <1>0, <1>2, <3>1, OneBuffered
  <2> QED
    BY <1>0, <1>1, <2>1, <2>2, <2>3, ProfileRecords
<1>4. CASE ~(b # <<>> /\ IsDue(Head(b)))
  <2>1. recorded' = recorded /\ ticks_from_vm_buffer' = b
    BY <1>2, <1>4 DEF TakeTickFromVm
  <2>2. VmTicks' = VmTicks /\ (OneProfile' <=> OneProfile) /\ \A id : Recorded(id)' <=> Recorded(id)
    BY <1>1, <2>1 DEF VmTicks, TickIds, OneProfile, Recorded
  <2>3. OneProfile => \A i \in 1 .. Len(b) : dequeue_order < b[i].order
    <3> SUFFICES ASSUME OneProfile, NEW i \in 1 .. Len(b) PROVE dequeue_order < b[i].order
      OBVIOUS
    <3>1. i = 1 /\ b # <<>> /\ Head(b) = b[1]
      BY <1>0, <1>2, Types, OneBuffered
    <3>2. b[i].order # dequeue_order
      BY <1>4, <3>1 DEF IsDue
    <3>3. dequeue_order <= b[i].order
      BY <1>0, <1>2 DEF ProfileInv
    <3>4. b[i].order \in Nat /\ dequeue_order \in Nat
      BY <1>0, <1>2, OrdersOfTicks, Types
    <3> QED
      BY ONLY <3>2, <3>3, <3>4
  <2>4. ASSUME OneProfile
        PROVE  /\ \A v \in VmTicks : \A id \in 1 .. Len(sampled) : sampled[v].order <= sampled[id].order
               /\ \A i \in 1 .. Len(b) : dequeue_order <= b[i].order
               /\ \A id \in 1 .. Len(sampled) : Recorded(id) \/ dequeue_order <= sampled[id].order
    BY <1>0, <1>2, <2>4 DEF ProfileInv
  <2> QED
    BY <1>1, <2>1, <2>2, <2>3, <2>4 DEF ProfileInv
<1> QED
  BY <1>3, <1>4

LEMMA ProfileTake ==
  ASSUME IInv, TakeTick
  PROVE  ProfileInv'
<1>0. TypeOK /\ ControlInv /\ OrdersInv /\ SampledInv /\ VmInv /\ RingInv /\ ProfileInv
  BY DEF IInv
<1>ring. PICK n, base, m, lap \in Nat : \E S : Ring(n, S, base, m, lap)
  BY <1>0 DEF RingInv
<1>1. PICK S : Ring(n, S, base, m, lap)
  BY <1>ring
<1>2. PICK q, T, t : q = StartDequeue(ticks_buffer) /\ T = Ticks(n, S) /\ t = q.buffer[q.dequeue_pos]
  OBVIOUS
<1>3. /\ UNCHANGED <<sampled, draining, dequeue_order, enqueue_order, ticks_from_vm_buffer>>
      /\ pc = "ticks"
  BY DEF TakeTick, vmVars
<1>4. CASE NoneThere(q)
  <2>1. recorded' = recorded /\ pc' = "no tick"
    BY <1>4 DEF NoneThere
  <2> QED
    BY <1>0, <1>3, <2>1, ProfileKept
<1>5. CASE DueThere(q)
  <2>1. q.dequeue_pos # NULL /\ RecordTickSample(t) /\ pc' = "vm ticks"
    BY <1>2, <1>5 DEF DueThere
  <2>2. t \in Tick
    <3>1. q \in Queue(Tick)
      BY <1>0, <1>2, Types, StartFields
    <3> QED
      BY <1>2, <2>1, <3>1, ExposedType
  <2>3. OneProfile => \A i \in 1 .. Len(ticks_from_vm_buffer) : dequeue_order <= ticks_from_vm_buffer[i].order
    BY <1>0 DEF ProfileInv
  <2> QED
    BY <1>0, <1>3, <2>1, <2>2, <2>3, ProfileRecords
<1>6. CASE LaterThere(q)
  <2>1. q.dequeue_pos # NULL /\ t.order # dequeue_order /\ pc' = "event" /\ recorded' = recorded
    BY <1>2, <1>6 DEF LaterThere, IsDue
  <2>2. /\ m < n => t = TickOf(S[m + 1])
        /\ ~draining => m < n
    BY <1>0, <1>1, <1>2, <2>1, RingTick
  <2>3. /\ Taken(n, S) /\ RecordedTo(n, S, m)
    BY <1>1 DEF Ring
  <2>4. dequeue_order \in Nat /\ enqueue_order \in Nat /\ \A id \in 1 .. Len(sampled) : sampled[id].order \in Nat
    BY <1>0, Types, OrdersOfTicks
  <2>5. ASSUME OneProfile, m < n
        PROVE  /\ m + 1 \in 1 .. n /\ S[m + 1] \in 1 .. Len(sampled)
               /\ dequeue_order < sampled[S[m + 1]].order
    <3>1. m + 1 \in 1 .. n
      BY <2>5
    <3>2. S[m + 1] \in 1 .. Len(sampled)
      BY <2>3, <3>1 DEF Taken
    <3>3. ~Recorded(S[m + 1])
      BY <1>0, <2>3, <2>5, NextUnread
    <3>4. dequeue_order <= sampled[S[m + 1]].order
      BY <1>0, <2>5, <3>2, <3>3 DEF ProfileInv
    <3>5. t.order = sampled[S[m + 1]].order
      BY <2>2, <2>5 DEF TickOf
    <3>6. dequeue_order < sampled[S[m + 1]].order
      <4>1. sampled[S[m + 1]].order \in Nat /\ sampled[S[m + 1]].order # dequeue_order
        BY <2>1, <2>4, <3>2, <3>5
      <4> QED
        BY ONLY <2>4, <3>4, <4>1
    <3> QED
      BY <3>1, <3>2, <3>6
  <2>6. ASSUME OneProfile, NEW id \in 1 .. Len(sampled), ~Recorded(id) PROVE dequeue_order < sampled[id].order
    <3>1. CASE id \in VmTicks
      <4>1. PICK i \in 1 .. Len(ticks_from_vm_buffer) : ticks_from_vm_buffer[i].id = id
        BY <1>0, <2>6, <3>1 DEF VmInv
      <4>2. dequeue_order < ticks_from_vm_buffer[i].order
        BY <1>0, <1>3, <2>6 DEF ProfileInv
      <4> QED
        BY <1>0, <4>1, <4>2, OrdersOfTicks
    <3>2. CASE id \notin VmTicks
      <4>1. id \in TickIds("sampler")
        <5>1. sampled[id].source \in {"sampler", "vm"}
          BY <1>0, Types, OrdersNatural
        <5> QED
          BY <3>2, <5>1 DEF VmTicks, TickIds
      <4>2. PICK k \in 1 .. n : S[k] = id
        BY <2>3, <4>1 DEF Taken
      <4>3. ~(k <= m)
        BY <2>3, <2>6, <4>2 DEF RecordedTo
      <4>4. m < n /\ m + 1 <= k /\ m + 1 \in 1 .. n
        BY <4>3
      <4>5. S[m + 1] <= S[k]
        <5>1. S[m + 1] \in 1 .. Len(sampled) /\ (m + 1 < k => S[m + 1] < S[k])
          BY <2>3, <4>4 DEF Taken
        <5> QED
          BY <4>2, <4>4, <5>1
      <4>6. S[m + 1] \in 1 .. Len(sampled) /\ dequeue_order < sampled[S[m + 1]].order
        BY <2>5, <2>6, <4>4
      <4>7. sampled[S[m + 1]].order <= sampled[id].order
        BY <1>0, <4>2, <4>5, <4>6 DEF SampledInv
      <4>8. sampled[S[m + 1]].order \in Nat /\ sampled[id].order \in Nat
        BY <2>4, <4>6
      <4> QED
        BY ONLY <2>4, <4>6, <4>7, <4>8
    <3> QED
      BY <3>1, <3>2
  <2>7. OneProfile => draining \/ dequeue_order < enqueue_order
    <3> SUFFICES ASSUME OneProfile, ~draining PROVE dequeue_order < enqueue_order
      OBVIOUS
    <3>1. S[m + 1] \in 1 .. Len(sampled) /\ dequeue_order < sampled[S[m + 1]].order
      BY <2>2, <2>5
    <3>2. sampled[S[m + 1]].order <= enqueue_order
      BY <1>0, <3>1 DEF SampledInv
    <3>3. sampled[S[m + 1]].order \in Nat
      BY <2>4, <3>1
    <3> QED
      BY ONLY <2>4, <3>1, <3>2, <3>3
  <2>8. OneProfile => /\ \A id \in 1 .. Len(sampled) : Recorded(id) \/ dequeue_order < sampled[id].order
                      /\ draining' \/ dequeue_order < enqueue_order'
    BY <1>3, <2>6, <2>7
  <2> QED
    BY <1>0, <1>3, <2>1, <2>8, ProfileKept
<1> QED
  BY <1>2, <1>4, <1>5, <1>6, TakeTickCases

LEMMA ProfileNoTick ==
  ASSUME IInv, NoTick
  PROVE  ProfileInv'
<1>0. TypeOK /\ OrdersInv /\ SampledInv /\ VmInv /\ RingInv /\ ProfileInv
  BY DEF IInv
<1>1. /\ UNCHANGED <<sampled, recorded, ticks_from_vm_buffer, dequeue_order, draining, enqueue_order>>
      /\ pc = "no tick" /\ pc' = IF ticks_from_vm_buffer # <<>> THEN "event" ELSE GiveUp
  BY DEF NoTick, vmVars, MoreTicks
<1>2. dequeue_order \in Nat /\ enqueue_order \in Nat /\ \A id \in 1 .. Len(sampled) : sampled[id].order \in Nat
  BY <1>0, Types, OrdersOfTicks
<1>3. CASE ticks_from_vm_buffer # <<>>
  <2>1. ASSUME OneProfile
        PROVE  /\ \A id \in 1 .. Len(sampled) : Recorded(id) \/ dequeue_order < sampled[id].order
               /\ draining' \/ dequeue_order < enqueue_order'
    <3>1. 1 \in 1 .. Len(ticks_from_vm_buffer)
      BY <1>0, <1>3, Types
    <3>2. PICK v : v = ticks_from_vm_buffer[1].id
      OBVIOUS
    <3>3. v \in VmTicks /\ v \in 1 .. Len(sampled) /\ ticks_from_vm_buffer[1].order = sampled[v].order
      BY <1>0, <3>1, <3>2, OrdersOfTicks DEF VmInv
    <3>4. dequeue_order < sampled[v].order
      BY <1>0, <1>1, <2>1, <3>1, <3>3 DEF ProfileInv
    <3>5. \A id \in 1 .. Len(sampled) : sampled[v].order <= sampled[id].order
      BY <1>0, <2>1, <3>3 DEF ProfileInv
    <3>6. sampled[v].order <= enqueue_order
      BY <1>0, <3>3 DEF SampledInv
    <3>7. dequeue_order < enqueue_order
      BY <1>2, <3>3, <3>4, <3>6
    <3>8. \A id \in 1 .. Len(sampled) : dequeue_order < sampled[id].order
      BY <1>2, <3>3, <3>4, <3>5
    <3> QED
      BY <1>1, <3>7, <3>8
  <2> QED
    BY <1>0, <1>1, <1>3, <2>1, ProfileKept
<1>4. CASE ticks_from_vm_buffer = <<>>
  <2>1. pc' = IF draining THEN "done" ELSE "loop"
    BY <1>1, <1>4 DEF GiveUp
  <2>2. ASSUME draining, NEW id \in 1 .. Len(sampled) PROVE Recorded(id)
    <3>ring. PICK n, base, m, lap \in Nat : \E S : Ring(n, S, base, m, lap)
      BY <1>0 DEF RingInv
    <3>1. PICK S : Ring(n, S, base, m, lap)
      BY <3>ring
    <3>2. n <= m /\ Taken(n, S) /\ RecordedTo(n, S, m)
      BY <1>1, <2>2, <3>1 DEF Ring
    <3>3. \A k \in 1 .. n : Recorded(S[k])
      <4>1. \A k \in 1 .. n : k <= m
        BY <3>2
      <4> QED
        BY <3>2, <4>1 DEF RecordedTo
    <3>4. CASE id \in VmTicks
      <4>1. \A i \in 1 .. Len(ticks_from_vm_buffer) : FALSE
        BY <1>4
      <4> QED
        BY <1>0, <3>4, <4>1 DEF VmInv
    <3>5. CASE id \notin VmTicks
      <4>1. sampled[id].source \in {"sampler", "vm"}
        BY <1>0, Types, OrdersNatural
      <4>2. id \in TickIds("sampler")
        BY <3>5, <4>1 DEF VmTicks, TickIds
      <4> QED
        BY <3>2, <3>3, <4>2 DEF Taken
    <3> QED
      BY <3>4, <3>5
  <2> QED
    BY <1>0, <1>1, <2>1, <2>2, ProfileKept
<1> QED
  BY <1>3, <1>4

LEMMA ProfileEvent ==
  ASSUME IInv, ProcessCodeEvent
  PROVE  ProfileInv'
<1>0. TypeOK /\ ControlInv /\ OrdersInv /\ SampledInv /\ VmInv /\ ProfileInv
  BY DEF IInv
<1>1. UNCHANGED <<sampled, recorded, ticks_from_vm_buffer, draining, enqueue_order>> /\ pc = "event"
  BY DEF ProcessCodeEvent, vmVars
<1>2. dequeue_order \in Nat /\ enqueue_order \in Nat /\ \A id \in 1 .. Len(sampled) : sampled[id].order \in Nat
  BY <1>0, Types, OrdersOfTicks
<1>3. CASE events_buffer = <<>>
  <2>1. dequeue_order' = dequeue_order /\ pc' = IF draining THEN "done" ELSE "loop"
    BY <1>3 DEF ProcessCodeEvent, AfterNoEvent, GiveUp
  <2>2. ASSUME OneProfile, draining, NEW id \in 1 .. Len(sampled) PROVE Recorded(id)
    <3>1. ~numbered
      BY <1>0, <2>2 DEF ControlInv
    <3>2. Len(events_buffer) = 0
      BY <1>3
    <3>3. dequeue_order = enqueue_order
      BY <1>0, <1>2, <3>1, <3>2 DEF OrdersInv
    <3>4. sampled[id].order <= enqueue_order
      BY <1>0 DEF SampledInv
    <3>5. Recorded(id) \/ dequeue_order < sampled[id].order
      BY <1>0, <1>1, <2>2 DEF ProfileInv
    <3> QED
      BY <1>2, <3>3, <3>4, <3>5
  <2> QED
    BY <1>0, <1>1, <2>1, <2>2, ProfileKept
<1>4. CASE events_buffer # <<>>
  <2>1. 1 \in 1 .. Len(events_buffer) /\ Head(events_buffer) = events_buffer[1]
    BY <1>0, <1>4, Types
  <2>2. dequeue_order' = dequeue_order + 1 /\ pc' \in {"vm ticks", "loop"}
    BY <1>0, <1>4, <2>1 DEF ProcessCodeEvent, OrdersInv
  <2>3. VmTicks' = VmTicks /\ (OneProfile' <=> OneProfile) /\ \A id : Recorded(id)' <=> Recorded(id)
    BY <1>1 DEF VmTicks, TickIds, OneProfile, Recorded
  <2>4. ASSUME OneProfile
        PROVE  /\ \A v \in VmTicks : \A id \in 1 .. Len(sampled) : sampled[v].order <= sampled[id].order
               /\ \A i \in 1 .. Len(ticks_from_vm_buffer) : dequeue_order' <= ticks_from_vm_buffer[i].order
               /\ \A id \in 1 .. Len(sampled) : Recorded(id) \/ dequeue_order' <= sampled[id].order
    <3>1. /\ \A v \in VmTicks : \A id \in 1 .. Len(sampled) : sampled[v].order <= sampled[id].order
          /\ \A i \in 1 .. Len(ticks_from_vm_buffer) : dequeue_order < ticks_from_vm_buffer[i].order
          /\ \A id \in 1 .. Len(sampled) : Recorded(id) \/ dequeue_order < sampled[id].order
      BY <1>0, <1>1, <2>4 DEF ProfileInv
    <3>2. \A i \in 1 .. Len(ticks_from_vm_buffer) : ticks_from_vm_buffer[i].order \in Nat
      BY <1>0, OrdersOfTicks
    <3>3. \A x \in Nat : dequeue_order < x => dequeue_order + 1 <= x
      BY <1>2
    <3> QED
      BY <1>2, <2>2, <3>1, <3>2, <3>3
  <2> QED
    BY <1>1, <2>2, <2>3, <2>4 DEF ProfileInv
<1> QED
  BY <1>3, <1>4

LEMMA ProfileStep ==
  ASSUME IInv, Next
  PROVE  ProfileInv'
<1>0. TypeOK /\ OrdersInv /\ ProfileInv
  BY DEF IInv
<1>1. CASE NumberCodeEvent
  <2>1. /\ UNCHANGED <<sampled, recorded, ticks_from_vm_buffer, dequeue_order, draining, pc>>
        /\ enqueue_order' = enqueue_order + 1
    BY <1>1 DEF NumberCodeEvent, processorVars
  <2>2. OneProfile => (pc = "event" =>
          /\ \A id \in 1 .. Len(sampled) : Recorded(id) \/ dequeue_order < sampled[id].order
          /\ draining \/ dequeue_order < enqueue_order + 1)
    <3>1. dequeue_order \in Nat /\ enqueue_order \in Nat
      BY <1>0, Types
    <3>2. dequeue_order < enqueue_order => dequeue_order < enqueue_order + 1
      BY ONLY <3>1
    <3> QED
      BY <1>0, <3>2 DEF ProfileInv
  <2> QED
    BY <1>0, <2>1, <2>2, ProfileKept
<1>2. CASE QueueCodeEvent \/ StartSampler \/ StartProfiling \/ StopProfiling
           \/ StopSampler \/ StopProcessor \/ JoinProcessor
  <2>1. UNCHANGED <<sampled, recorded, ticks_from_vm_buffer, dequeue_order, draining, pc, enqueue_order>>
    BY <1>2 DEF QueueCodeEvent, StartSampler, StartProfiling, StopProfiling, StopSampler, StopProcessor,
                JoinProcessor, processorVars
  <2>2. OneProfile => (pc = "event" =>
          /\ \A id \in 1 .. Len(sampled) : Recorded(id) \/ dequeue_order < sampled[id].order
          /\ draining \/ dequeue_order < enqueue_order)
    BY <1>0 DEF ProfileInv
  <2> QED
    BY <1>0, <2>1, <2>2, ProfileKept
<1>3. CASE CheckRunning
  <2>1. UNCHANGED <<sampled, recorded, ticks_from_vm_buffer, dequeue_order>> /\ pc' = "vm ticks"
    BY <1>3 DEF CheckRunning, vmVars
  <2> QED
    BY <1>0, <2>1, ProfileKept
<1> QED
  BY <1>1, <1>2, <1>3, ProfileAddStack, ProfileSample, ProfileTakeVm, ProfileTake, ProfileNoTick, ProfileEvent
     DEF Next, VM, Processor

---------------------------------------------------------------------------
(* The invariant and what follows from it.                                   *)

LEMMA NewRing ==
  ASSUME NEW q, q = NewQueue(blank)
  PROVE  /\ q \in Queue(Tick) /\ q.dequeue_pos = NULL
         /\ \A T : Written(q, 0, T, 0)
         /\ ReadTo(q, FALSE, 0, 0, 0, 0)
<1>1. PICK D : D = producer_consumer_distance
  OBVIOUS
<1>2. /\ Size \in Nat \ {0} /\ D \in Nat /\ D \in ChunkStart /\ 0 \in ChunkStart /\ Position = 0 .. Size - 1
      /\ NULL = -1 /\ \A s \in ChunkStart : s \in Nat /\ s \in Position
  BY <1>1, Tiling
<1>3. /\ q.buffer = [p \in Position |-> blank] /\ q.clear = Position /\ q.enqueue_pos = 0
      /\ q.dequeue_chunk_pos = 0 /\ q.dequeue_chunk_poll_pos = D /\ q.dequeue_pos = NULL
  BY <1>1 DEF NewQueue
<1>4. blank \in Tick
  BY DEF blank, Tick
<1>5. q \in Queue(Tick)
  <2>1. [p \in Position |-> blank] \in [Position -> Tick]
    BY <1>4
  <2>2. 0 \in Position /\ D \in Position /\ 0 \in 0 .. Size
    BY <1>2
  <2> QED
    BY <1>1, <2>1, <2>2 DEF NewQueue, Queue
<1>6. ASSUME NEW T PROVE Written(q, 0, T, 0)
  <2>1. \A k \in 1 .. 0 : FALSE
    OBVIOUS
  <2>2. \A p \in 0 .. Size - 1 : q.buffer[p] = blank
    BY <1>2, <1>3
  <2> QED
    BY <1>3, <2>1, <2>2 DEF Written
<1>7. ReadInChunk(q, FALSE, 0, 0, 0)
  BY <1>2, <1>3 DEF ReadInChunk
<1>8. \A s \in ChunkStart : s \in q.clear <=> IsClear(s, q, 0, 0)
  BY <1>2, <1>3 DEF IsClear
<1>9. D - 0 \in {D, D - Size}
  BY <1>2
<1>10. ReadTo(q, FALSE, 0, 0, 0, 0)
  BY <1>1, <1>2, <1>3, <1>7, <1>8, <1>9 DEF ReadTo
<1> QED
  BY <1>3, <1>5, <1>6, <1>10

LEMMA InitInv == Init => IInv
<1> SUFFICES ASSUME Init PROVE IInv
  OBVIOUS
<1>1. /\ sampled = <<>> /\ recorded = <<>> /\ ticks_from_vm_buffer = <<>> /\ events_buffer = <<>>
      /\ ticks_buffer = NewQueue(blank)
      /\ enqueue_order = 0 /\ numbered = FALSE /\ phase = "logging" /\ profiles = 1 /\ sampling = FALSE
      /\ running = TRUE /\ pc = "loop" /\ draining = FALSE /\ dequeue_order = 0 /\ code_map = 0
  BY DEF Init
<1>2. /\ ticks_buffer \in Queue(Tick) /\ ticks_buffer.dequeue_pos = NULL
      /\ \A T : Written(ticks_buffer, 0, T, 0)
      /\ ReadTo(ticks_buffer, FALSE, 0, 0, 0, 0)
  BY <1>1, NewRing
<1>3. \A i \in 1 .. 0 : FALSE
  OBVIOUS
<1>4. Len(sampled) = 0 /\ Len(recorded) = 0 /\ Len(ticks_from_vm_buffer) = 0 /\ Len(events_buffer) = 0
  BY <1>1
<1>5. \A source : TickIds(source) = {}
  BY <1>3, <1>4 DEF TickIds
<1>6. VmTicks = {} /\ Cardinality(VmTicks) = 0
  BY <1>5, FS_EmptySet DEF VmTicks
<1>7. TypeOK
  <2>1. 0 \in 0 .. MaxEvents /\ 1 \in 0 .. MaxProfiles
    BY BoundAssumption
  <2>2. ticks_from_vm_buffer \in Seq(Tick) /\ events_buffer \in Seq(Nat)
    BY <1>1
  <2>3. sampled \in Seq([source : {"sampler", "vm"}, order : 0 .. MaxEvents])
    BY <1>1
  <2>4. recorded \in Seq([order : Nat, id : Nat, map : Nat])
    BY <1>1
  <2>5. /\ enqueue_order \in 0 .. MaxEvents /\ dequeue_order \in 0 .. MaxEvents
        /\ code_map \in 0 .. MaxEvents /\ profiles \in 0 .. MaxProfiles
    BY <1>1, <2>1
  <2>6. /\ numbered \in BOOLEAN /\ sampling \in BOOLEAN /\ running \in BOOLEAN /\ draining \in BOOLEAN
        /\ phase \in {"logging", "adding stack", "profiling", "stopping", "joining", "joined"}
        /\ pc \in {"loop", "vm ticks", "ticks", "no tick", "event", "done"}
    BY <1>1
  <2> QED
    BY <1>2, <2>2, <2>3, <2>4, <2>5, <2>6 DEF TypeOK
<1>8. ControlInv
  <2>1. 1 <= 0 + 1 /\ 0 + 1 <= MaxProfiles
    BY BoundAssumption
  <2> QED
    BY <1>1, <1>6, <2>1 DEF ControlInv, Starting
<1>9. OrdersInv
  <2>1. 0 + 0 + 0 = 0
    OBVIOUS
  <2> QED
    BY <1>1, <1>3, <1>4, <2>1 DEF OrdersInv
<1>10. SampledInv
  BY <1>1, <1>3, <1>4 DEF SampledInv
<1>11. VmInv
  BY <1>3, <1>4, <1>6 DEF VmInv
<1>12. ProfileInv
  BY <1>1, <1>3, <1>4, <1>6 DEF ProfileInv
<1>13. PICK S : S = [k \in 1 .. 0 |-> 0]
  OBVIOUS
<1>14. Taken(0, S)
  <2>1. S \in [1 .. 0 -> 1 .. 0]
    BY <1>3, <1>13
  <2>2. {S[k] : k \in 1 .. 0} = {}
    BY <1>3
  <2> QED
    BY <1>3, <1>4, <1>5, <2>1, <2>2 DEF Taken
<1>15. RecordedTo(0, S, 0)
  <2>1. FromRing(0) = {}
    BY <1>3 DEF FromRing
  <2>2. Cardinality(FromRing(0)) = 0
    BY <2>1, FS_EmptySet
  <2> QED
    BY <1>3, <1>4, <2>2 DEF RecordedTo
<1>16. NotStarted(0, 0)
  <2>1. 0 <= producer_consumer_distance
    BY Tiling
  <2> QED
    BY <1>1, <1>2, <1>3, <1>4, <2>1 DEF NotStarted
<1>17. Ring(0, S, 0, 0, 0)
  BY <1>1, <1>2, <1>14, <1>15, <1>16 DEF Ring
<1>18. RingInv
  <2>1. S \in [1 .. 0 -> 1 .. Len(sampled)] /\ 0 \in Nat
    BY <1>14 DEF Taken
  <2> QED
    BY <1>17, <2>1 DEF RingInv
<1> QED
  BY <1>7, <1>8, <1>9, <1>10, <1>11, <1>12, <1>18 DEF IInv

LEMMA IdleInv == IInv /\ UNCHANGED vars => IInv'
<1> SUFFICES ASSUME IInv, UNCHANGED vars PROVE IInv'
  OBVIOUS
<1>1. /\ UNCHANGED <<sampled, recorded, ticks_from_vm_buffer, events_buffer, ticks_buffer, enqueue_order, numbered>>
      /\ UNCHANGED <<phase, profiles, sampling, running, pc, draining, dequeue_order, code_map>>
  BY DEF vars, vmVars, processorVars
<1>2. TypeOK'
  BY <1>1 DEF IInv, TypeOK
<1>3. VmTicks' = VmTicks /\ \A id : TickOf(id)' = TickOf(id)
  BY <1>1 DEF VmTicks, TickIds, TickOf
<1>4. \A id : (Recorded(id)' <=> Recorded(id)) /\ (FromSampler(id)' <=> FromSampler(id))
  BY <1>1 DEF Recorded, FromSampler
<1>5. ControlInv'
  BY <1>1, <1>3 DEF IInv, ControlInv, Starting
<1>6. OrdersInv' /\ SampledInv'
  BY <1>1 DEF IInv, OrdersInv, SampledInv
<1>7. VmInv'
  BY <1>1, <1>3, <1>4 DEF IInv, VmInv
<1>8. RingInv'
  <2>ring. PICK n, base, m, lap \in Nat : \E S : Ring(n, S, base, m, lap)
    BY DEF IInv, RingInv
  <2>1. PICK S : Ring(n, S, base, m, lap)
    BY <2>ring
  <2>2. VmTicks = {} => NotStarted(n, m)'
    BY <1>1, <2>1 DEF Ring, NotStarted
  <2> QED
    BY <1>1, <2>1, <2>2, RingKept DEF IInv
<1>9. ProfileInv'
  <2>1. OneProfile => (pc = "event" =>
          /\ \A id \in 1 .. Len(sampled) : Recorded(id) \/ dequeue_order < sampled[id].order
          /\ draining \/ dequeue_order < enqueue_order)
    BY DEF IInv, ProfileInv
  <2> QED
    BY <1>1, <2>1, ProfileKept DEF IInv
<1> QED
  BY <1>2, <1>5, <1>6, <1>7, <1>8, <1>9 DEF IInv

LEMMA StepInv == IInv /\ [Next]_vars => IInv'
<1>1. IInv /\ Next => IInv'
  BY TypeStep, ControlStep, OrdersStep, SampledStep, VmStep, RingStep, ProfileStep DEF IInv
<1> QED
  BY <1>1, IdleInv

\* The inductive invariant: whatever the number of chunks and of records in a
\* chunk, of code events, ticks and profiles.
THEOREM ProfilerEventsInvariant == Spec => []IInv
<1>1. Init => IInv
  BY InitInv
<1>2. IInv /\ [Next]_vars => IInv'
  BY StepInv
<1> QED
  BY <1>1, <1>2, PTL DEF Spec

\* Every tick is attributed with the code map of the moment it was taken
\* (ProcessTicks, ProcessCodeEvent).
THEOREM CodeMapMatchesHolds == Spec => []CodeMapMatches
<1>1. IInv => CodeMapMatches
  BY DEF IInv, OrdersInv, CodeMapMatches
<1> QED
  BY <1>1, ProfilerEventsInvariant, PTL

\* No code event of a single profile is processed before the ticks taken
\* before it (Run, ProcessTicks).
THEOREM TicksOfOneProfileFirstHolds == Spec => []TicksOfOneProfileFirst
<1>1. IInv => TicksOfOneProfileFirst
  BY DEF IInv, ProfileInv, TicksOfOneProfileFirst, TicksBeforeNextEvent
<1> QED
  BY <1>1, ProfilerEventsInvariant, PTL

\* Run does not end before every tick of a single profile is recorded.
THEOREM AllRecordedHolds == Spec => []AllRecorded
<1>1. IInv => AllRecorded
  BY DEF IInv, ProfileInv, AllRecorded
<1> QED
  BY <1>1, ProfilerEventsInvariant, PTL

\* The ring gives the sampler's ticks in their order, none left out, and up to
\* its size once each (SamplingCircularQueue::Enqueue, StartDequeue,
\* FinishDequeue, FlushResidualRecords).
THEOREM RingKeepsTicksHolds == Spec => []RingKeepsTicks
<1>1. IInv => RingKeepsTicks
  <2> SUFFICES ASSUME IInv PROVE RingKeepsTicks
    OBVIOUS
  <2>0. TypeOK /\ VmInv
    BY DEF IInv
  <2>ring. PICK n, base, m, lap \in Nat : \E S : Ring(n, S, base, m, lap)
    BY DEF IInv, RingInv
  <2>1. PICK S : Ring(n, S, base, m, lap)
    BY <2>ring
  <2>2. Taken(n, S) /\ RecordedTo(n, S, m)
    BY <2>1 DEF Ring
  <2>3. PICK l \in Nat : l = Len(recorded)
    BY <2>0, Types
  <2>4. /\ Cardinality(TickIds("sampler")) = n
        /\ \A k \in 1 .. n : Cardinality({id \in TickIds("sampler") : id <= S[k]}) = k
    BY <2>0, <2>2, Types, TakenCounted
  <2>5. /\ \A i \in 1 .. l : Cardinality(FromRing(i)) \in Nat /\ Cardinality(FromRing(i)) <= m
        /\ \A i, j \in 1 .. l : i < j /\ FromSampler(j) => Cardinality(FromRing(i)) < Cardinality(FromRing(j))
        /\ \A i \in 1 .. l : FromSampler(i) => Cardinality(FromRing(i)) > 0
    <3>1. \A i \in 1 .. l : i \in 0 .. l
      OBVIOUS
    <3>2. Cardinality(FromRing(l)) = m
      BY <2>2, <2>3 DEF RecordedTo
    <3> QED
      BY <3>1, <3>2, RingCounted
  <2>6. \A i \in 1 .. l : FromSampler(i) /\ Cardinality(FromRing(i)) <= n =>
          Cardinality(FromRing(i)) \in 1 .. n /\ recorded[i].id = S[Cardinality(FromRing(i))]
    <3>1. \A x \in Nat : x > 0 /\ x <= n => x \in 1 .. n
      OBVIOUS
    <3> QED
      BY <2>2, <2>3, <2>5, <3>1 DEF RecordedTo
  <2>7. RecordedInOrder
    <3> SUFFICES ASSUME NEW i \in 1 .. l, FromSampler(i), Cardinality(FromRing(i)) <= n
                 PROVE  Cardinality({id \in TickIds("sampler") : id <= recorded[i].id}) = Cardinality(FromRing(i))
      BY <2>3, <2>4 DEF RecordedInOrder
    <3>1. PICK k : k = Cardinality(FromRing(i))
      OBVIOUS
    <3>2. k \in 1 .. n /\ recorded[i].id = S[k]
      BY <2>6, <3>1
    <3> QED
      BY <2>4, <3>1, <3>2
  <2>8. ASSUME n <= Size PROVE RecordedOnce
    <3>1. m <= n
      BY <2>2, <2>8 DEF RecordedTo
    <3>2. \A i \in 1 .. l : Cardinality(FromRing(i)) <= n
      BY <2>5, <3>1
    <3>3. \A k \in 1 .. n : S[k] \in Nat /\ S[k] # 0
      BY <2>2 DEF Taken
    <3>4. ASSUME NEW i \in 1 .. l PROVE recorded[i].id # 0
      <4>1. CASE FromSampler(i)
        BY <2>6, <3>2, <3>3, <4>1
      <4>2. CASE ~FromSampler(i)
        BY <4>2 DEF FromSampler
      <4> QED
        BY <4>1, <4>2
    <3>5. ASSUME NEW i \in 1 .. l, NEW j \in 1 .. l, i < j, recorded[i].id = recorded[j].id PROVE FALSE
      <4>1. CASE ~FromSampler(i)
        BY <2>0, <2>3, <3>5, <4>1 DEF VmInv
      <4>2. CASE FromSampler(i)
        <5>1. FromSampler(j)
          BY <3>5, <4>2 DEF FromSampler
        <5>2. PICK a, b : a = Cardinality(FromRing(i)) /\ b = Cardinality(FromRing(j))
          OBVIOUS
        <5>3. a \in 1 .. n /\ b \in 1 .. n /\ a < b /\ S[a] = S[b]
          BY <2>5, <2>6, <3>2, <3>5, <4>2, <5>1, <5>2
        <5>4. S[a] < S[b]
          BY <2>2, <5>3 DEF Taken
        <5> QED
          BY <3>3, <5>3, <5>4
      <4> QED
        BY <4>1, <4>2
    <3>6. \A i, j \in 1 .. l : recorded[i].id = recorded[j].id => i = j
      <4> SUFFICES ASSUME NEW i \in 1 .. l, NEW j \in 1 .. l, recorded[i].id = recorded[j].id, i # j PROVE FALSE
        OBVIOUS
      <4>1. i < j \/ j < i
        OBVIOUS
      <4> QED
        BY <3>5, <4>1
    <3> QED
      BY <2>3, <3>4, <3>6 DEF RecordedOnce
  <2> QED
    BY <2>4, <2>7, <2>8 DEF RingKeepsTicks
<1> QED
  BY <1>1, ProfilerEventsInvariant, PTL
=============================================================================
