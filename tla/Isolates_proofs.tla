-------------------------- MODULE Isolates_proofs --------------------------
(* Proofs about Isolates, for every set of threads and of isolates.          *)
EXTENDS IsolatesInv, SequenceTheorems, TLAPS

---------------------------------------------------------------------------
(* Stacks, of objects and of entries.                                       *)

\* What SequencesExt's Last and Front are of a sequence that is not empty.
LEMMA LastFront ==
  ASSUME NEW S, NEW s \in Seq(S), s # <<>>
  PROVE  /\ Len(s) \in Nat \ {0} /\ Last(s) = s[Len(s)] /\ Last(s) \in S
         /\ Front(s) \in Seq(S) /\ Len(Front(s)) = Len(s) - 1
         /\ \A k \in 1 .. Len(s) - 1 : Front(s)[k] = s[k]
<1>1. Len(s) \in Nat \ {0} /\ Last(s) = s[Len(s)] /\ Last(s) \in S
  BY EmptySeq DEF Last
<1>2. Front(s) = SubSeq(s, 1, Len(s) - 1)
  BY DEF Front
<1>3. \A k \in 1 .. Len(s) - 1 : s[k] \in S
  BY ElementOfSeq
<1> DEFINE n == Len(s) - 1
<1>4. n \in Nat /\ Len(s) = n + 1
  BY <1>1
<1> HIDE DEF n
<1>5. /\ SubSeq(s, 1, n) \in Seq(S) /\ Len(SubSeq(s, 1, n)) = n
      /\ \A k \in 1 .. n : SubSeq(s, 1, n)[k] = s[k]
  BY <1>3, <1>4 DEF n
<1>6. Front(s) = SubSeq(s, 1, n)
  BY <1>2 DEF n
<1>7. /\ Front(s) \in Seq(S) /\ Len(Front(s)) = n
      /\ \A k \in 1 .. n : Front(s)[k] = s[k]
  BY <1>5, <1>6
<1> QED
  BY <1>1, <1>7 DEF n

\* What Push does to the objects of the threads.
LEMMA PushAppends ==
  ASSUME EntryTypes, NEW t \in Thread, NEW kind, NEW i \in Isolate, NEW b, Push(t, kind, i, b)
  PROVE  /\ \A u \in Thread \ {t} : frames'[u] = frames[u]
         /\ Len(frames'[t]) = Len(frames[t]) + 1
         /\ \A n \in 1 .. Len(frames[t]) : frames'[t][n] = frames[t][n]
         /\ LET f == frames'[t][Len(frames[t]) + 1]
            IN  f.kind = kind /\ f.isolate = i /\ f.before = current[t]
<1>1. frames[t] \in Seq(Frame) /\ frames \in [Thread -> Seq(Frame)]
  BY DEF EntryTypes
<1> QED
  BY <1>1 DEF Push

\* What Pop does to them.
LEMMA PopTakesLast ==
  ASSUME EntryTypes, NEW t \in Thread, frames[t] # <<>>, Pop(t)
  PROVE  /\ \A u \in Thread \ {t} : frames'[u] = frames[u]
         /\ Len(frames[t]) \in Nat \ {0} /\ Top(t) = frames[t][Len(frames[t])]
         /\ Len(frames'[t]) = Len(frames[t]) - 1
         /\ \A n \in 1 .. Len(frames[t]) - 1 : frames'[t][n] = frames[t][n]
<1>1. frames[t] \in Seq(Frame) /\ frames \in [Thread -> Seq(Frame)]
  BY DEF EntryTypes
<1>2. frames'[t] = Front(frames[t]) /\ \A u \in Thread \ {t} : frames'[u] = frames[u]
  BY <1>1 DEF Pop
<1>3. /\ Len(frames[t]) \in Nat \ {0} /\ Last(frames[t]) = frames[t][Len(frames[t])]
      /\ Len(Front(frames[t])) = Len(frames[t]) - 1
      /\ \A n \in 1 .. Len(frames[t]) - 1 : Front(frames[t])[n] = frames[t][n]
  BY <1>1, LastFront, Zenon
<1> QED
  BY <1>1, <1>2, <1>3 DEF Top

---------------------------------------------------------------------------
(* What Enter and Exit do to the entries of an isolate.                     *)

\* The entry that Enter pushes.
NewEntry(t, slot) ==
  [count |-> 1, data |-> data[t],
   isolate |-> IF data[t] # NoData THEN data[t].isolate ELSE slot[t]]

\* Entering the isolate that the thread is in is counted by the top entry.
LEMMA EnterCounts ==
  ASSUME EntryTypes, NEW t \in Thread, NEW i \in Isolate, NEW slot,
         IsEntered(t, i), entryStack[i] # <<>>, Enter(t, i, slot)
  PROVE  LET E == entryStack[i]
             F == entryStack'[i]
         IN  /\ \A j \in Isolate \ {i} : entryStack'[j] = entryStack[j]
             /\ Len(E) \in Nat \ {0} /\ Len(F) = Len(E)
             /\ \A k \in 1 .. Len(E) - 1 : F[k] = E[k]
             /\ E[Len(E)] \in EntryStackItem /\ F[Len(E)] = [E[Len(E)] EXCEPT !.count = @ + 1]
             /\ current' = slot /\ data' = data /\ entryStack' \in [Isolate -> Seq(EntryStackItem)]
<1> DEFINE E == entryStack[i]
           e == [E[Len(E)] EXCEPT !.count = @ + 1]
<1>1. entryStack \in [Isolate -> Seq(EntryStackItem)] /\ E \in Seq(EntryStackItem)
  BY DEF EntryTypes
<1>2. Len(E) \in Nat \ {0} /\ E[Len(E)] \in EntryStackItem
  BY <1>1, EmptySeq, ElementOfSeq
<1>3. e \in EntryStackItem
  BY <1>2 DEF EntryStackItem
<1>4. entryStack' = [entryStack EXCEPT ![i] = [E EXCEPT ![Len(E)] = e]] /\ current' = slot /\ data' = data
  BY DEF Enter
<1>5. /\ [E EXCEPT ![Len(E)] = e] \in Seq(EntryStackItem)
      /\ Len([E EXCEPT ![Len(E)] = e]) = Len(E)
      /\ \A k \in 1 .. Len(E) : [E EXCEPT ![Len(E)] = e][k] = IF k = Len(E) THEN e ELSE E[k]
  <2>1. Len(E) \in 1 .. Len(E)
    BY <1>2
  <2> HIDE DEF e, E
  <2> QED
    BY <1>1, <1>3, <2>1, ExceptSeq
<1>6. entryStack'[i] = [E EXCEPT ![Len(E)] = e]
  BY <1>1, <1>4
<1>7. \A j \in Isolate \ {i} : entryStack'[j] = entryStack[j]
  BY <1>1, <1>4
<1>8. entryStack' \in [Isolate -> Seq(EntryStackItem)]
  <2> HIDE DEF e, E
  <2> QED
    BY <1>1, <1>4, <1>5
<1>9. \A k \in 1 .. Len(E) - 1 : entryStack'[i][k] = E[k]
  BY <1>2, <1>5, <1>6
<1>10. entryStack'[i][Len(E)] = e /\ Len(entryStack'[i]) = Len(E)
  BY <1>2, <1>5, <1>6
<1> QED
  BY <1>2, <1>4, <1>7, <1>8, <1>9, <1>10

Pushed(t, i, slot) ==
  LET E == entryStack[i]
      F == entryStack'[i]
  IN  /\ \A j \in Isolate \ {i} : entryStack'[j] = entryStack[j]
      /\ Len(F) = Len(E) + 1 /\ Len(E) \in Nat
      /\ \A k \in 1 .. Len(E) : F[k] = E[k]
      /\ F[Len(E) + 1] = NewEntry(t, slot)
      /\ NewEntry(t, slot) \in EntryStackItem
      /\ current' = [slot EXCEPT ![t] = i]
      /\ data' = [data EXCEPT ![t] = [isolate |-> i, thread |-> t]]
      /\ entryStack' \in [Isolate -> Seq(EntryStackItem)]

\* Entering another isolate pushes an entry that says what to restore.
LEMMA EnterPushes ==
  ASSUME EntryTypes, NEW t \in Thread, NEW i \in Isolate,
         NEW slot \in [Thread -> Isolate \cup {NoIsolate}],
         ~IsEntered(t, i), Enter(t, i, slot)
  PROVE  Pushed(t, i, slot)
<1> DEFINE E == entryStack[i]
           e == NewEntry(t, slot)
<1>1. entryStack \in [Isolate -> Seq(EntryStackItem)] /\ E \in Seq(EntryStackItem)
  BY DEF EntryTypes
<1>2. e \in EntryStackItem
  <2>1. data[t] \in ThreadData /\ slot[t] \in Isolate \cup {NoIsolate}
    BY DEF EntryTypes
  <2>2. data[t].isolate \in Isolate \cup {NoIsolate}
    BY <2>1 DEF ThreadData, NoData
  <2> QED
    BY <2>1, <2>2 DEF EntryStackItem, NewEntry
<1>3. /\ entryStack' = [entryStack EXCEPT ![i] = Append(E, e)]
      /\ current' = [slot EXCEPT ![t] = i]
      /\ data' = [data EXCEPT ![t] = [isolate |-> i, thread |-> t]]
  BY DEF Enter, NewEntry
<1> HIDE DEF e
<1>4. entryStack'[i] = Append(E, e) /\ \A j \in Isolate \ {i} : entryStack'[j] = entryStack[j]
  BY <1>1, <1>3
<1>5. Append(E, e) \in Seq(EntryStackItem)
  BY <1>1, <1>2
<1>6. /\ Len(Append(E, e)) = Len(E) + 1 /\ Len(E) \in Nat
      /\ \A k \in 1 .. Len(E) : Append(E, e)[k] = E[k]
      /\ Append(E, e)[Len(E) + 1] = e
  BY <1>1, <1>2
<1>7. entryStack' \in [Isolate -> Seq(EntryStackItem)]
  BY <1>1, <1>3, <1>5
<1> QED
  BY <1>2, <1>3, <1>4, <1>6, <1>7 DEF e, Pushed

\* Exit of an isolate that was entered more than once in a row.
LEMMA ExitCounts ==
  ASSUME EntryTypes, NEW t \in Thread, NEW i \in Isolate, Exit(t, i), Last(entryStack[i]).count > 1
  PROVE  LET E == entryStack[i]
             F == entryStack'[i]
         IN  /\ \A j \in Isolate \ {i} : entryStack'[j] = entryStack[j]
             /\ Len(E) \in Nat \ {0} /\ Len(F) = Len(E)
             /\ \A k \in 1 .. Len(E) - 1 : F[k] = E[k]
             /\ E[Len(E)] \in EntryStackItem /\ F[Len(E)] = [E[Len(E)] EXCEPT !.count = @ - 1]
             /\ E[Len(E)].count > 1
             /\ current' = current /\ data' = data
             /\ entryStack' \in [Isolate -> Seq(EntryStackItem)]
<1> DEFINE E == entryStack[i]
           e == [E[Len(E)] EXCEPT !.count = @ - 1]
<1>1. entryStack \in [Isolate -> Seq(EntryStackItem)] /\ E \in Seq(EntryStackItem) /\ E # <<>>
  BY DEF EntryTypes, Exit, IsInUse
<1>2. Len(E) \in Nat \ {0} /\ E[Len(E)] \in EntryStackItem /\ Last(E) = E[Len(E)]
  BY <1>1, LastFront, Zenon
<1>3. e \in EntryStackItem /\ E[Len(E)].count > 1
  BY <1>2 DEF EntryStackItem
<1>4. entryStack' = [entryStack EXCEPT ![i] = [E EXCEPT ![Len(E)] = e]] /\ current' = current /\ data' = data
  BY <1>2 DEF Exit
<1>5. /\ [E EXCEPT ![Len(E)] = e] \in Seq(EntryStackItem)
      /\ Len([E EXCEPT ![Len(E)] = e]) = Len(E)
      /\ \A k \in 1 .. Len(E) : [E EXCEPT ![Len(E)] = e][k] = IF k = Len(E) THEN e ELSE E[k]
  <2>1. Len(E) \in 1 .. Len(E)
    BY <1>2
  <2> HIDE DEF e, E
  <2> QED
    BY <1>1, <1>3, <2>1, ExceptSeq
<1>6. entryStack'[i] = [E EXCEPT ![Len(E)] = e]
  BY <1>1, <1>4
<1>7. \A j \in Isolate \ {i} : entryStack'[j] = entryStack[j]
  BY <1>1, <1>4
<1>8. entryStack' \in [Isolate -> Seq(EntryStackItem)]
  <2> HIDE DEF e, E
  <2> QED
    BY <1>1, <1>4, <1>5
<1>9. \A k \in 1 .. Len(E) - 1 : entryStack'[i][k] = E[k]
  BY <1>2, <1>5, <1>6
<1>10. entryStack'[i][Len(E)] = e /\ Len(entryStack'[i]) = Len(E)
  BY <1>2, <1>5, <1>6
<1> QED
  BY <1>2, <1>3, <1>4, <1>7, <1>8, <1>9, <1>10

\* The last Exit takes the top entry and restores what it says.
LEMMA ExitPops ==
  ASSUME EntryTypes, NEW t \in Thread, NEW i \in Isolate, Exit(t, i), ~(Last(entryStack[i]).count > 1)
  PROVE  LET E == entryStack[i]
             F == entryStack'[i]
         IN  /\ \A j \in Isolate \ {i} : entryStack'[j] = entryStack[j]
             /\ Len(E) \in Nat \ {0} /\ Len(F) = Len(E) - 1
             /\ \A k \in 1 .. Len(E) - 1 : F[k] = E[k]
             /\ E[Len(E)] \in EntryStackItem /\ ~(E[Len(E)].count > 1)
             /\ current' = [current EXCEPT ![t] = E[Len(E)].isolate]
             /\ data' = [data EXCEPT ![t] = E[Len(E)].data]
             /\ entryStack' \in [Isolate -> Seq(EntryStackItem)]
<1> DEFINE E == entryStack[i]
<1>1. entryStack \in [Isolate -> Seq(EntryStackItem)] /\ E \in Seq(EntryStackItem) /\ E # <<>>
  BY DEF EntryTypes, Exit, IsInUse
<1>2. /\ Len(E) \in Nat \ {0} /\ Last(E) = E[Len(E)] /\ E[Len(E)] \in EntryStackItem
      /\ Front(E) \in Seq(EntryStackItem) /\ Len(Front(E)) = Len(E) - 1
      /\ \A k \in 1 .. Len(E) - 1 : Front(E)[k] = E[k]
  BY <1>1, LastFront
<1>3. /\ entryStack' = [entryStack EXCEPT ![i] = Front(E)]
      /\ current' = [current EXCEPT ![t] = E[Len(E)].isolate]
      /\ data' = [data EXCEPT ![t] = E[Len(E)].data]
  BY <1>2 DEF Exit
<1>4. entryStack'[i] = Front(E) /\ \A j \in Isolate \ {i} : entryStack'[j] = entryStack[j]
  BY <1>1, <1>3
<1>5. entryStack' \in [Isolate -> Seq(EntryStackItem)]
  BY <1>1, <1>2, <1>3
<1> QED
  BY <1>2, <1>3, <1>4, <1>5

---------------------------------------------------------------------------
(* How Entries follows the objects of a thread.                             *)

LEMMA Separate ==
  /\ \A t \in Thread : t # NoThread
  /\ \A i \in Isolate : i # NoIsolate
  /\ default_isolate \in Isolate
BY IsolateAssumption

\* The objects up to the m-th stay and what follows is not in j, before or after.
Untouched(t, j, m) ==
  /\ entryStack'[j] = entryStack[j]
  /\ (t \in auto') = (t \in auto)
  /\ m \in 0 .. Len(frames[t]) /\ m \in 0 .. Len(frames'[t])
  /\ \A n \in 1 .. m : frames'[t][n] = frames[t][n]
  /\ \A n \in m + 1 .. Len(frames[t]) : frames[t][n].isolate # j
  /\ \A n \in m + 1 .. Len(frames'[t]) : frames'[t][n].isolate # j

LEMMA EntryLists ==
  ASSUME EntryTypes, NEW j \in Isolate
  PROVE  /\ entryStack[j] \in Seq(EntryStackItem) /\ Len(entryStack[j]) \in Nat
         /\ entryStack[j] # <<>> => Len(entryStack[j]) \in Nat \ {0}
         /\ entryStack[j] = <<>> => Len(entryStack[j]) = 0
         /\ \A k \in 1 .. Len(entryStack[j]) :
              entryStack[j][k] \in EntryStackItem /\ entryStack[j][k].count \in Nat
<1>1. entryStack[j] \in Seq(EntryStackItem)
  BY DEF EntryTypes
<1>2. \A k \in 1 .. Len(entryStack[j]) : entryStack[j][k] \in EntryStackItem
  BY <1>1, ElementOfSeq
<1>3. \A e \in EntryStackItem : e.count \in Nat
  BY DEF EntryStackItem
<1> QED
  BY <1>1, <1>2, <1>3, EmptySeq

\* The stack of objects of a thread.
LEMMA FrameLists ==
  ASSUME EntryTypes, NEW t \in Thread
  PROVE  /\ frames[t] \in Seq(Frame) /\ Len(frames[t]) \in Nat
         /\ frames[t] # <<>> => Len(frames[t]) \in Nat \ {0}
         /\ frames[t] = <<>> => Len(frames[t]) = 0
         /\ \A n \in 1 .. Len(frames[t]) : frames[t][n] \in Frame /\ frames[t][n].isolate \in Isolate
<1>1. frames[t] \in Seq(Frame)
  BY DEF EntryTypes
<1>2. \A n \in 1 .. Len(frames[t]) : frames[t][n] \in Frame
  BY <1>1, ElementOfSeq
<1>3. \A f \in Frame : f.isolate \in Isolate
  BY DEF Frame
<1> QED
  BY <1>1, <1>2, <1>3, EmptySeq

LEMMA LevelsKept ==
  ASSUME NEW t \in Thread, NEW m \in Nat, (t \in auto') = (t \in auto),
         \A n \in 1 .. m : frames'[t][n] = frames[t][n]
  PROVE  \A n \in 0 .. m : InAt(t, n)' = InAt(t, n) /\ DataAt(t, n)' = DataAt(t, n)
<1> TAKE n \in 0 .. m
<1>1. InAt(t, n)' = InAt(t, n)
  BY DEF InAt
<1> QED
  BY <1>1 DEF DataAt

\* The entries of an isolate that the thread neither enters nor exits.
LEMMA EntriesKept ==
  ASSUME EntryTypes, NEW t \in Thread, NEW j \in Isolate, EntriesOf(t, j),
         NEW m, Untouched(t, j, m)
  PROVE  EntriesOf(t, j)'
<1> DEFINE E == entryStack[j]
           len == Len(frames[t])
<1>1. E \in Seq(EntryStackItem) /\ Len(E) \in Nat /\ len \in Nat /\ m \in Nat /\ m <= len
      /\ \A k \in 1 .. Len(E) : E[k].count \in Nat
  BY EntryLists, FrameLists DEF Untouched
<1>2. PICK start \in [1 .. Len(E) -> 0 .. len] : Entries(t, j, start)
  BY DEF EntriesOf
<1>3. \A n \in 0 .. m : InAt(t, n)' = InAt(t, n) /\ DataAt(t, n)' = DataAt(t, n)
  BY <1>1, LevelsKept DEF Untouched
<1>4. \A n \in 0 .. len : InAt(t, n) = j => n <= m
  BY <1>1 DEF Untouched, InAt
<1>5. \A n \in 0 .. Len(frames'[t]) : InAt(t, n)' = j => n <= m
  BY <1>1 DEF Untouched, InAt
<1>6. ASSUME NEW k \in 1 .. Len(E)
      PROVE  /\ E[k].count > 0 /\ start[k] + E[k].count <= m + 1 /\ start[k] \in 0 .. m
             /\ \A n \in start[k] .. start[k] + E[k].count - 1 : n \in 0 .. m /\ InAt(t, n) = j
  <2>1. /\ E[k].count > 0 /\ start[k] + E[k].count <= len + 1 /\ start[k] \in 0 .. len
        /\ \A n \in start[k] .. start[k] + E[k].count - 1 : InAt(t, n) = j
    BY <1>2 DEF Entries
  <2>2. start[k] + E[k].count - 1 \in 0 .. len /\ InAt(t, start[k] + E[k].count - 1) = j
    BY <1>1, <2>1
  <2>3. start[k] + E[k].count - 1 <= m
    BY <1>4, <2>2
  <2> QED
    BY <1>1, <2>1, <2>3
<1>7. entryStack'[j] = E /\ m \in 0 .. Len(frames'[t])
  BY DEF Untouched
<1>8. start \in [1 .. Len(E) -> 0 .. Len(frames'[t])]
  BY <1>1, <1>2, <1>6, <1>7
<1>9. ASSUME NEW k \in 1 .. Len(E)
      PROVE  /\ E[k].count > 0 /\ start[k] + E[k].count <= Len(frames'[t]) + 1
             /\ \A n \in start[k] .. start[k] + E[k].count - 1 : InAt(t, n)' = j
             /\ start[k] > 0 => InAt(t, start[k] - 1)' # j
             /\ k < Len(E) => start[k] + E[k].count < start[k + 1]
             /\ E[k].isolate = IF start[k] = 0 THEN default_isolate ELSE frames'[t][start[k]].before
             /\ E[k].data = IF start[k] = 0 THEN NoData ELSE DataAt(t, start[k] - 1)'
  <2>1. E[k].count > 0 /\ start[k] + E[k].count <= Len(frames'[t]) + 1
    BY <1>1, <1>6, <1>7
  <2>2. \A n \in start[k] .. start[k] + E[k].count - 1 : InAt(t, n)' = j
    BY <1>3, <1>6
  <2>3. start[k] > 0 => /\ InAt(t, start[k] - 1)' = InAt(t, start[k] - 1)
                        /\ DataAt(t, start[k] - 1)' = DataAt(t, start[k] - 1)
                        /\ frames'[t][start[k]] = frames[t][start[k]]
    BY <1>1, <1>3, <1>6 DEF Untouched
  <2>4. /\ start[k] > 0 => InAt(t, start[k] - 1) # j
        /\ k < Len(E) => start[k] + E[k].count < start[k + 1]
        /\ E[k].isolate = IF start[k] = 0 THEN default_isolate ELSE frames[t][start[k]].before
        /\ E[k].data = IF start[k] = 0 THEN NoData ELSE DataAt(t, start[k] - 1)
    BY <1>2 DEF Entries
  <2>5. start[k] \in Nat
    BY <1>6
  <2> QED
    BY <2>1, <2>2, <2>3, <2>4, <2>5
<1>10. ASSUME NEW n \in 0 .. Len(frames'[t]), InAt(t, n)' = j
       PROVE  \E k \in 1 .. Len(E) : n \in start[k] .. start[k] + E[k].count - 1
  <2>1. n \in 0 .. m /\ n \in 0 .. len /\ InAt(t, n) = j
    BY <1>1, <1>3, <1>5, <1>10
  <2> QED
    BY <1>2, <2>1 DEF Entries
<1>11. Entries(t, j, start)'
  BY <1>7, <1>8, <1>9, <1>10 DEF Entries
<1> QED
  BY <1>7, <1>8, <1>11 DEF EntriesOf

\* An isolate has entries of a thread exactly if the thread is in it somewhere.
LEMMA NoEntries ==
  ASSUME EntryTypes, NEW t \in Thread, NEW j \in Isolate
  PROVE  (\A n \in 0 .. Len(frames[t]) : InAt(t, n) # j) =>
           (EntriesOf(t, j) <=> entryStack[j] = <<>>)
<1> DEFINE E == entryStack[j]
           len == Len(frames[t])
<1> HAVE \A n \in 0 .. len : InAt(t, n) # j
<1>1. E \in Seq(EntryStackItem) /\ Len(E) \in Nat /\ len \in Nat
      /\ (E # <<>> => Len(E) \in Nat \ {0})
      /\ \A k \in 1 .. Len(E) : E[k].count \in Nat
  BY EntryLists, FrameLists
<1>2. ASSUME NEW start, Entries(t, j, start), E # <<>> PROVE FALSE
  <2>1. start[1] \in 0 .. len /\ E[1].count > 0 /\ E[1].count \in Nat
        /\ \A n \in start[1] .. start[1] + E[1].count - 1 : InAt(t, n) = j
    BY <1>1, <1>2 DEF Entries
  <2>2. start[1] \in start[1] .. start[1] + E[1].count - 1
    BY <2>1
  <2> QED
    BY <2>1, <2>2
<1>3. ASSUME E = <<>> PROVE EntriesOf(t, j)
  <2>1. Len(E) = 0 /\ 1 .. Len(E) = {}
    BY <1>3
  <2> DEFINE start == [k \in 1 .. Len(E) |-> 0]
  <2>2. start \in [1 .. Len(E) -> 0 .. len]
    BY <1>1
  <2>3. Entries(t, j, start)
    BY <2>1, <2>2 DEF Entries
  <2> QED
    BY <2>2, <2>3 DEF EntriesOf
<1> QED
  BY <1>2, <1>3 DEF EntriesOf

---------------------------------------------------------------------------
(* Entering and exiting an isolate whose entries are those of the thread.   *)

\* What SlotInv says of the slots of one thread.
LEMMA SlotMeaning ==
  ASSUME EntryTypes, SlotInv, NEW t \in Thread
  PROVE  LET in == InAt(t, Len(frames[t]))
         IN  /\ \A i \in Isolate : IsEntered(t, i) <=> in = i
             /\ data[t] # NoData => in \in Isolate /\ data[t].isolate = in /\ current[t] = in
             /\ data[t] = NoData => /\ frames[t] = <<>> /\ t \notin auto /\ in = NoIsolate
                                    /\ current[t] \in {NoIsolate, default_isolate}
<1> DEFINE in == InAt(t, Len(frames[t]))
<1>1. data[t] = DataAt(t, Len(frames[t])) /\ current[t] \in SlotFor(in)
  BY DEF SlotInv, SlotOK
<1>2. in \in Isolate \cup {NoIsolate}
  BY FrameLists, Separate DEF InAt
<1>3. CASE in = NoIsolate
  <2>1. data[t] = NoData /\ current[t] \in {NoIsolate, default_isolate}
    BY <1>1, <1>3 DEF DataAt, SlotFor
  <2>2. frames[t] = <<>> /\ t \notin auto
    BY <1>3, FrameLists, Separate DEF InAt
  <2> QED
    BY <1>3, <2>1, <2>2, Separate DEF IsEntered
<1>4. CASE in # NoIsolate
  <2>1. data[t] = [isolate |-> in, thread |-> t] /\ current[t] = in
    BY <1>1, <1>4 DEF DataAt, SlotFor
  <2>2. data[t] # NoData
    BY <1>4, <2>1 DEF NoData
  <2> QED
    BY <1>2, <1>4, <2>1, <2>2 DEF IsEntered
<1> QED
  BY <1>3, <1>4

\* The top entry is the one for the isolate that the thread is in.
LEMMA TopEntry ==
  ASSUME EntryTypes, NEW t \in Thread, NEW i \in Isolate, NEW start,
         Entries(t, i, start), InAt(t, Len(frames[t])) = i
  PROVE  LET K == Len(entryStack[i])
         IN  /\ K \in Nat \ {0} /\ start[K] \in 0 .. Len(frames[t])
             /\ entryStack[i][K].count \in Nat \ {0}
             /\ start[K] + entryStack[i][K].count = Len(frames[t]) + 1
<1> DEFINE E == entryStack[i]
           K == Len(E)
           len == Len(frames[t])
<1>1. K \in Nat /\ len \in Nat /\ \A k \in 1 .. K : E[k].count \in Nat
  BY EntryLists, FrameLists
<1>2. PICK k \in 1 .. K : len \in start[k] .. start[k] + E[k].count - 1
  BY <1>1 DEF Entries
<1>3. \A h \in 1 .. K : start[h] \in 0 .. len
  BY DEF Entries
<1>4. /\ E[k].count > 0 /\ start[k] + E[k].count <= len + 1
      /\ k < K => start[k] + E[k].count < start[k + 1]
  BY DEF Entries
<1> HIDE DEF E, K, len
<1>5. k = K
  <2> SUFFICES ASSUME k < K PROVE FALSE
    BY <1>1
  <2>1. start[k + 1] \in 0 .. len
    BY <1>1, <1>3
  <2> QED
    BY <1>1, <1>2, <1>3, <1>4, <2>1
<1>6. /\ K \in Nat \ {0} /\ start[K] \in 0 .. len /\ E[K].count \in Nat \ {0}
      /\ start[K] + E[K].count = len + 1
  BY <1>1, <1>2, <1>3, <1>4, <1>5
<1> QED
  BY <1>6 DEF E, K, len

\* What Entries says of one entry, without its last part.
EntryOK(t, i, start, k, e) ==
  /\ start[k] > 0 => InAt(t, start[k] - 1) # i
  /\ e.isolate = IF start[k] = 0 THEN default_isolate ELSE frames[t][start[k]].before
  /\ e.data = IF start[k] = 0 THEN NoData ELSE DataAt(t, start[k] - 1)

\* Entries in parts that the provers can use one at a time.
LEMMA EntriesParts ==
  ASSUME EntryTypes, NEW t \in Thread, NEW i \in Isolate, NEW start, Entries(t, i, start)
  PROVE  LET E == entryStack[i]
             K == Len(E)
             len == Len(frames[t])
         IN  /\ K \in Nat /\ len \in Nat /\ start \in [1 .. K -> 0 .. len]
             /\ \A k \in 1 .. K : E[k].count \in Nat /\ E[k].count > 0 /\ start[k] + E[k].count <= len + 1
             /\ \A k \in 1 .. K : k < K => start[k] + E[k].count < start[k + 1]
             /\ \A k \in 1 .. K : \A n \in start[k] .. start[k] + E[k].count - 1 : InAt(t, n) = i
             /\ \A k \in 1 .. K : EntryOK(t, i, start, k, E[k])
             /\ \A n \in 0 .. len : InAt(t, n) = i =>
                  \E k \in 1 .. K : n \in start[k] .. start[k] + E[k].count - 1
<1>1. /\ Len(entryStack[i]) \in Nat /\ Len(frames[t]) \in Nat
      /\ \A k \in 1 .. Len(entryStack[i]) : entryStack[i][k].count \in Nat
  BY EntryLists, FrameLists
<1> QED
  BY <1>1 DEF Entries, EntryOK

\* The converse, for the next state.
LEMMA EntriesFromParts ==
  ASSUME NEW t \in Thread, NEW i \in Isolate, NEW F, NEW K, NEW len, NEW S,
         F = entryStack'[i], K = Len(F), len = Len(frames'[t]),
         S \in [1 .. K -> 0 .. len],
         \A k \in 1 .. K : F[k].count > 0 /\ S[k] + F[k].count <= len + 1,
         \A k \in 1 .. K : k < K => S[k] + F[k].count < S[k + 1],
         \A k \in 1 .. K : \A n \in S[k] .. S[k] + F[k].count - 1 : InAt(t, n)' = i,
         \A k \in 1 .. K : EntryOK(t, i, S, k, F[k])',
         \A n \in 0 .. len : InAt(t, n)' = i =>
           \E k \in 1 .. K : n \in S[k] .. S[k] + F[k].count - 1
  PROVE  EntriesOf(t, i)'
<1>1. Entries(t, i, S)'
  BY DEF Entries, EntryOK
<1> QED
  BY <1>1 DEF EntriesOf

\* An entry stays right while the objects up to its own stay.
LEMMA EntryKept ==
  ASSUME EntryTypes, NEW t \in Thread, NEW i \in Isolate, NEW m \in Nat, NEW start, NEW k, NEW e,
         start[k] \in 0 .. m, EntryOK(t, i, start, k, e),
         (t \in auto') = (t \in auto), \A n \in 1 .. m : frames'[t][n] = frames[t][n],
         NEW S, NEW f, S[k] = start[k], f.isolate = e.isolate, f.data = e.data
  PROVE  EntryOK(t, i, S, k, f)'
<1>1. start[k] > 0 => /\ InAt(t, start[k] - 1)' = InAt(t, start[k] - 1)
                      /\ DataAt(t, start[k] - 1)' = DataAt(t, start[k] - 1)
                      /\ frames'[t][start[k]] = frames[t][start[k]]
  BY LevelsKept
<1>2. start[k] \in Nat
  OBVIOUS
<1> QED
  BY <1>1, <1>2 DEF EntryOK

\* The objects that an entry counts, when it counts one more.
LEMMA OneMore ==
  ASSUME NEW s \in Nat, NEW c \in Nat, NEW l \in Nat, s + c = l + 1,
         NEW n \in s .. s + (c + 1) - 1
  PROVE  n \in s .. s + c - 1 \/ n = l + 1
OBVIOUS

\* And when it counts more, and where they are on the stack.
LEMMA InCount ==
  ASSUME NEW s \in Nat, NEW c \in Nat, NEW n \in s .. s + c - 1
  PROVE  /\ \A d \in Nat : d >= c => n \in s .. s + d - 1
         /\ \A l \in Nat : s + c <= l + 1 => n \in 0 .. l
OBVIOUS

\* And when it counts one less.
LEMMA OneLess ==
  ASSUME NEW s \in Nat, NEW c \in Nat, NEW d, NEW l \in Nat, s + c = l + 1, c > 1, d = c - 1
  PROVE  s \in 0 .. l - 1 /\ d \in Nat /\ d > 0 /\ s + d <= l /\ d <= c
OBVIOUS

\* Entering the isolate that the thread is in.
LEMMA EntriesCountUp ==
  ASSUME EntryTypes, SlotInv, NEW t \in Thread, NEW i \in Isolate, EntriesOf(t, i), IsEntered(t, i),
         Push(t, "Scope", i, FALSE), Enter(t, i, current), auto' = auto
  PROVE  /\ EntriesOf(t, i)'
         /\ \A j \in Isolate \ {i} : entryStack'[j] = entryStack[j]
         /\ entryStack' \in [Isolate -> Seq(EntryStackItem)]
         /\ current' = current /\ data' = data
<1> SUFFICES ASSUME NEW E, E = entryStack[i], NEW F, F = entryStack'[i],
                    NEW K, K = Len(E), NEW len, len = Len(frames[t])
             PROVE  /\ EntriesOf(t, i)'
                    /\ \A j \in Isolate \ {i} : entryStack'[j] = entryStack[j]
                    /\ entryStack' \in [Isolate -> Seq(EntryStackItem)]
                    /\ current' = current /\ data' = data
  OBVIOUS
<1>1. PICK start : Entries(t, i, start)
  BY DEF EntriesOf
<1>2. /\ K \in Nat /\ len \in Nat /\ start \in [1 .. K -> 0 .. len]
      /\ \A k \in 1 .. K : E[k].count \in Nat /\ E[k].count > 0 /\ start[k] + E[k].count <= len + 1
      /\ \A k \in 1 .. K : k < K => start[k] + E[k].count < start[k + 1]
  BY <1>1, EntriesParts
<1>3. /\ \A k \in 1 .. K : \A n \in start[k] .. start[k] + E[k].count - 1 : InAt(t, n) = i
      /\ \A k \in 1 .. K : EntryOK(t, i, start, k, E[k])
      /\ \A n \in 0 .. len : InAt(t, n) = i =>
           \E k \in 1 .. K : n \in start[k] .. start[k] + E[k].count - 1
  BY <1>1, EntriesParts
<1>4. /\ Len(frames'[t]) = len + 1
      /\ \A n \in 1 .. len : frames'[t][n] = frames[t][n]
      /\ frames'[t][len + 1].isolate = i
  BY PushAppends, Zenon
<1>5. \A n \in 0 .. len : InAt(t, n)' = InAt(t, n)
  BY <1>2, <1>4, LevelsKept
<1>6. InAt(t, len + 1)' = i
  BY <1>2, <1>4 DEF InAt
<1>7. InAt(t, len) = i
  BY SlotMeaning
<1>8. K \in Nat \ {0} /\ start[K] + E[K].count = len + 1
  BY <1>1, <1>7, TopEntry
<1>9. E # <<>>
  BY <1>8, EntryLists
<1>10. /\ \A j \in Isolate \ {i} : entryStack'[j] = entryStack[j]
       /\ Len(F) = K /\ \A k \in 1 .. K - 1 : F[k] = E[k]
       /\ E[K] \in EntryStackItem /\ F[K] = [E[K] EXCEPT !.count = @ + 1]
       /\ current' = current /\ data' = data /\ entryStack' \in [Isolate -> Seq(EntryStackItem)]
  BY <1>9, EnterCounts
<1>11. F[K].count = E[K].count + 1 /\ F[K].isolate = E[K].isolate /\ F[K].data = E[K].data
  BY <1>10 DEF EntryStackItem
<1>12. \A k \in 1 .. K : k = K \/ F[k] = E[k]
  BY <1>8, <1>10
<1>13. \A k \in 1 .. K : /\ F[k].isolate = E[k].isolate /\ F[k].data = E[k].data
                         /\ F[k].count \in Nat /\ F[k].count >= E[k].count
                         /\ k # K => F[k].count = E[k].count
  BY <1>2, <1>11, <1>12
<1>14. start \in [1 .. K -> 0 .. len + 1]
  BY <1>2
<1>15. ASSUME NEW k \in 1 .. K PROVE F[k].count > 0 /\ start[k] + F[k].count <= len + 1 + 1
  <2>1. start[k] \in 0 .. len /\ E[k].count \in Nat /\ E[k].count > 0 /\ start[k] + E[k].count <= len + 1
    BY <1>2
  <2>2. CASE k = K
    BY <1>2, <1>8, <1>11, <2>1, <2>2
  <2>3. CASE k # K
    BY <1>2, <1>13, <2>1, <2>3
  <2> QED
    BY <2>2, <2>3
<1>16. ASSUME NEW k \in 1 .. K, k < K PROVE start[k] + F[k].count < start[k + 1]
  <2>1. F[k].count = E[k].count
    BY <1>2, <1>13, <1>16
  <2> QED
    BY <1>2, <1>16, <2>1
<1>17. ASSUME NEW k \in 1 .. K, NEW n \in start[k] .. start[k] + F[k].count - 1
       PROVE  InAt(t, n)' = i
  <2>1. n \in start[k] .. start[k] + E[k].count - 1 \/ n = len + 1
    <3>1. CASE k = K
      <4>1. /\ start[K] \in 0 .. len /\ E[K].count \in Nat /\ start[K] + E[K].count = len + 1
            /\ n \in start[K] .. start[K] + (E[K].count + 1) - 1
        BY <1>2, <1>8, <1>11, <3>1
      <4>2. ASSUME NEW s, s = start[K], NEW c, c = E[K].count
            PROVE  n \in s .. s + c - 1 \/ n = len + 1
        <5>1. s \in Nat /\ c \in Nat /\ len \in Nat /\ s + c = len + 1 /\ n \in s .. s + (c + 1) - 1
          BY <1>2, <4>1, <4>2
        <5> QED
          BY <5>1, OneMore
      <4> QED
        BY <3>1, <4>2
    <3>2. CASE k # K
      BY <1>13, <3>2
    <3> QED
      BY <3>1, <3>2
  <2>2. n \in start[k] .. start[k] + E[k].count - 1 => n \in 0 .. len
    <3>1. start[k] \in 0 .. len /\ E[k].count \in Nat /\ start[k] + E[k].count <= len + 1 /\ len \in Nat
      BY <1>2
    <3> QED
      BY <3>1
  <2> QED
    BY <1>3, <1>5, <1>6, <2>1, <2>2
<1>18. ASSUME NEW k \in 1 .. K PROVE EntryOK(t, i, start, k, F[k])'
  <2>1. start[k] \in 0 .. len /\ EntryOK(t, i, start, k, E[k])
    BY <1>2, <1>3
  <2>2. F[k].isolate = E[k].isolate /\ F[k].data = E[k].data /\ (t \in auto') = (t \in auto)
    BY <1>13
  <2> QED
    BY <1>2, <1>4, <2>1, <2>2, EntryKept, Zenon
<1>19. ASSUME NEW n \in 0 .. len + 1, InAt(t, n)' = i
       PROVE  \E k \in 1 .. K : n \in start[k] .. start[k] + F[k].count - 1
  <2>1. CASE n = len + 1
    <3>1. K \in 1 .. K /\ n \in start[K] .. start[K] + F[K].count - 1
      BY <1>2, <1>8, <1>11, <2>1
    <3> QED
      BY <3>1
  <2>2. CASE n # len + 1
    <3>1. n \in 0 .. len /\ InAt(t, n) = i
      BY <1>2, <1>5, <1>19, <2>2
    <3>2. PICK k \in 1 .. K : n \in start[k] .. start[k] + E[k].count - 1
      BY <1>3, <3>1
    <3>3. n \in start[k] .. start[k] + F[k].count - 1
      <4>1. ASSUME NEW s, s = start[k], NEW c, c = E[k].count, NEW d, d = F[k].count
            PROVE  n \in s .. s + d - 1
        <5>1. s \in Nat /\ c \in Nat /\ d \in Nat /\ d >= c
          BY <1>2, <1>13, <4>1
        <5>2. n \in s .. s + c - 1
          BY <3>2, <4>1
        <5> QED
          BY <5>1, <5>2, InCount
      <4> QED
        BY <4>1
    <3> QED
      BY <3>3
  <2> QED
    BY <2>1, <2>2
<1>20. EntriesOf(t, i)'
  <2> SUFFICES ASSUME NEW len1, len1 = len + 1 PROVE EntriesOf(t, i)'
    OBVIOUS
  <2>1. F = entryStack'[i] /\ K = Len(F) /\ len1 = Len(frames'[t]) /\ start \in [1 .. K -> 0 .. len1]
    BY <1>4, <1>10, <1>14
  <2>2. \A k \in 1 .. K : F[k].count > 0 /\ start[k] + F[k].count <= len1 + 1
    BY <1>15
  <2>3. \A k \in 1 .. K : \A n \in start[k] .. start[k] + F[k].count - 1 : InAt(t, n)' = i
    BY <1>17
  <2>4. \A k \in 1 .. K : EntryOK(t, i, start, k, F[k])'
    BY <1>18
  <2>5. \A n \in 0 .. len1 : InAt(t, n)' = i =>
          \E k \in 1 .. K : n \in start[k] .. start[k] + F[k].count - 1
    BY <1>19
  <2> QED
    BY <1>16, <2>1, <2>2, <2>3, <2>4, <2>5, EntriesFromParts, Zenon
<1> QED
  BY <1>10, <1>20

\* Entering another isolate than the one the thread is in.
LEMMA EntriesPush ==
  ASSUME EntryTypes, SlotInv, NEW t \in Thread, NEW i \in Isolate, EntriesOf(t, i), ~IsEntered(t, i),
         Push(t, "Scope", i, FALSE), Enter(t, i, current), auto' = auto
  PROVE  /\ EntriesOf(t, i)'
         /\ \A j \in Isolate \ {i} : entryStack'[j] = entryStack[j]
         /\ entryStack' \in [Isolate -> Seq(EntryStackItem)]
         /\ current' = [current EXCEPT ![t] = i]
         /\ data' = [data EXCEPT ![t] = [isolate |-> i, thread |-> t]]
<1> SUFFICES ASSUME NEW E, E = entryStack[i], NEW F, F = entryStack'[i],
                    NEW K, K = Len(E), NEW len, len = Len(frames[t])
             PROVE  /\ EntriesOf(t, i)'
                    /\ \A j \in Isolate \ {i} : entryStack'[j] = entryStack[j]
                    /\ entryStack' \in [Isolate -> Seq(EntryStackItem)]
                    /\ current' = [current EXCEPT ![t] = i]
                    /\ data' = [data EXCEPT ![t] = [isolate |-> i, thread |-> t]]
  OBVIOUS
<1>1. PICK start : Entries(t, i, start)
  BY DEF EntriesOf
<1>2. /\ K \in Nat /\ len \in Nat /\ start \in [1 .. K -> 0 .. len]
      /\ \A k \in 1 .. K : E[k].count \in Nat /\ E[k].count > 0 /\ start[k] + E[k].count <= len + 1
      /\ \A k \in 1 .. K : k < K => start[k] + E[k].count < start[k + 1]
  BY <1>1, EntriesParts
<1>3. /\ \A k \in 1 .. K : \A n \in start[k] .. start[k] + E[k].count - 1 : InAt(t, n) = i
      /\ \A k \in 1 .. K : EntryOK(t, i, start, k, E[k])
      /\ \A n \in 0 .. len : InAt(t, n) = i =>
           \E k \in 1 .. K : n \in start[k] .. start[k] + E[k].count - 1
  BY <1>1, EntriesParts
<1>4. /\ Len(frames'[t]) = len + 1
      /\ \A n \in 1 .. len : frames'[t][n] = frames[t][n]
      /\ frames'[t][len + 1].isolate = i /\ frames'[t][len + 1].before = current[t]
  BY PushAppends, Zenon
<1>5. \A n \in 0 .. len : InAt(t, n)' = InAt(t, n) /\ DataAt(t, n)' = DataAt(t, n)
  BY <1>2, <1>4, LevelsKept
<1>6. InAt(t, len + 1)' = i
  BY <1>2, <1>4 DEF InAt
<1>7. InAt(t, len) # i
  BY SlotMeaning
<1>8. /\ \A j \in Isolate \ {i} : entryStack'[j] = entryStack[j]
      /\ Len(F) = K + 1 /\ \A k \in 1 .. K : F[k] = E[k]
      /\ F[K + 1] = NewEntry(t, current)
      /\ current' = [current EXCEPT ![t] = i]
      /\ data' = [data EXCEPT ![t] = [isolate |-> i, thread |-> t]]
      /\ entryStack' \in [Isolate -> Seq(EntryStackItem)]
  <2>1. Pushed(t, i, current)
    BY EnterPushes DEF EntryTypes
  <2> QED
    BY <2>1 DEF Pushed
<1>9. F[K + 1].count = 1 /\ F[K + 1].isolate = current[t] /\ F[K + 1].data = DataAt(t, len)
  BY <1>8, SlotMeaning DEF NewEntry, SlotInv, SlotOK
<1> DEFINE S == [k \in 1 .. K + 1 |-> IF k = K + 1 THEN len + 1 ELSE start[k]]
<1>10. S \in [1 .. K + 1 -> 0 .. len + 1] /\ S[K + 1] = len + 1 /\ \A k \in 1 .. K : S[k] = start[k]
  BY <1>2
<1> HIDE DEF S
<1>11. \A k \in 1 .. K + 1 : F[k].count > 0 /\ S[k] + F[k].count <= len + 1 + 1
  <2> TAKE k \in 1 .. K + 1
  <2>1. CASE k = K + 1
    BY <1>2, <1>9, <1>10, <2>1
  <2>2. CASE k \in 1 .. K
    BY <1>2, <1>8, <1>10, <2>2
  <2> QED
    BY <1>2, <2>1, <2>2
<1>12. ASSUME NEW k \in 1 .. K + 1, k < K + 1 PROVE S[k] + F[k].count < S[k + 1]
  <2>1. k \in 1 .. K /\ F[k] = E[k] /\ S[k] = start[k]
    BY <1>2, <1>8, <1>10, <1>12
  <2>2. CASE k = K
    <3>1. start[k] + E[k].count # len + 1
      <4> SUFFICES ASSUME start[k] + E[k].count = len + 1 PROVE FALSE
        OBVIOUS
      <4>1. len \in start[k] .. start[k] + E[k].count - 1
        <5>1. start[k] \in 0 .. len /\ E[k].count \in Nat /\ E[k].count > 0 /\ len \in Nat
          BY <1>2, <2>1
        <5> QED
          BY <5>1
      <4> QED
        BY <1>3, <1>7, <2>1, <4>1
    <3> QED
      BY <1>2, <1>10, <2>1, <2>2, <3>1
  <2>3. CASE k # K
    <3>1. k + 1 \in 1 .. K /\ k < K
      BY <1>2, <2>1, <2>3
    <3> QED
      BY <1>2, <1>10, <2>1, <3>1
  <2> QED
    BY <2>2, <2>3
<1>13. ASSUME NEW k \in 1 .. K + 1, NEW n \in S[k] .. S[k] + F[k].count - 1
       PROVE  InAt(t, n)' = i
  <2>1. CASE k = K + 1
    <3>1. n = len + 1
      BY <1>2, <1>9, <1>10, <2>1
    <3> QED
      BY <1>6, <3>1
  <2>2. CASE k \in 1 .. K
    <3>1. n \in start[k] .. start[k] + E[k].count - 1
      BY <1>8, <1>10, <2>2
    <3>2. n \in 0 .. len
      <4>1. ASSUME NEW s, s = start[k], NEW c, c = E[k].count PROVE n \in 0 .. len
        <5>1. s \in Nat /\ c \in Nat /\ len \in Nat /\ s + c <= len + 1
          BY <1>2, <2>2, <4>1
        <5>2. n \in s .. s + c - 1
          BY <3>1, <4>1
        <5> QED
          BY <5>1, <5>2, InCount
      <4> QED
        BY <4>1
    <3> QED
      BY <1>3, <1>5, <2>2, <3>1, <3>2
  <2> QED
    BY <1>2, <2>1, <2>2
<1>14. ASSUME NEW k \in 1 .. K + 1 PROVE EntryOK(t, i, S, k, F[k])'
  <2>1. CASE k = K + 1
    <3>1. S[k] = len + 1 /\ S[k] - 1 = len /\ S[k] # 0
      BY <1>2, <1>10, <2>1
    <3>2. InAt(t, S[k] - 1)' # i /\ F[k].data = DataAt(t, S[k] - 1)'
      BY <1>2, <1>5, <1>7, <1>9, <2>1, <3>1
    <3>3. F[k].isolate = frames'[t][S[k]].before
      BY <1>4, <1>9, <2>1, <3>1
    <3> QED
      BY <3>1, <3>2, <3>3 DEF EntryOK
  <2>2. CASE k \in 1 .. K
    <3>1. start[k] \in 0 .. len /\ EntryOK(t, i, start, k, E[k]) /\ F[k] = E[k] /\ S[k] = start[k]
      BY <1>2, <1>3, <1>8, <1>10, <2>2
    <3> QED
      BY <1>2, <1>4, <3>1, EntryKept
  <2> QED
    BY <1>2, <2>1, <2>2
<1>15. ASSUME NEW n \in 0 .. len + 1, InAt(t, n)' = i
       PROVE  \E k \in 1 .. K + 1 : n \in S[k] .. S[k] + F[k].count - 1
  <2>1. CASE n = len + 1
    <3>1. K + 1 \in 1 .. K + 1 /\ n \in S[K + 1] .. S[K + 1] + F[K + 1].count - 1
      BY <1>2, <1>9, <1>10, <2>1
    <3> QED
      BY <3>1
  <2>2. CASE n # len + 1
    <3>1. n \in 0 .. len /\ InAt(t, n) = i
      BY <1>2, <1>5, <1>15, <2>2
    <3>2. PICK k \in 1 .. K : n \in start[k] .. start[k] + E[k].count - 1
      BY <1>3, <3>1
    <3>3. k \in 1 .. K + 1 /\ n \in S[k] .. S[k] + F[k].count - 1
      BY <1>2, <1>8, <1>10, <3>2
    <3> QED
      BY <3>3
  <2> QED
    BY <2>1, <2>2
<1>16. EntriesOf(t, i)'
  <2> SUFFICES ASSUME NEW K1, K1 = K + 1, NEW len1, len1 = len + 1 PROVE EntriesOf(t, i)'
    OBVIOUS
  <2>1. F = entryStack'[i] /\ K1 = Len(F) /\ len1 = Len(frames'[t]) /\ S \in [1 .. K1 -> 0 .. len1]
    BY <1>4, <1>8, <1>10
  <2>2. \A k \in 1 .. K1 : F[k].count > 0 /\ S[k] + F[k].count <= len1 + 1
    BY <1>11
  <2>3. \A k \in 1 .. K1 : k < K1 => S[k] + F[k].count < S[k + 1]
    BY <1>12
  <2>4. \A k \in 1 .. K1 : \A n \in S[k] .. S[k] + F[k].count - 1 : InAt(t, n)' = i
    BY <1>13
  <2>5. \A k \in 1 .. K1 : EntryOK(t, i, S, k, F[k])'
    BY <1>14
  <2>6. \A n \in 0 .. len1 : InAt(t, n)' = i =>
          \E k \in 1 .. K1 : n \in S[k] .. S[k] + F[k].count - 1
    BY <1>15
  <2> QED
    BY <2>1, <2>2, <2>3, <2>4, <2>5, <2>6, EntriesFromParts, Zenon
<1> QED
  BY <1>8, <1>16

\* What the Exit of a Scope needs: the thread is in the isolate it exits.
ExitsTop(t, i) ==
  /\ frames[t] # <<>> /\ Top(t).kind = "Scope" /\ Top(t).isolate = i
  /\ Exit(t, i) /\ Pop(t) /\ auto' = auto

\* Exit of an isolate that the thread entered more than once in a row.
LEMMA EntriesCountDown ==
  ASSUME EntryTypes, SlotInv, FrameInv, NEW t \in Thread, NEW i \in Isolate, EntriesOf(t, i),
         ExitsTop(t, i), Last(entryStack[i]).count > 1
  PROVE  /\ EntriesOf(t, i)'
         /\ \A j \in Isolate \ {i} : entryStack'[j] = entryStack[j]
         /\ entryStack' \in [Isolate -> Seq(EntryStackItem)]
         /\ current' = current /\ data' = data
         /\ current[t] = Top(t).before /\ data[t] = DataAt(t, Len(frames[t]) - 1)
<1> SUFFICES ASSUME NEW E, E = entryStack[i], NEW F, F = entryStack'[i],
                    NEW K, K = Len(E), NEW len, len = Len(frames[t])
             PROVE  /\ EntriesOf(t, i)'
                    /\ \A j \in Isolate \ {i} : entryStack'[j] = entryStack[j]
                    /\ entryStack' \in [Isolate -> Seq(EntryStackItem)]
                    /\ current' = current /\ data' = data
                    /\ current[t] = Top(t).before /\ data[t] = DataAt(t, len - 1)
  OBVIOUS
<1>1. PICK start : Entries(t, i, start)
  BY DEF EntriesOf
<1>2. /\ K \in Nat /\ len \in Nat /\ start \in [1 .. K -> 0 .. len]
      /\ \A k \in 1 .. K : E[k].count \in Nat /\ E[k].count > 0 /\ start[k] + E[k].count <= len + 1
      /\ \A k \in 1 .. K : k < K => start[k] + E[k].count < start[k + 1]
  BY <1>1, EntriesParts
<1>3. /\ \A k \in 1 .. K : \A n \in start[k] .. start[k] + E[k].count - 1 : InAt(t, n) = i
      /\ \A k \in 1 .. K : EntryOK(t, i, start, k, E[k])
      /\ \A n \in 0 .. len : InAt(t, n) = i =>
           \E k \in 1 .. K : n \in start[k] .. start[k] + E[k].count - 1
  BY <1>1, EntriesParts
<1>4. /\ len \in Nat \ {0} /\ Top(t) = frames[t][len] /\ Len(frames'[t]) = len - 1
      /\ \A n \in 1 .. len - 1 : frames'[t][n] = frames[t][n]
  BY PopTakesLast DEF ExitsTop
<1>5. \A n \in 0 .. len - 1 : InAt(t, n)' = InAt(t, n)
  <2>1. len - 1 \in Nat
    BY <1>4
  <2> QED
    BY <1>4, <2>1, LevelsKept DEF ExitsTop
<1>6. InAt(t, len) = i
  BY <1>4 DEF ExitsTop, InAt
<1>7. K \in Nat \ {0} /\ start[K] + E[K].count = len + 1
  BY <1>1, <1>6, TopEntry
<1>8. /\ \A j \in Isolate \ {i} : entryStack'[j] = entryStack[j]
      /\ Len(F) = K /\ \A k \in 1 .. K - 1 : F[k] = E[k]
      /\ E[K] \in EntryStackItem /\ F[K] = [E[K] EXCEPT !.count = @ - 1] /\ E[K].count > 1
      /\ current' = current /\ data' = data /\ entryStack' \in [Isolate -> Seq(EntryStackItem)]
  BY ExitCounts DEF ExitsTop
<1>9. F[K].count = E[K].count - 1 /\ F[K].isolate = E[K].isolate /\ F[K].data = E[K].data
  BY <1>8 DEF EntryStackItem
<1>10. \A k \in 1 .. K : k = K \/ F[k] = E[k]
  BY <1>7, <1>8
<1>11. \A k \in 1 .. K : /\ F[k].isolate = E[k].isolate /\ F[k].data = E[k].data
                         /\ k # K => F[k].count = E[k].count
  BY <1>9, <1>10
\* The isolate is also the one below the top object.
<1>12. start[K] \in 0 .. len - 1 /\ E[K].count \in Nat /\ len - 1 \in start[K] .. start[K] + E[K].count - 1
  <2>1. start[K] \in 0 .. len /\ E[K].count \in Nat /\ E[K].count > 1
    BY <1>2, <1>7, <1>8
  <2> QED
    BY <1>2, <1>7, <2>1
<1>13. InAt(t, len - 1) = i
  <2>1. K \in 1 .. K
    BY <1>7
  <2> QED
    BY <1>3, <1>12, <2>1
<1>14. current[t] = Top(t).before /\ data[t] = DataAt(t, len - 1)
  <2>1. current[t] = i /\ data[t] = DataAt(t, len)
    BY <1>6, Separate DEF SlotInv, SlotOK, SlotFor
  <2>2. Top(t).before \in SlotFor(i)
    BY <1>4, <1>13 DEF FrameInv, FrameOK, ExitsTop
  <2>3. DataAt(t, len) = DataAt(t, len - 1)
    BY <1>6, <1>13 DEF DataAt
  <2> QED
    BY <2>1, <2>2, <2>3, Separate DEF SlotFor
<1>15. ASSUME NEW k \in 1 .. K
       PROVE  /\ start[k] \in 0 .. len - 1 /\ F[k].count \in Nat /\ F[k].count > 0
              /\ start[k] + F[k].count <= len /\ F[k].count <= E[k].count
  <2>1. CASE k = K
    <3>1. E[K].count > 1 /\ F[K].count = E[K].count - 1 /\ E[K].count \in Nat
      BY <1>8, <1>9, <1>12
    <3>2. ASSUME NEW s, s = start[K], NEW c, c = E[K].count, NEW d, d = F[K].count
          PROVE  s \in 0 .. len - 1 /\ d \in Nat /\ d > 0 /\ s + d <= len /\ d <= c
      <4>1. s \in Nat /\ c \in Nat /\ len \in Nat /\ s + c = len + 1 /\ c > 1 /\ d = c - 1
        BY <1>2, <1>7, <1>12, <3>1, <3>2
      <4> QED
        BY <4>1, OneLess
    <3> QED
      BY <2>1, <3>2
  <2>2. CASE k # K
    <3>1. start[k] \in 0 .. len /\ E[k].count \in Nat /\ E[k].count > 0 /\ F[k].count = E[k].count
      BY <1>2, <1>11, <2>2
    <3>2. k + 1 \in 1 .. K /\ start[k + 1] \in 0 .. len /\ start[k] + E[k].count < start[k + 1]
      <4>1. k + 1 \in 1 .. K /\ k < K
        BY <1>2, <2>2
      <4> QED
        BY <1>2, <4>1
    <3> QED
      BY <1>2, <3>1, <3>2
  <2> QED
    BY <2>1, <2>2
<1>16. ASSUME NEW k \in 1 .. K, k < K PROVE start[k] + F[k].count < start[k + 1]
  <2>1. F[k].count = E[k].count
    BY <1>2, <1>11, <1>16
  <2> QED
    BY <1>2, <1>16, <2>1
<1>17. ASSUME NEW k \in 1 .. K, NEW n \in start[k] .. start[k] + F[k].count - 1
       PROVE  InAt(t, n)' = i
  <2>1. /\ E[k].count \in Nat /\ F[k].count \in Nat /\ start[k] \in 0 .. len - 1 /\ len \in Nat
        /\ start[k] + F[k].count <= len /\ F[k].count <= E[k].count
    BY <1>2, <1>15
  <2>2. ASSUME NEW s \in Nat, NEW c \in Nat, NEW e \in Nat, s + c <= len, c <= e, n \in s .. s + c - 1
        PROVE  n \in s .. s + e - 1 /\ n \in 0 .. len - 1
    BY <1>2, <2>2
  <2>3. n \in start[k] .. start[k] + E[k].count - 1 /\ n \in 0 .. len - 1
    <3>1. start[k] \in Nat
      BY <2>1
    <3> QED
      BY <2>1, <2>2, <3>1
  <2> QED
    BY <1>3, <1>5, <2>3
<1>18. ASSUME NEW k \in 1 .. K PROVE EntryOK(t, i, start, k, F[k])'
  <2>1. start[k] \in 0 .. len - 1 /\ EntryOK(t, i, start, k, E[k]) /\ len - 1 \in Nat
    BY <1>3, <1>4, <1>15
  <2>2. F[k].isolate = E[k].isolate /\ F[k].data = E[k].data /\ (t \in auto') = (t \in auto)
    BY <1>11 DEF ExitsTop
  <2> QED
    BY <1>4, <2>1, <2>2, EntryKept, Zenon
<1>19. ASSUME NEW n \in 0 .. len - 1, InAt(t, n)' = i
       PROVE  \E k \in 1 .. K : n \in start[k] .. start[k] + F[k].count - 1
  <2>1. n \in 0 .. len /\ InAt(t, n) = i
    BY <1>2, <1>5, <1>19
  <2>2. PICK k \in 1 .. K : n \in start[k] .. start[k] + E[k].count - 1
    BY <1>3, <2>1
  <2>3. n \in start[k] .. start[k] + F[k].count - 1
    <3>1. CASE k = K
      <4>1. start[K] \in 0 .. len - 1 /\ E[K].count \in Nat /\ n \in start[K] .. start[K] + E[K].count - 1
        BY <1>12, <2>2, <3>1
      <4>2. F[K].count = E[K].count - 1
        BY <1>9
      <4> QED
        BY <1>2, <1>7, <1>19, <3>1, <4>1, <4>2
    <3>2. CASE k # K
      BY <1>11, <2>2, <3>2
    <3> QED
      BY <3>1, <3>2
  <2> QED
    BY <2>3
<1>20. EntriesOf(t, i)'
  <2> SUFFICES ASSUME NEW len1, len1 = len - 1 PROVE EntriesOf(t, i)'
    OBVIOUS
  <2>1. F = entryStack'[i] /\ K = Len(F) /\ len1 = Len(frames'[t])
    BY <1>4, <1>8
  <2>2. start \in [1 .. K -> 0 .. len1]
    BY <1>2, <1>15
  <2>3. \A k \in 1 .. K : F[k].count > 0 /\ start[k] + F[k].count <= len1 + 1
    BY <1>2, <1>15
  <2>4. \A k \in 1 .. K : k < K => start[k] + F[k].count < start[k + 1]
    BY <1>16
  <2>5. \A k \in 1 .. K : \A n \in start[k] .. start[k] + F[k].count - 1 : InAt(t, n)' = i
    BY <1>17
  <2>6. \A k \in 1 .. K : EntryOK(t, i, start, k, F[k])'
    BY <1>18
  <2>7. \A n \in 0 .. len1 : InAt(t, n)' = i =>
          \E k \in 1 .. K : n \in start[k] .. start[k] + F[k].count - 1
    BY <1>19
  <2> QED
    BY <2>1, <2>2, <2>3, <2>4, <2>5, <2>6, <2>7, EntriesFromParts, Zenon
<1> QED
  BY <1>8, <1>14, <1>20

\* Exit that takes the top entry: it is the one this thread's Enter pushed.
LEMMA EntriesPop ==
  ASSUME EntryTypes, SlotInv, FrameInv, NEW t \in Thread, NEW i \in Isolate, EntriesOf(t, i),
         ExitsTop(t, i), ~(Last(entryStack[i]).count > 1)
  PROVE  /\ EntriesOf(t, i)'
         /\ \A j \in Isolate \ {i} : entryStack'[j] = entryStack[j]
         /\ entryStack' \in [Isolate -> Seq(EntryStackItem)]
         /\ current' = [current EXCEPT ![t] = Top(t).before]
         /\ data' = [data EXCEPT ![t] = DataAt(t, Len(frames[t]) - 1)]
<1> SUFFICES ASSUME NEW E, E = entryStack[i], NEW F, F = entryStack'[i],
                    NEW K, K = Len(E), NEW len, len = Len(frames[t])
             PROVE  /\ EntriesOf(t, i)'
                    /\ \A j \in Isolate \ {i} : entryStack'[j] = entryStack[j]
                    /\ entryStack' \in [Isolate -> Seq(EntryStackItem)]
                    /\ current' = [current EXCEPT ![t] = Top(t).before]
                    /\ data' = [data EXCEPT ![t] = DataAt(t, len - 1)]
  OBVIOUS
<1>1. PICK start : Entries(t, i, start)
  BY DEF EntriesOf
<1>2. /\ K \in Nat /\ len \in Nat /\ start \in [1 .. K -> 0 .. len]
      /\ \A k \in 1 .. K : E[k].count \in Nat /\ E[k].count > 0 /\ start[k] + E[k].count <= len + 1
      /\ \A k \in 1 .. K : k < K => start[k] + E[k].count < start[k + 1]
  BY <1>1, EntriesParts
<1>3. /\ \A k \in 1 .. K : \A n \in start[k] .. start[k] + E[k].count - 1 : InAt(t, n) = i
      /\ \A k \in 1 .. K : EntryOK(t, i, start, k, E[k])
      /\ \A n \in 0 .. len : InAt(t, n) = i =>
           \E k \in 1 .. K : n \in start[k] .. start[k] + E[k].count - 1
  BY <1>1, EntriesParts
<1>4. /\ len \in Nat \ {0} /\ Top(t) = frames[t][len] /\ Len(frames'[t]) = len - 1
      /\ \A n \in 1 .. len - 1 : frames'[t][n] = frames[t][n]
  BY PopTakesLast DEF ExitsTop
<1>5. \A n \in 0 .. len - 1 : InAt(t, n)' = InAt(t, n)
  <2>1. len - 1 \in Nat
    BY <1>4
  <2> QED
    BY <1>4, <2>1, LevelsKept DEF ExitsTop
<1>6. InAt(t, len) = i
  BY <1>4 DEF ExitsTop, InAt
<1>7. K \in Nat \ {0} /\ start[K] + E[K].count = len + 1
  BY <1>1, <1>6, TopEntry
<1>8. /\ \A j \in Isolate \ {i} : entryStack'[j] = entryStack[j]
      /\ Len(F) = K - 1 /\ \A k \in 1 .. K - 1 : F[k] = E[k]
      /\ ~(E[K].count > 1)
      /\ current' = [current EXCEPT ![t] = E[K].isolate]
      /\ data' = [data EXCEPT ![t] = E[K].data]
      /\ entryStack' \in [Isolate -> Seq(EntryStackItem)]
  BY ExitPops DEF ExitsTop
<1>9. start[K] = len
  <2>1. K \in 1 .. K
    BY <1>7
  <2>2. start[K] \in 0 .. len /\ E[K].count \in Nat /\ E[K].count > 0
    BY <1>2, <2>1
  <2> QED
    BY <1>2, <1>7, <1>8, <2>2
<1>10. E[K].isolate = Top(t).before /\ E[K].data = DataAt(t, len - 1)
  <2>1. EntryOK(t, i, start, K, E[K]) /\ start[K] # 0
    BY <1>3, <1>4, <1>7, <1>9
  <2> QED
    BY <1>4, <1>9, <2>1 DEF EntryOK
<1>11. ASSUME NEW k \in 1 .. K - 1
       PROVE  /\ k \in 1 .. K /\ k < K /\ F[k] = E[k]
              /\ start[k] \in 0 .. len - 1 /\ E[k].count \in Nat /\ E[k].count > 0
              /\ start[k] + E[k].count <= len
  <2>1. k \in 1 .. K /\ k < K /\ F[k] = E[k]
    <3>1. F[k] = E[k]
      BY <1>8
    <3> QED
      BY <1>2, <3>1
  <2>2. start[k] \in 0 .. len /\ E[k].count \in Nat /\ E[k].count > 0
    BY <1>2, <2>1
  <2>3. k + 1 \in 1 .. K /\ start[k + 1] \in 0 .. len /\ start[k] + E[k].count < start[k + 1]
    BY <1>2, <2>1
  <2>4. len \in Nat
    BY <1>2
  <2>5. start[k] \in 0 .. len - 1 /\ start[k] + E[k].count <= len
    BY <2>2, <2>3, <2>4
  <2> QED
    BY <2>1, <2>2, <2>5
<1>12. ASSUME NEW n \in 0 .. len - 1, InAt(t, n)' = i
       PROVE  \E k \in 1 .. K - 1 : n \in start[k] .. start[k] + F[k].count - 1
  <2>1. n \in 0 .. len /\ InAt(t, n) = i
    BY <1>2, <1>5, <1>12
  <2>2. PICK k \in 1 .. K : n \in start[k] .. start[k] + E[k].count - 1
    BY <1>3, <2>1
  <2>3. k # K
    BY <1>2, <1>9, <2>2
  <2>4. k \in 1 .. K - 1
    BY <1>2, <2>3
  <2> QED
    BY <1>11, <2>2, <2>4
<1> DEFINE S == [k \in 1 .. K - 1 |-> start[k]]
<1>13. S \in [1 .. K - 1 -> 0 .. len - 1] /\ \A k \in 1 .. K - 1 : S[k] = start[k]
  BY <1>11
<1> HIDE DEF S
<1>14. EntriesOf(t, i)'
  <2> SUFFICES ASSUME NEW len1, len1 = len - 1, NEW K1, K1 = K - 1 PROVE EntriesOf(t, i)'
    OBVIOUS
  <2>1. F = entryStack'[i] /\ K1 = Len(F) /\ len1 = Len(frames'[t]) /\ len1 \in Nat
    BY <1>4, <1>8
  <2>2. S \in [1 .. K1 -> 0 .. len1]
    BY <1>13
  <2>3. \A k \in 1 .. K1 : F[k].count > 0 /\ S[k] + F[k].count <= len1 + 1
    <3> TAKE k \in 1 .. K1
    <3>1. S[k] = start[k] /\ F[k] = E[k] /\ E[k].count > 0 /\ start[k] + E[k].count <= len
      BY <1>11, <1>13
    <3> QED
      BY <1>2, <3>1
  <2>4. \A k \in 1 .. K1 : k < K1 => S[k] + F[k].count < S[k + 1]
    <3> TAKE k \in 1 .. K1
    <3> HAVE k < K1
    <3>1. k \in 1 .. K - 1 /\ k + 1 \in 1 .. K - 1
      BY <1>7
    <3>2. S[k] = start[k] /\ S[k + 1] = start[k + 1] /\ F[k] = E[k] /\ k \in 1 .. K /\ k < K
      BY <1>11, <1>13, <3>1
    <3> QED
      BY <1>2, <3>2
  <2>5. \A k \in 1 .. K1 : \A n \in S[k] .. S[k] + F[k].count - 1 : InAt(t, n)' = i
    <3> TAKE k \in 1 .. K1
    <3>1. /\ k \in 1 .. K /\ F[k] = E[k] /\ S[k] = start[k] /\ start[k] \in 0 .. len - 1
          /\ E[k].count \in Nat /\ start[k] + E[k].count <= len
      BY <1>11, <1>13
    <3> TAKE n \in S[k] .. S[k] + F[k].count - 1
    <3>2. n \in start[k] .. start[k] + E[k].count - 1 /\ n \in 0 .. len - 1
      <4>1. start[k] \in Nat /\ E[k].count \in Nat /\ len \in Nat
        BY <1>2, <3>1
      <4>2. n \in start[k] .. start[k] + E[k].count - 1
        BY <3>1
      <4> QED
        BY <3>1, <4>1, <4>2
    <3> QED
      BY <1>3, <1>5, <3>1, <3>2
  <2>6. \A k \in 1 .. K1 : EntryOK(t, i, S, k, F[k])'
    <3> TAKE k \in 1 .. K1
    <3>1. EntryOK(t, i, start, k, E[k]) /\ F[k] = E[k] /\ S[k] = start[k] /\ start[k] \in 0 .. len1
      BY <1>3, <1>11, <1>13
    <3>2. (t \in auto') = (t \in auto) /\ \A n \in 1 .. len1 : frames'[t][n] = frames[t][n]
      BY <1>4 DEF ExitsTop
    <3> QED
      BY <2>1, <3>1, <3>2, EntryKept
  <2>7. \A n \in 0 .. len1 : InAt(t, n)' = i =>
          \E k \in 1 .. K1 : n \in S[k] .. S[k] + F[k].count - 1
    BY <1>12, <1>13
  <2> QED
    BY <2>1, <2>2, <2>3, <2>4, <2>5, <2>6, <2>7, EntriesFromParts, Zenon
<1> QED
  BY <1>8, <1>10, <1>14

\* The first use of V8 by a thread that is in no isolate enters the default one.
LEMMA EntriesFirst ==
  ASSUME EntryTypes, SlotInv, NEW t \in Thread, EntriesOf(t, default_isolate), data[t] = NoData,
         Enter(t, default_isolate, EnsureDefaultIsolate(t)), auto' = auto \cup {t},
         Len(frames'[t]) = 0
  PROVE  EntriesOf(t, default_isolate)'
<1>1. /\ default_isolate \in Isolate /\ NoIsolate \notin Isolate /\ frames[t] = <<>> /\ Len(frames[t]) = 0
      /\ t \notin auto /\ ~IsEntered(t, default_isolate)
  BY SlotMeaning, FrameLists, Separate DEF IsEntered
<1>2. \A n \in 0 .. Len(frames[t]) : InAt(t, n) # default_isolate
  BY <1>1, Separate DEF InAt
<1>3. entryStack[default_isolate] = <<>> /\ Len(entryStack[default_isolate]) = 0
  BY <1>1, <1>2, NoEntries, EntryLists
<1>4. EnsureDefaultIsolate(t) \in [Thread -> Isolate \cup {NoIsolate}]
  BY <1>1 DEF EntryTypes, EnsureDefaultIsolate
<1> SUFFICES ASSUME NEW F, F = entryStack'[default_isolate] PROVE EntriesOf(t, default_isolate)'
  OBVIOUS
<1>5. Len(F) = 1 /\ F[1] = NewEntry(t, EnsureDefaultIsolate(t))
  <2>1. /\ Len(F) = Len(entryStack[default_isolate]) + 1
        /\ F[Len(entryStack[default_isolate]) + 1] = NewEntry(t, EnsureDefaultIsolate(t))
    <3> SUFFICES ASSUME NEW slot, slot = EnsureDefaultIsolate(t)
                 PROVE  /\ Len(F) = Len(entryStack[default_isolate]) + 1
                        /\ F[Len(entryStack[default_isolate]) + 1] = NewEntry(t, slot)
      OBVIOUS
    <3>1. Pushed(t, default_isolate, slot)
      BY <1>1, <1>4, EnterPushes
    <3> QED
      BY <3>1 DEF Pushed
  <2> QED
    BY <1>3, <2>1
<1>6. F[1].count = 1 /\ F[1].data = NoData /\ F[1].isolate = default_isolate
  BY <1>5 DEF NewEntry, EnsureDefaultIsolate, EntryTypes
<1>7. InAt(t, 0)' = default_isolate
  BY DEF InAt
<1> DEFINE S == [k \in 1 .. 1 |-> 0]
<1>8. S \in [1 .. 1 -> 0 .. 0] /\ S[1] = 0
  OBVIOUS
<1> HIDE DEF S
<1>9. \A k \in 1 .. 1 : k = 1
  OBVIOUS
<1>10. EntryOK(t, default_isolate, S, 1, F[1])'
  BY <1>6, <1>8 DEF EntryOK
<1>11. \A k \in 1 .. 1 : \A n \in S[k] .. S[k] + F[k].count - 1 : InAt(t, n)' = default_isolate
  BY <1>6, <1>7, <1>8
<1>12. \A n \in 0 .. 0 : InAt(t, n)' = default_isolate =>
         \E k \in 1 .. 1 : n \in S[k] .. S[k] + F[k].count - 1
  BY <1>6, <1>8
<1>13. \A k \in 1 .. 1 : F[k].count > 0 /\ S[k] + F[k].count <= 0 + 1
  BY <1>6, <1>8, <1>9
<1>14. \A k \in 1 .. 1 : k < 1 => S[k] + F[k].count < S[k + 1]
  OBVIOUS
<1>15. \A k \in 1 .. 1 : EntryOK(t, default_isolate, S, k, F[k])'
  BY <1>9, <1>10
<1> QED
  <2> SUFFICES ASSUME NEW K, K = 1, NEW len, len = 0 PROVE EntriesOf(t, default_isolate)'
    OBVIOUS
  <2>1. K = Len(F) /\ len = Len(frames'[t])
    BY <1>5
  <2> QED
    BY <1>1, <1>8, <1>11, <1>12, <1>13, <1>14, <1>15, <2>1, EntriesFromParts, Zenon

\* Exit of the default isolate by a thread that entered it with its first use.
LEMMA EntriesLeave ==
  ASSUME EntryTypes, NEW t \in Thread, EntriesOf(t, default_isolate), t \in auto, frames[t] = <<>>,
         Exit(t, default_isolate), auto' = auto \ {t}, frames' = frames
  PROVE  /\ EntriesOf(t, default_isolate)'
         /\ \A j \in Isolate \ {default_isolate} : entryStack'[j] = entryStack[j]
         /\ entryStack' \in [Isolate -> Seq(EntryStackItem)]
         /\ current' = [current EXCEPT ![t] = default_isolate]
         /\ data' = [data EXCEPT ![t] = NoData]
<1> SUFFICES ASSUME NEW E, E = entryStack[default_isolate], NEW F, F = entryStack'[default_isolate],
                    NEW K, K = Len(E)
             PROVE  /\ EntriesOf(t, default_isolate)'
                    /\ \A j \in Isolate \ {default_isolate} : entryStack'[j] = entryStack[j]
                    /\ entryStack' \in [Isolate -> Seq(EntryStackItem)]
                    /\ current' = [current EXCEPT ![t] = default_isolate]
                    /\ data' = [data EXCEPT ![t] = NoData]
  OBVIOUS
<1>1. default_isolate \in Isolate /\ Len(frames[t]) = 0 /\ InAt(t, 0) = default_isolate
  BY Separate, FrameLists DEF InAt
<1>2. PICK start : Entries(t, default_isolate, start)
  BY DEF EntriesOf
<1>3. K \in Nat /\ K > 0
  BY <1>1, <1>2, TopEntry
<1>4. start[K] = 0 /\ E[K].count = 1
  <2>1. start[K] \in 0 .. 0 /\ E[K].count \in Nat \ {0} /\ start[K] + E[K].count = 0 + 1
    BY <1>1, <1>2, TopEntry
  <2> QED
    BY <2>1
<1>5. K = 1
  <2>0. \A k \in Nat : k > 0 => k = 1 \/ k > 1
    OBVIOUS
  <2> SUFFICES ASSUME K > 1 PROVE FALSE
    BY <1>3, <2>0, Zenon
  <2>1. K \in Nat
    BY <1>3
  <2> DEFINE k == K - 1
  <2>2. k \in 1 .. K /\ k < K /\ k + 1 = K
    BY <2>1
  <2> HIDE DEF k
  <2>3. start \in [1 .. K -> 0 .. Len(frames[t])] /\ E[k].count \in Nat /\ start[k] + E[k].count < start[k + 1]
    <3>1. start \in [1 .. K -> 0 .. Len(frames[t])]
      BY <1>1, <1>2, EntriesParts
    <3>2. E[k].count \in Nat
      BY <1>1, <1>2, <2>2, EntriesParts
    <3>3. start[k] + E[k].count < start[k + 1]
      BY <1>1, <1>2, <2>2, EntriesParts
    <3> QED
      BY <3>1, <3>2, <3>3
  <2>4. start[k + 1] = 0 /\ start[k] \in 0 .. 0
    BY <1>1, <1>4, <2>2, <2>3
  <2> QED
    BY <2>3, <2>4
<1>6. EntryOK(t, default_isolate, start, K, E[K])
  <2>1. K \in 1 .. K
    BY <1>3
  <2> QED
    BY <1>1, <1>2, <2>1, EntriesParts
<1>7. E[K].isolate = default_isolate /\ E[K].data = NoData
  BY <1>4, <1>6 DEF EntryOK
<1>8. E # <<>> /\ Last(E) = E[K]
  BY DEF Last, Exit, IsInUse
<1>9. ~(Last(E).count > 1)
  BY <1>4, <1>8
<1>10. /\ \A j \in Isolate \ {default_isolate} : entryStack'[j] = entryStack[j]
       /\ Len(F) = K - 1 /\ entryStack' \in [Isolate -> Seq(EntryStackItem)]
       /\ current' = [current EXCEPT ![t] = E[K].isolate]
       /\ data' = [data EXCEPT ![t] = E[K].data]
  BY <1>1, <1>9, ExitPops
<1>11. Len(F) = 0
  BY <1>5, <1>10
<1>12. InAt(t, 0)' # default_isolate
  BY Separate DEF InAt
<1>13. EntriesOf(t, default_isolate)'
  <2>1. /\ Len(entryStack'[default_isolate]) = 0 /\ 1 .. Len(entryStack'[default_isolate]) = {}
        /\ Len(frames'[t]) = 0 /\ 0 .. Len(frames'[t]) = {0}
    BY <1>1, <1>11
  <2> DEFINE S == [k \in {} |-> 0]
  <2>2. S \in [1 .. Len(entryStack'[default_isolate]) -> 0 .. Len(frames'[t])]
    BY <2>1
  <2> HIDE DEF S
  <2>3. Entries(t, default_isolate, S)'
    BY <1>12, <2>1, <2>2 DEF Entries
  <2> QED
    BY <2>2, <2>3 DEF EntriesOf
<1> QED
  BY <1>7, <1>10, <1>13

---------------------------------------------------------------------------
(* Whose entries a stack has.                                               *)

\* Who has entered an isolate is in it at some level, and the other way round.
LEMMA EnteredLevel ==
  ASSUME EntryTypes, FrameInv, NEW t \in Thread, NEW i \in Isolate, ~Shared(i)
  PROVE  HasEntered(t, i) <=> \E n \in 0 .. Len(frames[t]) : InAt(t, n) = i
<1>1. Len(frames[t]) \in Nat /\ frames[t] \in Seq(Frame)
  BY FrameLists
<1>2. ASSUME HasEntered(t, i) PROVE \E n \in 0 .. Len(frames[t]) : InAt(t, n) = i
  <2>1. CASE i = default_isolate /\ t \in auto
    <3>1. 0 \in 0 .. Len(frames[t]) /\ InAt(t, 0) = i
      BY <1>1, <2>1 DEF InAt
    <3> QED
      BY <3>1
  <2>2. ASSUME NEW n \in DOMAIN frames[t], frames[t][n].isolate = i
        PROVE  \E m \in 0 .. Len(frames[t]) : InAt(t, m) = i
    <3>1. n \in 0 .. Len(frames[t]) /\ n # 0
      BY <1>1
    <3> QED
      BY <2>2, <3>1 DEF InAt
  <2> QED
    BY <1>2, <2>1, <2>2 DEF HasEntered
<1>3. ASSUME NEW n \in 0 .. Len(frames[t]), InAt(t, n) = i PROVE HasEntered(t, i)
  <2>1. CASE n = 0
    BY <1>3, <2>1, Separate DEF InAt, HasEntered
  <2>2. CASE n # 0
    <3>1. n \in 1 .. Len(frames[t]) /\ n \in DOMAIN frames[t] /\ frames[t][n].isolate = i
      BY <1>1, <1>3, <2>2 DEF InAt
    <3>2. CASE frames[t][n].kind = "Scope"
      BY <3>1, <3>2 DEF HasEntered
    <3>3. CASE frames[t][n].kind # "Scope"
      BY <3>1, <3>3 DEF FrameInv, FrameOK, Shared
    <3> QED
      BY <3>2, <3>3
  <2> QED
    BY <2>1, <2>2
<1> QED
  BY <1>2, <1>3

\* If no other thread is in an isolate then its entries are this thread's.
LEMMA MyEntries ==
  ASSUME EntryTypes, FrameInv, StackInv, NEW t \in Thread, NEW i \in Isolate, ~Shared(i),
         OnlyThreadIn(t, i) \/ HasEntered(t, i)
  PROVE  EntriesOf(t, i) /\ OnlyThreadIn(t, i)
<1>1. PICK u \in Thread : EntriesOf(u, i) /\ OnlyThreadIn(u, i)
  BY DEF StackInv
<1>2. CASE u = t
  BY <1>1, <1>2
<1>3. CASE u # t
  <2>1. ~HasEntered(t, i)
    BY <1>1, <1>3 DEF OnlyThreadIn
  <2>2. ~HasEntered(u, i) /\ OnlyThreadIn(t, i)
    BY <1>3, <2>1 DEF OnlyThreadIn
  <2>3. entryStack[i] = <<>>
    BY <1>1, <2>2, EnteredLevel, NoEntries
  <2> QED
    BY <2>1, <2>2, <2>3, EnteredLevel, NoEntries
<1> QED
  BY <1>2, <1>3

\* A step of t leaves the objects of the other threads alone.
Others(t) ==
  \A u \in Thread \ {t} : frames'[u] = frames[u] /\ (u \in auto') = (u \in auto)

\* A stack that no step of t changes, if t's own objects still match it.
LEMMA StackKept ==
  ASSUME EntryTypes, StackInv, NEW t \in Thread, NEW j \in Isolate, ~Shared(j), Others(t),
         entryStack'[j] = entryStack[j], EntriesOf(t, j) => EntriesOf(t, j)',
         HasEntered(t, j)' => HasEntered(t, j)
  PROVE  \E u \in Thread : EntriesOf(u, j)' /\ OnlyThreadIn(u, j)'
<1>1. PICK u \in Thread : EntriesOf(u, j) /\ OnlyThreadIn(u, j)
  BY DEF StackInv
<1>2. \A v \in Thread : HasEntered(v, j)' => HasEntered(v, j)
  BY DEF Others, HasEntered
<1>3. OnlyThreadIn(u, j)'
  BY <1>1, <1>2 DEF OnlyThreadIn
<1>4. EntriesOf(u, j)'
  <2>1. CASE u = t
    BY <1>1, <2>1
  <2>2. CASE u # t
    <3>1. Untouched(u, j, Len(frames[u]))
      BY <2>2, FrameLists DEF Untouched, Others
    <3> QED
      BY <1>1, <3>1, EntriesKept
  <2> QED
    BY <2>1, <2>2
<1> QED
  BY <1>3, <1>4

---------------------------------------------------------------------------
(* The invariant, one lemma for each thing that a step can do to the objects *)
(* and entries of a thread.                                                  *)

\* What the lemmas below assume and what they show of the next state.
EntryInv == EntryTypes /\ SlotInv /\ FrameInv /\ StackInv /\ default_isolate \in allocated

\* The parts of the invariant that speak of one thread, after a step of t.
LEMMA ThreadParts ==
  ASSUME EntryInv, NEW t \in Thread, Others(t), UNCHANGED <<allocated, program>>,
         \A u \in Thread \ {t} : data'[u] = data[u] /\ current'[u] = current[u],
         SlotOK(t)', FrameOK(t)'
  PROVE  SlotInv' /\ FrameInv'
<1>1. ASSUME NEW u \in Thread \ {t} PROVE SlotOK(u)' /\ FrameOK(u)'
  <2>1. SlotOK(u) /\ FrameOK(u) /\ frames'[u] = frames[u] /\ (u \in auto') = (u \in auto)
    BY DEF EntryInv, SlotInv, FrameInv, Others
  <2>2. \A n \in 0 .. Len(frames[u]) : InAt(u, n)' = InAt(u, n) /\ DataAt(u, n)' = DataAt(u, n)
    BY <2>1, FrameLists, LevelsKept DEF EntryInv
  <2>3. Len(frames[u]) \in 0 .. Len(frames[u]) /\ Len(frames[u]) \in Nat
    BY FrameLists DEF EntryInv
  <2>4. SlotOK(u)'
    BY <2>1, <2>2, <2>3 DEF SlotOK, SlotFor
  <2>5. FrameOK(u)'
    <3> SUFFICES ASSUME NEW n \in 1 .. Len(frames'[u])
                 PROVE  /\ frames'[u][n].isolate \in allocated'
                        /\ IF frames'[u][n].kind = "Scope"
                             THEN /\ frames'[u][n].before \in SlotFor(InAt(u, n - 1)')
                                  /\ UseLockers' => frames'[u][n].isolate # default_isolate
                             ELSE /\ UseLockers' /\ u \in auto'
                                  /\ frames'[u][n].isolate = default_isolate
                                  /\ InAt(u, n - 1)' = default_isolate
      BY DEF FrameOK, SlotFor
    <3>1. n \in 1 .. Len(frames[u]) /\ InAt(u, n - 1)' = InAt(u, n - 1) /\ UseLockers' = UseLockers
      BY <2>1, <2>2, <2>3 DEF UseLockers
    <3> QED
      BY <2>1, <3>1 DEF FrameOK
  <2> QED
    BY <2>4, <2>5
<1> QED
  BY <1>1 DEF SlotInv, FrameInv

\* What a step does that changes neither the objects nor the entries.
LEMMA QuietKeeps ==
  ASSUME EntryInv, UNCHANGED <<entryVars, frames, auto, program>>
  PROVE  EntryTypes' /\ SlotInv' /\ StackInv' /\ ((allocated \subseteq allocated') => FrameInv')
<1>1. \A t \in Thread, n \in Nat : InAt(t, n)' = InAt(t, n) /\ DataAt(t, n)' = DataAt(t, n)
  BY DEF InAt, DataAt
<1>2. EntryTypes'
  BY DEF EntryInv, EntryTypes, entryVars
<1>3. SlotInv'
  BY DEF EntryInv, SlotInv, SlotOK, SlotFor, InAt, DataAt, entryVars
<1>4. StackInv'
  BY DEF EntryInv, StackInv, EntriesOf, Entries, OnlyThreadIn, HasEntered, Shared, UseLockers,
         InAt, DataAt, entryVars
<1>5. allocated \subseteq allocated' => FrameInv'
  BY DEF EntryInv, FrameInv, FrameOK, SlotFor, UseLockers, InAt
<1> QED
  BY <1>2, <1>3, <1>4, <1>5

LEMMA EnterScopeKeeps ==
  ASSUME EntryInv, OwnEntries, NEW t \in Thread, NEW i \in Isolate, EnterScope(t, i)
  PROVE  EntryTypes' /\ SlotInv' /\ FrameInv' /\ StackInv'
<1>1. /\ MayEnter(t, i) /\ i \in allocated /\ Push(t, "Scope", i, FALSE) /\ Enter(t, i, current)
      /\ UNCHANGED <<allocated, auto, program>>
  BY DEF EnterScope
<1>2. ~Shared(i) /\ OnlyThreadIn(t, i)
  BY <1>1 DEF MayEnter, Shared, UseLockers, OwnEntries, EntryInv, EntryTypes
<1>3. EntriesOf(t, i)
  BY <1>2, MyEntries DEF EntryInv
<1>4. /\ EntriesOf(t, i)'
      /\ \A j \in Isolate \ {i} : entryStack'[j] = entryStack[j]
      /\ entryStack' \in [Isolate -> Seq(EntryStackItem)]
      /\ current' = [current EXCEPT ![t] = i]
      /\ data' = [data EXCEPT ![t] = [isolate |-> i, thread |-> t]]
  <2>1. CASE IsEntered(t, i)
    <3>1. /\ EntriesOf(t, i)'
          /\ \A j \in Isolate \ {i} : entryStack'[j] = entryStack[j]
          /\ entryStack' \in [Isolate -> Seq(EntryStackItem)]
          /\ current' = current /\ data' = data
      BY <1>1, <1>3, <2>1, EntriesCountUp DEF EntryInv
    <3>2. InAt(t, Len(frames[t])) = i /\ current[t] = i
      BY <2>1, SlotMeaning DEF EntryInv, IsEntered
    <3>3. data[t] = [isolate |-> i, thread |-> t]
      BY <3>2, Separate DEF EntryInv, SlotInv, SlotOK, DataAt
    <3> QED
      BY <3>1, <3>2, <3>3 DEF EntryInv, EntryTypes
  <2>2. CASE ~IsEntered(t, i)
    BY <1>1, <1>3, <2>2, EntriesPush DEF EntryInv
  <2> QED
    BY <2>1, <2>2
<1> SUFFICES ASSUME NEW len, len = Len(frames[t])
             PROVE  EntryTypes' /\ SlotInv' /\ FrameInv' /\ StackInv'
  OBVIOUS
<1>5. /\ len \in Nat /\ Others(t) /\ Len(frames'[t]) = len + 1
      /\ \A n \in 1 .. len : frames'[t][n] = frames[t][n]
      /\ frames'[t][len + 1].kind = "Scope" /\ frames'[t][len + 1].isolate = i
      /\ frames'[t][len + 1].before = current[t]
  <2>1. len \in Nat
    BY FrameLists DEF EntryInv
  <2>2. \A u \in Thread \ {t} : frames'[u] = frames[u]
    BY <1>1, PushAppends, Zenon DEF EntryInv
  <2>3. /\ Len(frames'[t]) = len + 1 /\ \A n \in 1 .. len : frames'[t][n] = frames[t][n]
        /\ frames'[t][len + 1].kind = "Scope" /\ frames'[t][len + 1].isolate = i
        /\ frames'[t][len + 1].before = current[t]
    BY <1>1, PushAppends, Zenon DEF EntryInv
  <2> QED
    BY <1>1, <2>1, <2>2, <2>3 DEF Others
<1>6. \A n \in 0 .. len : InAt(t, n)' = InAt(t, n) /\ DataAt(t, n)' = DataAt(t, n)
  BY <1>1, <1>5, LevelsKept
<1>7. InAt(t, len + 1)' = i
  <2>1. len + 1 # 0 /\ frames'[t][len + 1].isolate = i
    BY <1>5
  <2> QED
    BY <2>1 DEF InAt
<1>8. EntryTypes'
  <2>1. [isolate |-> i, thread |-> t] \in ThreadData
    BY DEF ThreadData
  <2>2. current' \in [Thread -> Isolate \cup {NoIsolate}] /\ data' \in [Thread -> ThreadData]
    BY <1>4, <2>1 DEF EntryInv, EntryTypes
  <2>3. frames' \in [Thread -> Seq(Frame)]
    <3>1. [kind |-> "Scope", isolate |-> i, has_lock |-> FALSE, before |-> current[t]] \in Frame
      BY DEF Frame, EntryInv, EntryTypes
    <3> QED
      BY <1>1, <3>1 DEF Push, EntryInv, EntryTypes
  <2> QED
    BY <1>1, <1>4, <2>2, <2>3 DEF EntryInv, EntryTypes
<1>9. SlotOK(t)'
  <2>1. current'[t] = i /\ data'[t] = [isolate |-> i, thread |-> t]
    BY <1>4 DEF EntryInv, EntryTypes
  <2>2. DataAt(t, len + 1)' = data'[t]
    BY <1>7, <2>1, Separate DEF DataAt
  <2> QED
    BY <1>5, <1>7, <2>1, <2>2, Separate DEF SlotOK, SlotFor
<1>10. FrameOK(t)'
  <2> SUFFICES ASSUME NEW n \in 1 .. Len(frames'[t])
               PROVE  /\ frames'[t][n].isolate \in allocated'
                      /\ IF frames'[t][n].kind = "Scope"
                           THEN /\ frames'[t][n].before \in SlotFor(InAt(t, n - 1)')
                                /\ UseLockers' => frames'[t][n].isolate # default_isolate
                           ELSE /\ UseLockers' /\ t \in auto'
                                /\ frames'[t][n].isolate = default_isolate
                                /\ InAt(t, n - 1)' = default_isolate
    BY DEF FrameOK, SlotFor
  <2>1. UseLockers' = UseLockers
    BY <1>1 DEF UseLockers
  <2>2. CASE n = len + 1
    <3>1. n - 1 = len /\ InAt(t, n - 1)' = InAt(t, len) /\ current[t] \in SlotFor(InAt(t, len))
      BY <1>5, <1>6, <2>2 DEF EntryInv, SlotInv, SlotOK
    <3> QED
      BY <1>1, <1>2, <1>5, <2>1, <2>2, <3>1 DEF Shared
  <2>3. CASE n # len + 1
    <3>1. n \in 1 .. len /\ n - 1 \in 0 .. len
      BY <1>5, <2>3
    <3>2. FrameOK(t)
      BY DEF EntryInv, FrameInv
    <3> QED
      BY <1>1, <1>5, <1>6, <2>1, <3>1, <3>2 DEF FrameOK
  <2> QED
    BY <2>2, <2>3
<1>11. SlotInv' /\ FrameInv'
  <2>1. \A u \in Thread \ {t} : data'[u] = data[u] /\ current'[u] = current[u]
    BY <1>4 DEF EntryInv, EntryTypes
  <2> QED
    BY <1>1, <1>5, <1>9, <1>10, <2>1, ThreadParts
<1>12. StackInv'
  <2>1. ASSUME NEW j \in Isolate, ~Shared(j)'
        PROVE  \E u \in Thread : EntriesOf(u, j)' /\ OnlyThreadIn(u, j)'
    <3>1. ~Shared(j)
      BY <1>1, <2>1 DEF Shared, UseLockers
    <3>2. CASE j = i
      <4>1. \A u \in Thread \ {t} : HasEntered(u, j)' <=> HasEntered(u, j)
        BY <1>5 DEF HasEntered, Others
      <4>2. OnlyThreadIn(t, j)'
        BY <1>2, <3>2, <4>1 DEF OnlyThreadIn
      <4> QED
        BY <1>4, <3>2, <4>2
    <3>3. CASE j # i
      <4>1. Untouched(t, j, len)
        <5>1. \A n \in len + 1 .. len + 1 : n = len + 1
          BY <1>5
        <5> QED
          BY <1>1, <1>4, <1>5, <3>3, <5>1 DEF Untouched
      <4>2. EntriesOf(t, j) => EntriesOf(t, j)'
        BY <4>1, EntriesKept DEF EntryInv
      <4>3. HasEntered(t, j)' => HasEntered(t, j)
        <5> SUFFICES ASSUME NEW n \in DOMAIN frames'[t], frames'[t][n].kind = "Scope",
                            frames'[t][n].isolate = j
                     PROVE  HasEntered(t, j)
          BY <1>1 DEF HasEntered
        <5>1. n \in 1 .. len + 1
          BY <1>5, <1>8, FrameLists DEF EntryTypes
        <5>2. n \in 1 .. len /\ n \in DOMAIN frames[t]
          BY <1>5, <3>3, <5>1 DEF EntryInv, EntryTypes
        <5> QED
          BY <1>5, <5>2 DEF HasEntered
      <4> QED
        BY <1>4, <1>5, <3>1, <3>3, <4>2, <4>3, StackKept DEF EntryInv
    <3> QED
      BY <3>2, <3>3
  <2>2. ASSUME UseLockers'
        PROVE  \A n \in 1 .. Len(entryStack'[default_isolate]) :
                 entryStack'[default_isolate][n].isolate = default_isolate
    <3>1. UseLockers /\ i # default_isolate
      BY <1>1, <1>2, <2>2 DEF UseLockers, Shared
    <3>2. entryStack'[default_isolate] = entryStack[default_isolate]
      BY <1>4, <3>1, Separate
    <3> QED
      BY <3>1, <3>2 DEF EntryInv, StackInv
  <2> QED
    BY <2>1, <2>2 DEF StackInv
<1> QED
  BY <1>8, <1>11, <1>12

\* An object is popped and the slots are what they were below it.
LEMMA PopKeepsThread ==
  ASSUME EntryInv, NEW t \in Thread, frames[t] # <<>>, Pop(t), UNCHANGED <<allocated, auto, program>>,
         NEW len, len = Len(frames[t]),
         data'[t] = DataAt(t, len - 1), current'[t] \in SlotFor(InAt(t, len - 1)),
         \A u \in Thread \ {t} : data'[u] = data[u] /\ current'[u] = current[u]
  PROVE  SlotInv' /\ FrameInv'
<1>1. /\ Others(t) /\ len \in Nat \ {0} /\ len - 1 \in Nat /\ Len(frames'[t]) = len - 1
      /\ \A n \in 1 .. len - 1 : frames'[t][n] = frames[t][n]
  BY PopTakesLast DEF EntryInv, Others
<1>2. \A n \in 0 .. len - 1 : InAt(t, n)' = InAt(t, n) /\ DataAt(t, n)' = DataAt(t, n)
  BY <1>1, LevelsKept
<1>3. SlotOK(t)'
  <2> SUFFICES ASSUME NEW m, m = len - 1 PROVE SlotOK(t)'
    OBVIOUS
  <2>1. InAt(t, m)' = InAt(t, m) /\ DataAt(t, m)' = DataAt(t, m) /\ m = Len(frames'[t])
    BY <1>1, <1>2
  <2> QED
    BY <2>1 DEF SlotOK, SlotFor
<1>4. FrameOK(t)'
  <2> SUFFICES ASSUME NEW n \in 1 .. Len(frames'[t])
               PROVE  /\ frames'[t][n].isolate \in allocated'
                      /\ IF frames'[t][n].kind = "Scope"
                           THEN /\ frames'[t][n].before \in SlotFor(InAt(t, n - 1)')
                                /\ UseLockers' => frames'[t][n].isolate # default_isolate
                           ELSE /\ UseLockers' /\ t \in auto'
                                /\ frames'[t][n].isolate = default_isolate
                                /\ InAt(t, n - 1)' = default_isolate
    BY DEF FrameOK, SlotFor
  <2>1. UseLockers' = UseLockers
    BY DEF UseLockers
  <2>2. n \in 1 .. len /\ n \in 1 .. len - 1 /\ n - 1 \in 0 .. len - 1
    BY <1>1
  <2>3. FrameOK(t)
    BY DEF EntryInv, FrameInv
  <2> QED
    BY <1>1, <1>2, <2>1, <2>2, <2>3 DEF FrameOK
<1> QED
  BY <1>1, <1>3, <1>4, ThreadParts

LEMMA PopType ==
  ASSUME EntryTypes, NEW t \in Thread, frames[t] # <<>>, Pop(t)
  PROVE  frames' \in [Thread -> Seq(Frame)]
<1>1. frames \in [Thread -> Seq(Frame)] /\ frames[t] \in Seq(Frame)
  BY DEF EntryTypes
<1>2. Front(frames[t]) \in Seq(Frame)
  BY <1>1, LastFront
<1> QED
  BY <1>1, <1>2 DEF Pop

\* What is said of one entry of the data survives: its thread and isolate.
LEMMA DataAtType ==
  ASSUME EntryTypes, NEW t \in Thread, NEW n \in 0 .. Len(frames[t])
  PROVE  DataAt(t, n) \in ThreadData /\ InAt(t, n) \in Isolate \cup {NoIsolate}
<1>1. InAt(t, n) \in Isolate \cup {NoIsolate}
  BY FrameLists, Separate DEF InAt
<1> QED
  BY <1>1 DEF DataAt, ThreadData

\* The Exit of a Scope takes an entry that this thread pushed, and restores
\* both slots.
LEMMA ExitScopeRestores ==
  ASSUME EntryInv, NEW t \in Thread, ExitScope(t), NEW i, i = Top(t).isolate
  PROVE  /\ i \in Isolate /\ ~Shared(i) /\ EntriesOf(t, i)' /\ OnlyThreadIn(t, i)
         /\ \A j \in Isolate \ {i} : entryStack'[j] = entryStack[j]
         /\ entryStack' \in [Isolate -> Seq(EntryStackItem)]
         /\ current' = [current EXCEPT ![t] = Top(t).before]
         /\ data' = [data EXCEPT ![t] = DataAt(t, Len(frames[t]) - 1)]
<1>1. EntryTypes /\ SlotInv /\ FrameInv /\ StackInv
  BY DEF EntryInv
<1>2. ExitsTop(t, i)
  BY DEF ExitScope, ExitsTop
<1> SUFFICES ASSUME NEW len, len = Len(frames[t])
             PROVE  /\ i \in Isolate /\ ~Shared(i) /\ EntriesOf(t, i)' /\ OnlyThreadIn(t, i)
                    /\ \A j \in Isolate \ {i} : entryStack'[j] = entryStack[j]
                    /\ entryStack' \in [Isolate -> Seq(EntryStackItem)]
                    /\ current' = [current EXCEPT ![t] = Top(t).before]
                    /\ data' = [data EXCEPT ![t] = DataAt(t, len - 1)]
  BY <1>2
<1>3. len \in Nat \ {0} /\ Top(t) = frames[t][len]
  BY <1>1, <1>2, PopTakesLast DEF ExitsTop
<1>4. len \in 1 .. len /\ frames[t][len].isolate = i /\ frames[t][len].kind = "Scope"
  BY <1>2, <1>3 DEF ExitsTop
<1>5. i \in Isolate
  BY <1>1, <1>4, FrameLists
<1>6. ~Shared(i)
  BY <1>1, <1>4 DEF FrameInv, FrameOK, Shared
<1>7. HasEntered(t, i)
  <2>1. len \in DOMAIN frames[t]
    BY <1>1, <1>4, FrameLists
  <2> QED
    BY <1>4, <2>1 DEF HasEntered
<1>8. EntriesOf(t, i) /\ OnlyThreadIn(t, i)
  BY <1>1, <1>5, <1>6, <1>7, MyEntries
<1>9. CASE Last(entryStack[i]).count > 1
  <2>1. /\ EntriesOf(t, i)'
        /\ \A j \in Isolate \ {i} : entryStack'[j] = entryStack[j]
        /\ entryStack' \in [Isolate -> Seq(EntryStackItem)]
        /\ current' = current /\ data' = data
        /\ current[t] = Top(t).before /\ data[t] = DataAt(t, len - 1)
    BY <1>1, <1>2, <1>5, <1>8, <1>9, EntriesCountDown
  <2>2. current = [current EXCEPT ![t] = current[t]] /\ data = [data EXCEPT ![t] = data[t]]
    BY <1>1 DEF EntryTypes
  <2> QED
    BY <1>5, <1>6, <1>8, <2>1, <2>2
<1>10. CASE ~(Last(entryStack[i]).count > 1)
  BY <1>1, <1>2, <1>5, <1>6, <1>8, <1>10, EntriesPop
<1> QED
  BY <1>9, <1>10

LEMMA ExitScopeKeeps ==
  ASSUME EntryInv, NEW t \in Thread, ExitScope(t)
  PROVE  EntryTypes' /\ SlotInv' /\ FrameInv' /\ StackInv'
<1> SUFFICES ASSUME NEW i, i = Top(t).isolate, NEW len, len = Len(frames[t])
             PROVE  EntryTypes' /\ SlotInv' /\ FrameInv' /\ StackInv'
  OBVIOUS
<1>1. /\ i \in Isolate /\ ~Shared(i) /\ EntriesOf(t, i)' /\ OnlyThreadIn(t, i)
      /\ \A j \in Isolate \ {i} : entryStack'[j] = entryStack[j]
      /\ entryStack' \in [Isolate -> Seq(EntryStackItem)]
  BY ExitScopeRestores
<1>2. /\ current' = [current EXCEPT ![t] = Top(t).before]
      /\ data' = [data EXCEPT ![t] = DataAt(t, len - 1)]
  BY ExitScopeRestores
<1>3. /\ EntryTypes /\ UNCHANGED <<allocated, auto, program>>
      /\ frames[t] # <<>> /\ Pop(t) /\ Top(t).kind = "Scope"
  BY DEF EntryInv, ExitScope
<1>4. /\ \A u \in Thread \ {t} : frames'[u] = frames[u]
      /\ len \in Nat \ {0} /\ Top(t) = frames[t][len]
      /\ Len(frames'[t]) = len - 1
      /\ \A n \in 1 .. len - 1 : frames'[t][n] = frames[t][n]
  BY <1>3, PopTakesLast
<1>5. len \in 1 .. len /\ len - 1 \in 0 .. len /\ Others(t)
  BY <1>3, <1>4 DEF Others
<1>6. frames[t][len] \in Frame /\ Top(t).before \in Isolate \cup {NoIsolate}
  BY <1>3, <1>4, <1>5, FrameLists DEF Frame
<1>7. EntryTypes'
  <2>1. frames' \in [Thread -> Seq(Frame)]
    BY <1>3, PopType
  <2>2. DataAt(t, len - 1) \in ThreadData
    BY <1>3, <1>5, DataAtType
  <2> QED
    BY <1>1, <1>2, <1>3, <1>6, <2>1, <2>2 DEF EntryTypes
<1>8. SlotInv' /\ FrameInv'
  <2>1. Top(t).before \in SlotFor(InAt(t, len - 1))
    BY <1>3, <1>4, <1>5 DEF EntryInv, FrameInv, FrameOK
  <2>2. /\ data'[t] = DataAt(t, len - 1) /\ current'[t] = Top(t).before
        /\ \A u \in Thread \ {t} : data'[u] = data[u] /\ current'[u] = current[u]
    BY <1>2, <1>3 DEF EntryTypes
  <2> QED
    BY <1>3, <2>1, <2>2, PopKeepsThread
<1>9. ASSUME NEW j \in Isolate, HasEntered(t, j)' PROVE HasEntered(t, j)
  <2> SUFFICES ASSUME NEW n \in DOMAIN frames'[t], frames'[t][n].kind = "Scope",
                      frames'[t][n].isolate = j
               PROVE  HasEntered(t, j)
    BY <1>3, <1>9 DEF HasEntered
  <2>1. n \in 1 .. len - 1
    BY <1>4, <1>7, FrameLists DEF EntryTypes
  <2>2. n \in DOMAIN frames[t] /\ frames'[t][n] = frames[t][n]
    BY <1>3, <1>4, <2>1 DEF EntryTypes
  <2> QED
    BY <2>2 DEF HasEntered
<1>10. StackInv'
  <2>1. ASSUME NEW j \in Isolate, ~Shared(j)'
        PROVE  \E u \in Thread : EntriesOf(u, j)' /\ OnlyThreadIn(u, j)'
    <3>1. ~Shared(j)
      BY <1>3, <2>1 DEF Shared, UseLockers
    <3>2. CASE j = i
      <4>1. \A u \in Thread \ {t} : HasEntered(u, j)' <=> HasEntered(u, j)
        BY <1>5 DEF HasEntered, Others
      <4>2. OnlyThreadIn(t, j)'
        BY <1>1, <3>2, <4>1 DEF OnlyThreadIn
      <4> QED
        BY <1>1, <3>2, <4>2
    <3>3. CASE j # i
      <4>1. Untouched(t, j, len - 1)
        <5>1. \A n \in len - 1 + 1 .. len : n = len
          BY <1>4
        <5>2. frames[t][len].isolate # j
          BY <1>4, <3>3
        <5>3. len - 1 \in 0 .. Len(frames'[t]) /\ len - 1 + 1 .. Len(frames'[t]) = {}
          BY <1>4
        <5> QED
          BY <1>1, <1>3, <1>4, <1>5, <3>3, <5>1, <5>2, <5>3 DEF Untouched
      <4>2. EntriesOf(t, j) => EntriesOf(t, j)'
        BY <1>3, <4>1, EntriesKept
      <4> QED
        BY <1>1, <1>5, <1>9, <3>1, <3>3, <4>2, StackKept DEF EntryInv
    <3> QED
      BY <3>2, <3>3
  <2>2. ASSUME UseLockers'
        PROVE  \A n \in 1 .. Len(entryStack'[default_isolate]) :
                 entryStack'[default_isolate][n].isolate = default_isolate
    <3>1. UseLockers /\ i # default_isolate
      BY <1>1, <1>3, <2>2 DEF UseLockers, Shared
    <3>2. entryStack'[default_isolate] = entryStack[default_isolate]
      BY <1>1, <3>1, Separate
    <3> QED
      BY <3>1, <3>2 DEF EntryInv, StackInv
  <2> QED
    BY <2>1, <2>2 DEF StackInv
<1> QED
  BY <1>7, <1>8, <1>10

\* No entries and no level in the isolate.
LEMMA EmptyEntries ==
  ASSUME NEW t \in Thread, NEW j \in Isolate, Len(entryStack'[j]) = 0, Len(frames'[t]) \in Nat,
         \A n \in 0 .. Len(frames'[t]) : InAt(t, n)' # j
  PROVE  EntriesOf(t, j)'
<1>1. 1 .. Len(entryStack'[j]) = {}
  OBVIOUS
<1> DEFINE S == [k \in {} |-> 0]
<1>2. S \in [1 .. Len(entryStack'[j]) -> 0 .. Len(frames'[t])]
  BY <1>1
<1> HIDE DEF S
<1>3. Entries(t, j, S)'
  BY <1>1, <1>2 DEF Entries
<1> QED
  BY <1>2, <1>3 DEF EntriesOf

\* A thread with no objects enters or leaves the default isolate: the entries
\* of the others are not its.
LEMMA OtherEntries ==
  ASSUME EntryInv, NEW t \in Thread, frames[t] = <<>>, Len(frames'[t]) \in Nat,
         \A n \in 1 .. Len(frames'[t]) : frames'[t][n].isolate = default_isolate,
         NEW j \in Isolate, j # default_isolate, entryStack'[j] = entryStack[j], EntriesOf(t, j)
  PROVE  EntriesOf(t, j)'
<1>1. Len(frames[t]) = 0 /\ EntryTypes
  BY FrameLists DEF EntryInv
<1>2. \A n \in 0 .. Len(frames[t]) : InAt(t, n) # j
  BY <1>1, Separate DEF InAt
<1>3. Len(entryStack[j]) = 0
  BY <1>1, <1>2, NoEntries, EntryLists
<1>4. \A n \in 0 .. Len(frames'[t]) : InAt(t, n)' # j
  BY Separate DEF InAt
<1> QED
  BY <1>3, <1>4, EmptyEntries

\* The first time that a thread uses V8 in no isolate, or locks.
LEMMA FirstKeeps ==
  ASSUME EntryInv, NEW t \in Thread, data[t] = NoData, Others(t), UNCHANGED <<allocated, program>>,
         Enter(t, default_isolate, EnsureDefaultIsolate(t)), auto' = auto \cup {t},
         frames' \in [Thread -> Seq(Frame)], Len(frames'[t]) \in 0 .. 1,
         Len(frames'[t]) = 1 => /\ UseLockers /\ frames'[t][1].kind = "Locker"
                                /\ frames'[t][1].isolate = default_isolate,
         UseLockers \/ (Len(frames'[t]) = 0 /\ OnlyThreadIn(t, default_isolate))
  PROVE  EntryTypes' /\ SlotInv' /\ FrameInv' /\ StackInv'
<1>1. EntryTypes /\ SlotInv /\ FrameInv /\ StackInv /\ default_isolate \in Isolate
  BY Separate DEF EntryInv
<1>2. frames[t] = <<>> /\ Len(frames[t]) = 0 /\ t \notin auto /\ ~IsEntered(t, default_isolate)
  BY <1>1, SlotMeaning, FrameLists DEF IsEntered
<1> SUFFICES ASSUME NEW slot, slot = EnsureDefaultIsolate(t)
             PROVE  EntryTypes' /\ SlotInv' /\ FrameInv' /\ StackInv'
  OBVIOUS
<1>3. slot \in [Thread -> Isolate \cup {NoIsolate}] /\ slot = [current EXCEPT ![t] = default_isolate]
  BY <1>1 DEF EntryTypes, EnsureDefaultIsolate
<1> DEFINE E == entryStack[default_isolate]
           F == entryStack'[default_isolate]
<1>4. /\ \A j \in Isolate \ {default_isolate} : entryStack'[j] = entryStack[j]
      /\ Len(F) = Len(E) + 1 /\ Len(E) \in Nat
      /\ \A k \in 1 .. Len(E) : F[k] = E[k]
      /\ F[Len(E) + 1] = NewEntry(t, slot)
      /\ current' = [slot EXCEPT ![t] = default_isolate]
      /\ data' = [data EXCEPT ![t] = [isolate |-> default_isolate, thread |-> t]]
      /\ entryStack' \in [Isolate -> Seq(EntryStackItem)]
  <2>1. /\ Enter(t, default_isolate, slot) /\ ~IsEntered(t, default_isolate)
        /\ slot \in [Thread -> Isolate \cup {NoIsolate}]
    BY <1>2, <1>3
  <2>2. Pushed(t, default_isolate, slot)
    BY <1>1, <2>1, EnterPushes
  <2> QED
    BY <2>2 DEF Pushed
<1> HIDE DEF E, F
<1>5. current' = [current EXCEPT ![t] = default_isolate]
  BY <1>1, <1>3, <1>4 DEF EntryTypes
<1>6. EntryTypes'
  <2>1. [isolate |-> default_isolate, thread |-> t] \in ThreadData
    BY <1>1 DEF ThreadData
  <2>2. data' \in [Thread -> ThreadData] /\ current' \in [Thread -> Isolate \cup {NoIsolate}]
    BY <1>1, <1>4, <1>5, <2>1 DEF EntryTypes
  <2> QED
    BY <1>1, <1>4, <2>2 DEF EntryTypes
<1>7. /\ data'[t] = [isolate |-> default_isolate, thread |-> t] /\ current'[t] = default_isolate
      /\ \A u \in Thread \ {t} : data'[u] = data[u] /\ current'[u] = current[u]
  BY <1>1, <1>4, <1>5 DEF EntryTypes
<1>8. \A n \in 1 .. Len(frames'[t]) :
        /\ n = 1 /\ UseLockers
        /\ frames'[t][n].kind = "Locker" /\ frames'[t][n].isolate = default_isolate
  <2> TAKE n \in 1 .. Len(frames'[t])
  <2>0. \A m \in 0 .. 1 : \A k \in 1 .. m : k = 1 /\ m = 1
    OBVIOUS
  <2>1. n = 1 /\ Len(frames'[t]) = 1
    BY <2>0, Zenon
  <2> QED
    BY <2>1
<1>9. \A n \in 0 .. Len(frames'[t]) : InAt(t, n)' = default_isolate
  BY <1>8 DEF InAt
<1>10. SlotOK(t)'
  <2> SUFFICES ASSUME NEW m, m = Len(frames'[t]) PROVE SlotOK(t)'
    OBVIOUS
  <2>1. InAt(t, m)' = default_isolate
    BY <1>9
  <2>2. DataAt(t, m)' = data'[t]
    BY <1>1, <1>7, <2>1, Separate DEF DataAt
  <2> QED
    BY <1>1, <1>7, <2>1, <2>2, Separate DEF SlotOK, SlotFor
<1>11. FrameOK(t)'
  <2>1. UseLockers' = UseLockers /\ default_isolate \in allocated'
    BY DEF UseLockers, EntryInv
  <2>2. InAt(t, 0)' = default_isolate /\ 1 - 1 = 0
    BY DEF InAt
  <2>3. \A n \in 1 .. Len(frames'[t]) : InAt(t, n - 1)' = default_isolate
    BY <1>8, <2>2
  <2> QED
    BY <1>8, <2>1, <2>3 DEF FrameOK
<1>12. SlotInv' /\ FrameInv'
  BY <1>7, <1>10, <1>11, ThreadParts
<1>13. \A u \in Thread \ {t}, j \in Isolate : HasEntered(u, j)' <=> HasEntered(u, j)
  BY DEF HasEntered, Others
<1>14. ASSUME NEW j \in Isolate, ~Shared(j)'
       PROVE  \E u \in Thread : EntriesOf(u, j)' /\ OnlyThreadIn(u, j)'
  <2>1. ~Shared(j)
    BY <1>14 DEF Shared, UseLockers
  <2>2. CASE j = default_isolate
    <3>1. ~UseLockers /\ Len(frames'[t]) = 0 /\ OnlyThreadIn(t, default_isolate)
      BY <2>1, <2>2 DEF Shared
    <3>2. EntriesOf(t, default_isolate)
      BY <1>1, <2>1, <2>2, <3>1, MyEntries
    <3>3. EntriesOf(t, default_isolate)'
      BY <1>1, <3>1, <3>2, EntriesFirst
    <3>4. OnlyThreadIn(t, default_isolate)'
      BY <1>1, <1>13, <3>1 DEF OnlyThreadIn
    <3> QED
      BY <2>2, <3>3, <3>4
  <2>3. CASE j # default_isolate
    <3>1. entryStack'[j] = entryStack[j]
      BY <1>4, <2>3
    <3>2. EntriesOf(t, j) => EntriesOf(t, j)'
      <4>1. Len(frames'[t]) \in Nat
        OBVIOUS
      <4> QED
        BY <1>2, <1>8, <2>3, <3>1, <4>1, OtherEntries
    <3>3. HasEntered(t, j)' => HasEntered(t, j)
      <4>1. DOMAIN frames'[t] = 1 .. Len(frames'[t])
        <5>1. frames'[t] \in Seq(Frame)
          OBVIOUS
        <5> QED
          BY <5>1
      <4> QED
        BY <1>8, <2>3, <4>1 DEF HasEntered
    <3> QED
      BY <1>1, <2>1, <3>1, <3>2, <3>3, StackKept
  <2> QED
    BY <2>2, <2>3
<1>15. ASSUME UseLockers'
       PROVE  \A n \in 1 .. Len(F) : F[n].isolate = default_isolate
  <2>1. UseLockers
    BY <1>15 DEF UseLockers
  <2>2. \A n \in 1 .. Len(E) : E[n].isolate = default_isolate
    BY <1>1, <2>1 DEF StackInv, E
  <2>3. F[Len(E) + 1].isolate = default_isolate
    BY <1>1, <1>3, <1>4 DEF NewEntry, EntryTypes
  <2> TAKE n \in 1 .. Len(F)
  <2>4. n \in 1 .. Len(E) \/ n = Len(E) + 1
    BY <1>4
  <2> QED
    BY <1>4, <2>2, <2>3, <2>4
<1>16. StackInv'
  BY <1>14, <1>15 DEF StackInv, F
<1> QED
  BY <1>6, <1>12, <1>16

LEMMA ExitDefaultKeeps ==
  ASSUME EntryInv, NEW t \in Thread, ExitDefault(t)
  PROVE  EntryTypes' /\ SlotInv' /\ FrameInv' /\ StackInv'
<1>1. EntryTypes /\ SlotInv /\ FrameInv /\ StackInv /\ default_isolate \in Isolate
  BY Separate DEF EntryInv
<1>2. /\ ~UseLockers /\ t \in auto /\ frames[t] = <<>> /\ Exit(t, default_isolate)
      /\ auto' = auto \ {t} /\ UNCHANGED <<allocated, frames, program>>
  BY DEF ExitDefault
<1>3. ~Shared(default_isolate) /\ HasEntered(t, default_isolate)
  BY <1>2 DEF Shared, HasEntered
<1>4. EntriesOf(t, default_isolate) /\ OnlyThreadIn(t, default_isolate)
  BY <1>1, <1>3, MyEntries
<1>5. /\ EntriesOf(t, default_isolate)'
      /\ \A j \in Isolate \ {default_isolate} : entryStack'[j] = entryStack[j]
      /\ entryStack' \in [Isolate -> Seq(EntryStackItem)]
      /\ current' = [current EXCEPT ![t] = default_isolate]
      /\ data' = [data EXCEPT ![t] = NoData]
  BY <1>1, <1>2, <1>4, EntriesLeave
<1>6. EntryTypes'
  BY <1>1, <1>2, <1>5 DEF EntryTypes, ThreadData
<1>7. /\ data'[t] = NoData /\ current'[t] = default_isolate /\ Others(t) /\ Len(frames'[t]) = 0
      /\ \A u \in Thread \ {t} : data'[u] = data[u] /\ current'[u] = current[u]
  BY <1>1, <1>2, <1>5, FrameLists DEF EntryTypes, Others
<1>8. InAt(t, 0)' = NoIsolate
  BY <1>2 DEF InAt
<1>9. SlotOK(t)'
  <2>1. DataAt(t, 0)' = NoData
    BY <1>8 DEF DataAt
  <2> QED
    BY <1>7, <1>8, <2>1 DEF SlotOK, SlotFor
<1>10. FrameOK(t)'
  BY <1>7 DEF FrameOK
<1>11. SlotInv' /\ FrameInv'
  BY <1>2, <1>7, <1>9, <1>10, ThreadParts
<1>12. \A u \in Thread, j \in Isolate : HasEntered(u, j)' => HasEntered(u, j)
  BY <1>2 DEF HasEntered
<1>13. ASSUME NEW j \in Isolate, ~Shared(j)'
       PROVE  \E u \in Thread : EntriesOf(u, j)' /\ OnlyThreadIn(u, j)'
  <2>1. ~Shared(j)
    BY <1>2, <1>13 DEF Shared, UseLockers
  <2>2. CASE j = default_isolate
    <3>1. OnlyThreadIn(t, default_isolate)'
      BY <1>1, <1>4, <1>12 DEF OnlyThreadIn
    <3> QED
      BY <1>5, <2>2, <3>1
  <2>3. CASE j # default_isolate
    <3>1. entryStack'[j] = entryStack[j]
      BY <1>5, <2>3
    <3>2. EntriesOf(t, j) => EntriesOf(t, j)'
      <4>1. Len(frames'[t]) \in Nat /\ 1 .. Len(frames'[t]) = {}
        BY <1>7
      <4> QED
        BY <1>2, <2>3, <3>1, <4>1, OtherEntries
    <3> QED
      BY <1>1, <1>7, <1>12, <2>1, <3>1, <3>2, StackKept
  <2> QED
    BY <2>2, <2>3
<1>14. StackInv'
  BY <1>2, <1>13 DEF StackInv, UseLockers
<1> QED
  BY <1>6, <1>11, <1>14

\* A Locker or Unlocker of a thread that is in the default isolate already.
LEMMA PushDefaultKeeps ==
  ASSUME EntryInv, NEW t \in Thread, NEW kind \in {"Locker", "Unlocker"}, NEW b \in BOOLEAN,
         Push(t, kind, default_isolate, b), UseLockers, t \in auto,
         InAt(t, Len(frames[t])) = default_isolate,
         UNCHANGED <<allocated, entryStack, current, data, auto, program>>
  PROVE  EntryTypes' /\ SlotInv' /\ FrameInv' /\ StackInv'
<1> SUFFICES ASSUME NEW len, len = Len(frames[t])
             PROVE  EntryTypes' /\ SlotInv' /\ FrameInv' /\ StackInv'
  OBVIOUS
<1>1. /\ EntryTypes /\ SlotInv /\ FrameInv /\ StackInv /\ default_isolate \in Isolate
      /\ default_isolate \in allocated /\ UseLockers' = UseLockers /\ kind # "Scope"
  BY Separate DEF EntryInv, UseLockers
<1>2. len \in Nat /\ \A u \in Thread \ {t} : frames'[u] = frames[u]
  <2>1. len \in Nat
    BY <1>1, FrameLists
  <2> QED
    BY <1>1, <2>1, PushAppends, Zenon
<1>3. /\ Len(frames'[t]) = len + 1 /\ \A n \in 1 .. len : frames'[t][n] = frames[t][n]
      /\ frames'[t][len + 1].kind = kind /\ frames'[t][len + 1].isolate = default_isolate
  <2>1. EntryTypes /\ default_isolate \in Isolate
    BY <1>1
  <2>2. /\ Len(frames'[t]) = Len(frames[t]) + 1
        /\ \A n \in 1 .. Len(frames[t]) : frames'[t][n] = frames[t][n]
        /\ frames'[t][Len(frames[t]) + 1].kind = kind
        /\ frames'[t][Len(frames[t]) + 1].isolate = default_isolate
    <3>1. frames[t] \in Seq(Frame) /\ frames \in [Thread -> Seq(Frame)]
      BY <2>1 DEF EntryTypes
    <3>2. frames'[t] = Append(frames[t], [kind |-> kind, isolate |-> default_isolate,
                                          has_lock |-> b, before |-> current[t]])
      BY <3>1 DEF Push
    <3> QED
      BY <3>1, <3>2
  <2> QED
    BY <2>2
<1>4. Others(t)
  BY <1>2 DEF Others
<1>5. \A n \in 0 .. len : InAt(t, n)' = InAt(t, n) /\ DataAt(t, n)' = DataAt(t, n)
  BY <1>2, <1>3, LevelsKept
<1>6. InAt(t, len + 1)' = default_isolate
  <2>1. len + 1 # 0
    BY <1>2
  <2> QED
    BY <1>3, <2>1 DEF InAt
<1>7. EntryTypes'
  <2>1. [kind |-> kind, isolate |-> default_isolate, has_lock |-> b, before |-> current[t]] \in Frame
    BY <1>1 DEF Frame, EntryTypes
  <2>2. frames' \in [Thread -> Seq(Frame)]
    BY <1>1, <2>1 DEF Push, EntryTypes
  <2> QED
    BY <1>1, <2>2 DEF EntryTypes
<1>8. SlotOK(t)'
  <2>1. SlotOK(t)
    BY <1>1 DEF SlotInv
  <2>2. DataAt(t, len + 1)' = DataAt(t, len)
    BY <1>6 DEF DataAt
  <2> QED
    BY <1>3, <1>6, <2>1, <2>2 DEF SlotOK, SlotFor
<1>9. FrameOK(t)'
  <2> SUFFICES ASSUME NEW n \in 1 .. Len(frames'[t])
               PROVE  /\ frames'[t][n].isolate \in allocated'
                      /\ IF frames'[t][n].kind = "Scope"
                           THEN /\ frames'[t][n].before \in SlotFor(InAt(t, n - 1)')
                                /\ UseLockers' => frames'[t][n].isolate # default_isolate
                           ELSE /\ UseLockers' /\ t \in auto'
                                /\ frames'[t][n].isolate = default_isolate
                                /\ InAt(t, n - 1)' = default_isolate
    BY DEF FrameOK, SlotFor
  <2>1. CASE n = len + 1
    <3>1. n - 1 = len /\ InAt(t, n - 1)' = default_isolate
      BY <1>2, <1>5, <2>1
    <3> QED
      BY <1>1, <1>3, <2>1, <3>1
  <2>2. CASE n # len + 1
    <3>1. n \in 1 .. len /\ n - 1 \in 0 .. len
      BY <1>2, <1>3, <2>2
    <3>2. FrameOK(t)
      BY <1>1 DEF FrameInv
    <3> QED
      BY <1>1, <1>3, <1>5, <3>1, <3>2 DEF FrameOK
  <2> QED
    BY <2>1, <2>2
<1>10. SlotInv' /\ FrameInv'
  BY <1>4, <1>8, <1>9, ThreadParts
<1>11. ASSUME NEW j \in Isolate, ~Shared(j)'
       PROVE  \E u \in Thread : EntriesOf(u, j)' /\ OnlyThreadIn(u, j)'
  <2>1. ~Shared(j) /\ j # default_isolate
    BY <1>1, <1>11 DEF Shared
  <2>2. Untouched(t, j, len)
    <3>1. \A n \in len + 1 .. len + 1 : n = len + 1
      BY <1>2
    <3>2. len + 1 .. len = {} /\ len \in 0 .. len /\ len \in 0 .. len + 1
      BY <1>2
    <3> QED
      BY <1>2, <1>3, <2>1, <3>1, <3>2 DEF Untouched
  <2>3. EntriesOf(t, j) => EntriesOf(t, j)'
    BY <1>1, <2>2, EntriesKept
  <2>4. HasEntered(t, j)' => HasEntered(t, j)
    <3> SUFFICES ASSUME NEW n \in DOMAIN frames'[t], frames'[t][n].kind = "Scope",
                        frames'[t][n].isolate = j
                 PROVE  HasEntered(t, j)
      BY DEF HasEntered
    <3>1. n \in 1 .. len + 1
      BY <1>3, <1>7, FrameLists DEF EntryTypes
    <3>2. n \in 1 .. len /\ n \in DOMAIN frames[t]
      BY <1>1, <1>2, <1>3, <2>1, <3>1 DEF EntryTypes
    <3> QED
      BY <1>3, <3>2 DEF HasEntered
  <2> QED
    BY <1>1, <1>4, <2>1, <2>3, <2>4, StackKept
<1>12. StackInv'
  BY <1>1, <1>11 DEF StackInv
<1> QED
  BY <1>7, <1>10, <1>12

\* A Locker or Unlocker goes: the thread stays in the default isolate.
LEMMA PopDefaultKeeps ==
  ASSUME EntryInv, NEW t \in Thread, frames[t] # <<>>, Top(t).kind # "Scope", Pop(t),
         UNCHANGED <<allocated, entryStack, current, data, auto, program>>
  PROVE  EntryTypes' /\ SlotInv' /\ FrameInv' /\ StackInv'
<1> SUFFICES ASSUME NEW len, len = Len(frames[t])
             PROVE  EntryTypes' /\ SlotInv' /\ FrameInv' /\ StackInv'
  OBVIOUS
<1>1. /\ EntryTypes /\ SlotInv /\ FrameInv /\ StackInv /\ default_isolate \in Isolate
      /\ UseLockers' = UseLockers
  BY Separate DEF EntryInv, UseLockers
<1>2. /\ \A u \in Thread \ {t} : frames'[u] = frames[u]
      /\ len \in Nat \ {0} /\ Top(t) = frames[t][len]
      /\ Len(frames'[t]) = len - 1
      /\ \A n \in 1 .. len - 1 : frames'[t][n] = frames[t][n]
  BY <1>1, PopTakesLast
<1>3. len \in 1 .. len /\ len - 1 \in 0 .. len /\ Others(t)
  BY <1>2 DEF Others
<1>4. /\ UseLockers /\ t \in auto /\ frames[t][len].isolate = default_isolate
      /\ InAt(t, len - 1) = default_isolate
  BY <1>1, <1>2, <1>3 DEF FrameInv, FrameOK
<1>5. InAt(t, len) = default_isolate
  <2>1. len # 0
    BY <1>2
  <2> QED
    BY <1>4, <2>1 DEF InAt
<1>6. EntryTypes'
  <2>1. frames' \in [Thread -> Seq(Frame)]
    BY <1>1, PopType
  <2> QED
    BY <1>1, <2>1 DEF EntryTypes
<1>7. SlotInv' /\ FrameInv'
  <2>1. data[t] = DataAt(t, len) /\ current[t] \in SlotFor(InAt(t, len))
    BY <1>1 DEF SlotInv, SlotOK
  <2>2. DataAt(t, len) = DataAt(t, len - 1)
    BY <1>4, <1>5 DEF DataAt
  <2>3. current'[t] \in SlotFor(InAt(t, len - 1)) /\ data'[t] = DataAt(t, len - 1)
    BY <1>4, <1>5, <2>1, <2>2
  <2> QED
    BY <2>3, PopKeepsThread
<1>8. ASSUME NEW j \in Isolate, ~Shared(j)'
      PROVE  \E u \in Thread : EntriesOf(u, j)' /\ OnlyThreadIn(u, j)'
  <2>1. ~Shared(j) /\ j # default_isolate
    BY <1>1, <1>4, <1>8 DEF Shared
  <2>2. Untouched(t, j, len - 1)
    <3>1. \A n \in len - 1 + 1 .. len : n = len
      BY <1>2
    <3>2. len - 1 \in 0 .. Len(frames'[t]) /\ len - 1 + 1 .. Len(frames'[t]) = {}
      BY <1>2
    <3> QED
      BY <1>2, <1>3, <1>4, <2>1, <3>1, <3>2 DEF Untouched
  <2>3. EntriesOf(t, j) => EntriesOf(t, j)'
    BY <1>1, <2>2, EntriesKept
  <2>4. HasEntered(t, j)' => HasEntered(t, j)
    <3> SUFFICES ASSUME NEW n \in DOMAIN frames'[t], frames'[t][n].kind = "Scope",
                        frames'[t][n].isolate = j
                 PROVE  HasEntered(t, j)
      BY DEF HasEntered
    <3>1. n \in 1 .. len - 1
      BY <1>2, <1>6, FrameLists DEF EntryTypes
    <3>2. n \in DOMAIN frames[t] /\ frames'[t][n] = frames[t][n]
      BY <1>1, <1>2, <3>1 DEF EntryTypes
    <3> QED
      BY <3>2 DEF HasEntered
  <2> QED
    BY <1>1, <1>3, <2>1, <2>3, <2>4, StackKept
<1>9. StackInv'
  BY <1>1, <1>8 DEF StackInv
<1> QED
  BY <1>6, <1>7, <1>9

---------------------------------------------------------------------------
(* The steps of Isolates.                                                    *)

LEMMA InitOwn == Init => OwnInv
<1> SUFFICES ASSUME Init PROVE OwnInv
  OBVIOUS
<1>1. \A t \in Thread : frames[t] = <<>> /\ Len(frames[t]) = 0 /\ t \notin auto /\ InAt(t, 0) = NoIsolate
  BY DEF Init, InAt
<1>2. EntryTypes /\ RestTypes
  <2>1. entryStack \in [Isolate -> Seq(EntryStackItem)] /\ frames \in [Thread -> Seq(Frame)]
    BY EmptySeq DEF Init
  <2>2. current \in [Thread -> Isolate \cup {NoIsolate}]
    BY IsolateAssumption DEF Init
  <2>3. data \in [Thread -> ThreadData]
    BY DEF Init, ThreadData
  <2>4. auto \in SUBSET Thread /\ program \in Programs
    BY DEF Init
  <2>5. /\ allocated \in SUBSET Isolate /\ initialized \in SUBSET allocated
        /\ running \in BOOLEAN /\ setup \in BOOLEAN /\ fatal \in BOOLEAN /\ disposed \in BOOLEAN
        /\ holder \in Thread \cup {NoThread}
    BY IsolateAssumption DEF Init
  <2> QED
    BY <2>1, <2>2, <2>3, <2>4, <2>5 DEF EntryTypes, RestTypes
<1>3. SlotInv
  BY <1>1 DEF Init, SlotInv, SlotOK, SlotFor, DataAt
<1>4. FrameInv
  BY <1>1 DEF FrameInv, FrameOK
<1>5. StackInv
  <2>1. initializer \in Thread /\ \A i \in Isolate : entryStack[i] = <<>> /\ Len(entryStack[i]) = 0
    BY IsolateAssumption DEF Init
  <2>2. \A i \in Isolate : EntriesOf(initializer, i)
    <3> TAKE i \in Isolate
    <3>1. \A n \in 0 .. Len(frames[initializer]) : InAt(initializer, n) # i
      BY <1>1, <2>1, Separate
    <3> QED
      BY <1>2, <2>1, <3>1, NoEntries
  <2>3. \A i \in Isolate : OnlyThreadIn(initializer, i)
    BY <1>1 DEF OnlyThreadIn, HasEntered
  <2>4. 1 .. Len(entryStack[default_isolate]) = {}
    BY <2>1, Separate
  <2> QED
    BY <2>1, <2>2, <2>3, <2>4 DEF StackInv
<1> QED
  BY <1>2, <1>3, <1>4, <1>5 DEF OwnInv, Init, HolderInv

\* The conjuncts of OwnInv, as the lemmas about the steps take and show them.
LEMMA InvParts ==
  /\ OwnInv <=> EntryInv /\ RestTypes /\ HolderInv
  /\ OwnInv' <=> /\ EntryTypes' /\ SlotInv' /\ FrameInv' /\ StackInv'
               /\ (default_isolate \in allocated)' /\ RestTypes' /\ HolderInv'
BY Zenon DEF OwnInv, EntryInv

\* Every level of a thread's stack is in an isolate that is alive.
LEMMA LevelAlive ==
  ASSUME EntryInv, NEW t \in Thread, NEW n \in 0 .. Len(frames[t])
  PROVE  InAt(t, n) \in allocated \cup {NoIsolate}
<1>1. FrameOK(t) /\ Len(frames[t]) \in Nat
  BY FrameLists DEF EntryInv, FrameInv
<1>2. CASE n = 0
  BY <1>2 DEF InAt, EntryInv
<1>3. CASE n # 0
  <2>1. n \in 1 .. Len(frames[t])
    BY <1>1, <1>3
  <2> QED
    BY <1>1, <1>3, <2>1 DEF FrameOK, InAt
<1> QED
  BY <1>2, <1>3

\* With Lockers, who is in the default isolate entered it without a Scope.
LEMMA DefaultAuto ==
  ASSUME EntryInv, NEW t \in Thread, UseLockers, InAt(t, Len(frames[t])) = default_isolate
  PROVE  t \in auto
<1>1. FrameOK(t) /\ Len(frames[t]) \in Nat
  BY FrameLists DEF EntryInv, FrameInv
<1>2. CASE Len(frames[t]) = 0
  BY <1>2, Separate DEF InAt
<1>3. CASE Len(frames[t]) # 0
  <2>1. Len(frames[t]) \in 1 .. Len(frames[t])
    BY <1>1, <1>3
  <2>2. frames[t][Len(frames[t])].isolate = default_isolate
    BY <1>3 DEF InAt
  <2> QED
    BY <1>1, <2>1, <2>2 DEF FrameOK
<1> QED
  BY <1>2, <1>3

\* What initialising an isolate does to the flags.
LEMMA InitializeTypes ==
  ASSUME RestTypes, NEW i \in allocated, InitializeCurrent(i), allocated' = allocated,
         holder' \in Thread \cup {NoThread}
  PROVE  RestTypes'
BY DEF RestTypes, InitializeCurrent

LEMMA NewKeeps ==
  ASSUME OwnInv, NEW t \in Thread, NEW i \in Isolate, New(t, i)
  PROVE  OwnInv'
<1>1. /\ allocated' = allocated \cup {i} /\ UNCHANGED <<entryVars, frames, auto, program>>
      /\ UNCHANGED <<running, setup, fatal, disposed, initialized, holder>>
  BY DEF New, stateVars
<1>2. EntryInv /\ RestTypes /\ HolderInv
  BY InvParts
<1>3. RestTypes' /\ default_isolate \in allocated'
  BY <1>1, <1>2 DEF RestTypes, EntryInv
<1>4. HolderInv'
  BY <1>1, <1>2 DEF HolderInv, UseLockers
<1> QED
  BY <1>1, <1>2, <1>3, <1>4, QuietKeeps, InvParts

\* An isolate that is not in use is in nobody's stack.
LEMMA NotInUse ==
  ASSUME EntryInv, NEW i \in Isolate, ~Shared(i), ~IsInUse(i), NEW t \in Thread,
         NEW n \in 0 .. Len(frames[t])
  PROVE  InAt(t, n) # i
<1>1. PICK u \in Thread : EntriesOf(u, i) /\ OnlyThreadIn(u, i)
  BY DEF EntryInv, StackInv
<1>2. 1 .. Len(entryStack[i]) = {}
  <2>1. Len(entryStack[i]) = 0
    BY EntryLists DEF EntryInv, IsInUse
  <2> QED
    BY <2>1
<1>3. \A m \in 0 .. Len(frames[u]) : InAt(u, m) # i
  <2>1. PICK start \in [1 .. Len(entryStack[i]) -> 0 .. Len(frames[u])] : Entries(u, i, start)
    BY <1>1 DEF EntriesOf
  <2> QED
    BY <1>2, <2>1 DEF Entries
<1>4. ~HasEntered(t, i)
  BY <1>1, <1>3, EnteredLevel DEF EntryInv, OnlyThreadIn
<1> QED
  BY <1>4, EnteredLevel DEF EntryInv

LEMMA DisposeKeeps ==
  ASSUME OwnInv, NEW t \in Thread, NEW i \in Isolate, Dispose(t, i)
  PROVE  OwnInv'
<1>1. UNCHANGED <<entryVars, holder, frames, auto, program>>
  BY DEF Dispose
<1>2. EntryInv /\ RestTypes /\ HolderInv /\ default_isolate \in allocated
  BY InvParts DEF OwnInv
<1>3. EntryTypes' /\ SlotInv' /\ StackInv' /\ ((allocated \subseteq allocated') => FrameInv')
  BY <1>1, <1>2, QuietKeeps
<1>4. HolderInv'
  BY <1>1, <1>2 DEF HolderInv, UseLockers
<1>5. CASE IsInUse(i)
  <2>1. SetFatalError /\ allocated' = allocated
    BY <1>5 DEF Dispose
  <2>2. RestTypes'
    BY <1>1, <1>2, <2>1 DEF RestTypes, SetFatalError
  <2> QED
    BY <1>2, <1>3, <1>4, <2>1, <2>2, InvParts
<1>6. CASE ~IsInUse(i)
  <2>1. TearDown(i) /\ UNCHANGED <<running, setup, fatal, disposed>>
    BY <1>6 DEF Dispose
  <2>2. RestTypes' /\ default_isolate \in allocated'
    BY <1>1, <1>2, <2>1 DEF RestTypes, TearDown
  <2>3. CASE i = default_isolate
    <3>1. allocated' = allocated
      BY <2>1, <2>3 DEF TearDown
    <3> QED
      BY <1>3, <1>4, <2>2, <3>1, InvParts
  <2>4. CASE i # default_isolate
    <3>1. allocated' = allocated \ {i} /\ ~Shared(i)
      BY <2>1, <2>4 DEF TearDown, Shared
    <3>2. \A u \in Thread : \A n \in 1 .. Len(frames[u]) : frames[u][n].isolate # i
      <4>1. TAKE u \in Thread
      <4>2. TAKE n \in 1 .. Len(frames[u])
      <4>3. n \in 0 .. Len(frames[u]) /\ n # 0
        BY <1>2, FrameLists DEF EntryInv
      <4>4. InAt(u, n) # i
        BY <1>2, <1>6, <3>1, <4>3, NotInUse
      <4> QED
        BY <4>3, <4>4 DEF InAt
    <3>3. \A u \in Thread, n \in Nat : InAt(u, n)' = InAt(u, n)
      BY <1>1 DEF InAt
    <3>4. FrameInv'
      <4>1. ASSUME NEW u \in Thread PROVE FrameOK(u)'
        <5>1. FrameOK(u) /\ frames' = frames /\ auto' = auto /\ UseLockers' = UseLockers
          BY <1>1, <1>2 DEF EntryInv, FrameInv, UseLockers
        <5>2. \A n \in 1 .. Len(frames[u]) : n - 1 \in Nat /\ InAt(u, n - 1)' = InAt(u, n - 1)
          BY <3>3
        <5> QED
          BY <3>1, <3>2, <5>1, <5>2 DEF FrameOK, SlotFor
      <4> QED
        BY <4>1 DEF FrameInv
    <3> QED
      BY <1>3, <1>4, <2>2, <3>4, InvParts
  <2> QED
    BY <2>3, <2>4
<1> QED
  BY <1>5, <1>6

LEMMA DisposeV8Keeps ==
  ASSUME OwnInv, NEW t \in Thread, DisposeV8(t)
  PROVE  OwnInv'
<1>1. UNCHANGED <<entryVars, holder, frames, auto, program>>
  BY DEF DisposeV8
<1>2. EntryInv /\ RestTypes /\ HolderInv /\ default_isolate \in allocated
  BY InvParts DEF OwnInv
<1>3. HolderInv'
  BY <1>1, <1>2 DEF HolderInv, UseLockers
<1>4. RestTypes' /\ allocated' = allocated
  BY <1>1, <1>2 DEF DisposeV8, RestTypes, TearDown, SetFatalError
<1> QED
  BY <1>1, <1>2, <1>3, <1>4, QuietKeeps, InvParts

LEMMA ScopeSteps ==
  ASSUME OwnInv, OwnEntries, NEW t \in Thread, NEW i \in Isolate,
         EnterScope(t, i) \/ ExitScope(t) \/ ExitDefault(t)
  PROVE  OwnInv'
<1>1. EntryInv /\ RestTypes /\ HolderInv /\ default_isolate \in allocated
  BY InvParts DEF OwnInv
<1>2. EntryTypes' /\ SlotInv' /\ FrameInv' /\ StackInv'
  BY <1>1, EnterScopeKeeps, ExitScopeKeeps, ExitDefaultKeeps
<1>3. UNCHANGED <<allocated, stateVars, holder, program>>
  BY DEF EnterScope, ExitScope, ExitDefault
<1>4. RestTypes' /\ default_isolate \in allocated'
  BY <1>1, <1>3 DEF RestTypes, stateVars
<1>5. HolderInv'
  <2>1. ExitDefault(t) => ~UseLockers
    BY DEF ExitDefault
  <2>2. ~ExitDefault(t) => auto' = auto
    BY DEF EnterScope, ExitScope
  <2> QED
    BY <1>1, <1>3, <2>1, <2>2 DEF HolderInv, UseLockers
<1> QED
  BY <1>2, <1>4, <1>5, InvParts

LEMMA UseV8Keeps ==
  ASSUME OwnInv, NEW t \in Thread, UseV8(t)
  PROVE  OwnInv'
<1>1. EntryInv /\ RestTypes /\ HolderInv /\ default_isolate \in allocated
  BY InvParts DEF OwnInv
<1>2. UNCHANGED <<allocated, holder, frames, program>>
  BY DEF UseV8
<1>3. EntryTypes /\ SlotInv /\ default_isolate \in Isolate
  BY <1>1, Separate DEF EntryInv
<1>4. CASE data[t] = NoData
  <2>1. /\ OnlyThreadIn(t, default_isolate) /\ EnterDefaultIsolate(t)
        /\ InitializeCurrent(default_isolate) \/ SetFatalError
    BY <1>4 DEF UseV8
  <2>2. frames[t] = <<>> /\ Len(frames[t]) = 0 /\ ~IsEntered(t, default_isolate)
    BY <1>3, <1>4, SlotMeaning, FrameLists DEF IsEntered
  <2>3. /\ Enter(t, default_isolate, EnsureDefaultIsolate(t)) /\ auto' = auto \cup {t}
    BY <2>1, <2>2 DEF EnterDefaultIsolate
  <2>4. Others(t) /\ frames' \in [Thread -> Seq(Frame)] /\ Len(frames'[t]) = 0
    BY <1>2, <1>3, <2>2, <2>3 DEF Others, EntryTypes
  <2>5. EntryTypes' /\ SlotInv' /\ FrameInv' /\ StackInv'
    <3>1. Len(frames'[t]) \in 0 .. 1 /\ ~(Len(frames'[t]) = 1)
      BY <2>4
    <3> QED
      BY <1>1, <1>2, <1>4, <2>1, <2>3, <2>4, <3>1, FirstKeeps
  <2>6. RestTypes'
    <3>1. CASE InitializeCurrent(default_isolate)
      <4>1. holder' \in Thread \cup {NoThread}
        BY <1>1, <1>2 DEF RestTypes
      <4> QED
        BY <1>1, <1>2, <3>1, <4>1, InitializeTypes
    <3>2. CASE SetFatalError
      BY <1>1, <1>2, <3>2 DEF RestTypes, SetFatalError
    <3> QED
      BY <2>1, <3>1, <3>2
  <2>7. HolderInv'
    BY <1>1, <1>2, <2>3 DEF HolderInv, UseLockers
  <2> QED
    BY <1>1, <1>2, <2>5, <2>6, <2>7, InvParts
<1>5. CASE data[t] # NoData
  <2>1. InitializeCurrent(current[t]) /\ UNCHANGED <<entryVars, auto>>
    BY <1>5 DEF UseV8
  <2>2. current[t] \in allocated
    <3>1. current[t] \in Isolate /\ current[t] = InAt(t, Len(frames[t]))
      BY <1>3, <1>5, SlotMeaning
    <3>2. Len(frames[t]) \in 0 .. Len(frames[t])
      BY <1>3, FrameLists
    <3> QED
      BY <1>1, <3>1, <3>2, LevelAlive, Separate
  <2>3. RestTypes'
    <3>1. holder' \in Thread \cup {NoThread}
      BY <1>1, <1>2 DEF RestTypes
    <3> QED
      BY <1>1, <1>2, <2>1, <2>2, <3>1, InitializeTypes
  <2>4. EntryTypes' /\ SlotInv' /\ FrameInv' /\ StackInv'
    BY <1>1, <1>2, <2>1, QuietKeeps
  <2>5. HolderInv'
    BY <1>1, <1>2, <2>1 DEF HolderInv, UseLockers
  <2> QED
    BY <1>1, <1>2, <2>3, <2>4, <2>5, InvParts
<1> QED
  BY <1>4, <1>5

\* A Locker in a thread that is in the default isolate already.
LEMMA LockAgain ==
  ASSUME EntryInv, NEW t \in Thread, UseLockers, IsEntered(t, default_isolate)
  PROVE  /\ t \in auto /\ InAt(t, Len(frames[t])) = default_isolate
         /\ EnsureDefaultIsolate(t) = current
<1>1. EntryTypes /\ SlotInv
  BY DEF EntryInv
<1>2. InAt(t, Len(frames[t])) = default_isolate /\ current[t] = default_isolate
  BY <1>1, SlotMeaning, Separate DEF IsEntered
<1>3. t \in auto
  BY <1>2, DefaultAuto
<1> QED
  BY <1>1, <1>2, <1>3 DEF EnsureDefaultIsolate, EntryTypes

LEMMA LockerCreateKeeps ==
  ASSUME OwnInv, OwnEntries, NEW t \in Thread, LockerCreate(t)
  PROVE  OwnInv'
<1>1. EntryInv /\ RestTypes /\ HolderInv /\ default_isolate \in allocated
  BY InvParts DEF OwnInv
<1>2. /\ UseLockers /\ data[t].isolate \in {default_isolate, NoIsolate}
      /\ Push(t, "Locker", default_isolate, holder # t)
      /\ UNCHANGED <<allocated, program>>
  BY DEF LockerCreate, MayLock, OwnEntries
<1>3. EntryTypes /\ SlotInv /\ default_isolate \in Isolate
  BY <1>1, Separate DEF EntryInv
<1>4. data[t] = NoData \/ IsEntered(t, default_isolate)
  <2>1. data[t] # NoData => data[t].isolate \in Isolate
    BY <1>3, SlotMeaning
  <2> QED
    BY <1>2, <2>1, Separate DEF IsEntered
<1>5. ASSUME IsEntered(t, default_isolate), UNCHANGED <<entryStack, data, auto>>,
             current' = EnsureDefaultIsolate(t)
      PROVE  EntryTypes' /\ SlotInv' /\ FrameInv' /\ StackInv' /\ t \in auto
  <2>1. /\ t \in auto /\ InAt(t, Len(frames[t])) = default_isolate /\ current' = current
    BY <1>1, <1>2, <1>5, LockAgain
  <2>2. (holder # t) \in BOOLEAN /\ "Locker" \in {"Locker", "Unlocker"}
    OBVIOUS
  <2> QED
    BY <1>1, <1>2, <1>5, <2>1, <2>2, PushDefaultKeeps
<1>6. CASE holder = t
  <2>1. UNCHANGED <<entryStack, data, holder, auto, stateVars>> /\ current' = EnsureDefaultIsolate(t)
    BY <1>6, Separate DEF LockerCreate
  <2>2. t \in auto
    BY <1>1, <1>6, Separate DEF HolderInv
  <2>3. IsEntered(t, default_isolate)
    BY <1>3, <1>4, <2>2, SlotMeaning
  <2>4. HolderInv'
    BY <1>1, <1>2, <2>1 DEF HolderInv, UseLockers
  <2>5. RestTypes'
    BY <1>1, <1>2, <2>1 DEF RestTypes, stateVars
  <2> QED
    BY <1>1, <1>2, <1>5, <2>1, <2>3, <2>4, <2>5, InvParts
<1>7. CASE holder # t
  <2>1. /\ holder' = t /\ EnterDefaultIsolate(t)
        /\ InitializeCurrent(default_isolate) \/ UNCHANGED stateVars
    BY <1>7 DEF LockerCreate
  <2>2. EntryTypes' /\ SlotInv' /\ FrameInv' /\ StackInv' /\ t \in auto'
    <3>1. CASE IsEntered(t, default_isolate)
      <4>1. current' = EnsureDefaultIsolate(t) /\ UNCHANGED <<entryStack, data, auto>>
        BY <2>1, <3>1 DEF EnterDefaultIsolate
      <4> QED
        BY <1>5, <3>1, <4>1
    <3>2. CASE ~IsEntered(t, default_isolate)
      <4>1. data[t] = NoData /\ Len(frames[t]) = 0
        BY <1>3, <1>4, <3>2, SlotMeaning, FrameLists
      <4>2. Enter(t, default_isolate, EnsureDefaultIsolate(t)) /\ auto' = auto \cup {t}
        BY <2>1, <3>2 DEF EnterDefaultIsolate
      <4>3. /\ \A u \in Thread \ {t} : frames'[u] = frames[u]
            /\ Len(frames'[t]) = Len(frames[t]) + 1
            /\ frames'[t][Len(frames[t]) + 1].kind = "Locker"
            /\ frames'[t][Len(frames[t]) + 1].isolate = default_isolate
        BY <1>2, <1>3, PushAppends
      <4>4. Others(t)
        BY <4>2, <4>3 DEF Others
      <4>5. frames' \in [Thread -> Seq(Frame)]
        <5>1. [kind |-> "Locker", isolate |-> default_isolate, has_lock |-> holder # t,
               before |-> current[t]] \in Frame
          BY <1>3 DEF Frame, EntryTypes
        <5> QED
          BY <1>2, <1>3, <5>1 DEF Push, EntryTypes
      <4>6. /\ Len(frames'[t]) \in 0 .. 1
            /\ frames'[t][1].kind = "Locker" /\ frames'[t][1].isolate = default_isolate
        BY <4>1, <4>3
      <4> QED
        BY <1>1, <1>2, <4>1, <4>2, <4>4, <4>5, <4>6, FirstKeeps
    <3> QED
      BY <3>1, <3>2
  <2>3. HolderInv'
    BY <1>2, <2>1, <2>2 DEF HolderInv, UseLockers
  <2>4. RestTypes'
    <3>1. CASE InitializeCurrent(default_isolate)
      BY <1>1, <1>2, <2>1, <3>1, InitializeTypes
    <3>2. CASE UNCHANGED stateVars
      BY <1>1, <1>2, <2>1, <3>2 DEF RestTypes, stateVars
    <3> QED
      BY <2>1, <3>1, <3>2
  <2> QED
    BY <1>1, <1>2, <2>2, <2>3, <2>4, InvParts
<1> QED
  BY <1>6, <1>7

LEMMA UnlockerCreateKeeps ==
  ASSUME OwnInv, NEW t \in Thread, UnlockerCreate(t)
  PROVE  OwnInv'
<1>1. EntryInv /\ RestTypes /\ HolderInv /\ default_isolate \in allocated
  BY InvParts DEF OwnInv
<1>2. /\ UseLockers /\ holder = t /\ current[t] = default_isolate
      /\ Push(t, "Unlocker", default_isolate, FALSE) /\ holder' = NoThread
      /\ UNCHANGED <<allocated, stateVars, entryStack, current, data, auto, program>>
  BY DEF UnlockerCreate, MayUseV8, entryVars
<1>3. t \in auto
  BY <1>1, <1>2, Separate DEF HolderInv
<1>4. InAt(t, Len(frames[t])) = default_isolate
  BY <1>1, <1>2, <1>3, SlotMeaning DEF EntryInv
<1>5. EntryTypes' /\ SlotInv' /\ FrameInv' /\ StackInv'
  <2>1. FALSE \in BOOLEAN /\ "Unlocker" \in {"Locker", "Unlocker"}
    OBVIOUS
  <2> QED
    BY <1>1, <1>2, <1>3, <1>4, <2>1, PushDefaultKeeps
<1>6. RestTypes' /\ HolderInv'
  BY <1>1, <1>2 DEF RestTypes, HolderInv, stateVars
<1> QED
  BY <1>1, <1>2, <1>5, <1>6, InvParts

\* The destructors of Locker and Unlocker.
LEMMA DestroyKeeps ==
  ASSUME OwnInv, NEW t \in Thread, LockerDestroy(t) \/ UnlockerDestroy(t)
  PROVE  OwnInv'
<1>1. EntryInv /\ RestTypes /\ HolderInv /\ default_isolate \in allocated
  BY InvParts DEF OwnInv
<1>2. /\ frames[t] # <<>> /\ Top(t).kind # "Scope" /\ Pop(t)
      /\ holder' \in {NoThread, holder, t}
      /\ UNCHANGED <<allocated, stateVars, entryStack, current, data, auto, program>>
  BY DEF LockerDestroy, UnlockerDestroy, entryVars
<1>3. EntryTypes' /\ SlotInv' /\ FrameInv' /\ StackInv'
  BY <1>1, <1>2, PopDefaultKeeps
<1>4. UseLockers /\ t \in auto
  <2>1. EntryTypes /\ FrameOK(t)
    BY <1>1 DEF EntryInv, FrameInv
  <2>2. Len(frames[t]) \in 1 .. Len(frames[t]) /\ Top(t) = frames[t][Len(frames[t])]
    BY <1>2, <2>1, PopTakesLast
  <2> QED
    BY <1>2, <2>1, <2>2 DEF FrameOK
<1>5. RestTypes' /\ HolderInv'
  BY <1>1, <1>2, <1>4 DEF RestTypes, HolderInv, stateVars, UseLockers
<1> QED
  BY <1>1, <1>2, <1>3, <1>5, InvParts

\* Where every Exit finds its own entry, OwnInv is preserved.
LEMMA StepOwn ==
  ASSUME OwnEntries, OwnInv, [Next]_vars
  PROVE  OwnInv'
<1>1. CASE Next
  <2>1. PICK t \in Thread : Step(t)
    BY <1>1 DEF Next
  <2>2. CASE \E i \in Isolate : New(t, i) \/ EnterScope(t, i) \/ Dispose(t, i)
    BY <2>2, NewKeeps, ScopeSteps, DisposeKeeps
  <2>3. CASE ExitScope(t) \/ ExitDefault(t)
    BY <2>3, ScopeSteps, Separate
  <2>4. CASE UseV8(t) \/ DisposeV8(t)
    BY <2>4, UseV8Keeps, DisposeV8Keeps
  <2>5. CASE LockerCreate(t) \/ LockerDestroy(t) \/ UnlockerCreate(t) \/ UnlockerDestroy(t)
    BY <2>5, LockerCreateKeeps, UnlockerCreateKeeps, DestroyKeeps
  <2> QED
    BY <2>1, <2>2, <2>3, <2>4, <2>5 DEF Step
<1>2. CASE UNCHANGED vars
  <2>1. EntryInv /\ RestTypes /\ HolderInv /\ default_isolate \in allocated
    BY InvParts DEF OwnInv
  <2>2. /\ UNCHANGED <<entryVars, frames, auto, program, allocated, holder>>
        /\ UNCHANGED <<running, setup, fatal, disposed, initialized>>
    BY <1>2 DEF vars, stateVars
  <2>3. EntryTypes' /\ SlotInv' /\ FrameInv' /\ StackInv'
    BY <2>1, <2>2, QuietKeeps
  <2>4. RestTypes' /\ HolderInv'
    BY <2>1, <2>2 DEF RestTypes, HolderInv, UseLockers
  <2> QED
    BY <2>1, <2>2, <2>3, <2>4, InvParts
<1> QED
  BY <1>1, <1>2

---------------------------------------------------------------------------
(* What holds of programs of any kind.                                       *)

\* What PairInv says of an entry, and what is left of it after a step: Ran is
\* looked at before the step.
PairOK(e) == e.data # NoData => e.data.isolate = e.isolate
PairsAfter ==
  /\ \A t \in Thread : Pair(data'[t], current'[t])
  /\ \A i \in Isolate : \A n \in 1 .. Len(entryStack'[i]) : PairOK(entryStack'[i][n])

\* Enter saves a pair that agrees, and sets both slots to i or goes on with slot.
LEMMA EnterPairs ==
  ASSUME EntryTypes, PairInv, NEW t \in Thread, NEW i \in Isolate,
         NEW slot \in [Thread -> Isolate \cup {NoIsolate}],
         \A u \in Thread \ {t} : slot[u] = current[u], IsEntered(t, i) => Pair(data[t], slot[t]),
         Enter(t, i, slot)
  PROVE  /\ entryStack' \in [Isolate -> Seq(EntryStackItem)]
         /\ current' \in [Thread -> Isolate \cup {NoIsolate}] /\ data' \in [Thread -> ThreadData]
         /\ PairsAfter
<1>1. /\ data \in [Thread -> ThreadData] /\ entryStack \in [Isolate -> Seq(EntryStackItem)]
      /\ entryStack[i] \in Seq(EntryStackItem) /\ Len(entryStack[i]) \in Nat
  BY DEF EntryTypes
<1>2. /\ \A u \in Thread : Pair(data[u], current[u])
      /\ \A j \in Isolate : \A n \in 1 .. Len(entryStack[j]) : PairOK(entryStack[j][n])
  BY DEF PairInv, PairOK
<1>3. /\ entryStack' \in [Isolate -> Seq(EntryStackItem)]
      /\ \A j \in Isolate : \A n \in 1 .. Len(entryStack'[j]) : PairOK(entryStack'[j][n])
  <2>1. CASE IsEntered(t, i) /\ entryStack[i] = <<>>
    <3>1. entryStack' = [entryStack EXCEPT ![i][Len(entryStack[i])].count = @ + 1]
      BY <2>1 DEF Enter
    <3>2. [entryStack[i] EXCEPT ![Len(entryStack[i])].count = @ + 1] = <<>>
      BY <2>1
    <3>3. entryStack' = [entryStack EXCEPT ![i] = <<>>]
      BY <3>1, <3>2
    <3>4. entryStack' = entryStack
      BY <1>1, <2>1, <3>3
    <3> QED
      BY <1>1, <1>2, <3>4
  <2>2. CASE IsEntered(t, i) /\ entryStack[i] # <<>>
    <3>1. /\ \A j \in Isolate \ {i} : entryStack'[j] = entryStack[j]
          /\ Len(entryStack[i]) \in Nat \ {0} /\ Len(entryStack'[i]) = Len(entryStack[i])
          /\ \A k \in 1 .. Len(entryStack[i]) - 1 : entryStack'[i][k] = entryStack[i][k]
          /\ entryStack' \in [Isolate -> Seq(EntryStackItem)]
      BY <2>2, EnterCounts
    <3>2. /\ entryStack[i][Len(entryStack[i])] \in EntryStackItem
          /\ entryStack'[i][Len(entryStack[i])]
               = [entryStack[i][Len(entryStack[i])] EXCEPT !.count = @ + 1]
      BY <2>2, EnterCounts
    <3>3. /\ entryStack'[i][Len(entryStack[i])].data = entryStack[i][Len(entryStack[i])].data
          /\ entryStack'[i][Len(entryStack[i])].isolate = entryStack[i][Len(entryStack[i])].isolate
      BY <3>2 DEF EntryStackItem
    <3>4. PairOK(entryStack'[i][Len(entryStack[i])])
      BY <1>2, <3>1, <3>3 DEF PairOK
    <3>5. \A n \in 1 .. Len(entryStack'[i]) : PairOK(entryStack'[i][n])
      BY <1>2, <3>1, <3>4
    <3>6. \A j \in Isolate \ {i} : \A n \in 1 .. Len(entryStack'[j]) : PairOK(entryStack'[j][n])
      BY <1>2, <3>1
    <3> QED
      BY <3>1, <3>5, <3>6
  <2>3. CASE ~IsEntered(t, i)
    <3>1. Pushed(t, i, slot)
      BY <2>3, EnterPushes
    <3>2. /\ \A j \in Isolate \ {i} : entryStack'[j] = entryStack[j]
          /\ Len(entryStack'[i]) = Len(entryStack[i]) + 1
          /\ \A k \in 1 .. Len(entryStack[i]) : entryStack'[i][k] = entryStack[i][k]
          /\ entryStack'[i][Len(entryStack[i]) + 1] = NewEntry(t, slot)
          /\ NewEntry(t, slot) \in EntryStackItem
      BY <3>1 DEF Pushed
    <3>3. PairOK(NewEntry(t, slot))
      BY DEF PairOK, NewEntry
    <3>4. \A n \in 1 .. Len(entryStack'[i]) : PairOK(entryStack'[i][n])
      BY <1>1, <1>2, <3>2, <3>3
    <3>5. \A j \in Isolate \ {i} : \A n \in 1 .. Len(entryStack'[j]) : PairOK(entryStack'[j][n])
      BY <1>2, <3>2
    <3>6. entryStack' \in [Isolate -> Seq(EntryStackItem)]
      BY <3>1 DEF Pushed
    <3> QED
      BY <3>4, <3>5, <3>6
  <2> QED
    BY <2>1, <2>2, <2>3
<1>4. /\ current' \in [Thread -> Isolate \cup {NoIsolate}] /\ data' \in [Thread -> ThreadData]
      /\ \A u \in Thread : Pair(data'[u], current'[u])
  <2>1. CASE IsEntered(t, i)
    <3>1. current' = slot /\ data' = data
      BY <2>1 DEF Enter
    <3> QED
      BY <1>1, <1>2, <2>1, <3>1
  <2>2. CASE ~IsEntered(t, i)
    <3>1. /\ current' = [slot EXCEPT ![t] = i]
          /\ data' = [data EXCEPT ![t] = [isolate |-> i, thread |-> t]]
      BY <2>2 DEF Enter
    <3>2. [isolate |-> i, thread |-> t] \in ThreadData
      BY DEF ThreadData
    <3> QED
      BY <1>1, <1>2, <3>1, <3>2 DEF Pair
  <2> QED
    BY <2>1, <2>2
<1> QED
  BY <1>3, <1>4 DEF PairsAfter

\* Exit restores both slots from one entry.
LEMMA ExitPairs ==
  ASSUME EntryTypes, PairInv, NEW t \in Thread, NEW i \in Isolate, Exit(t, i)
  PROVE  /\ entryStack' \in [Isolate -> Seq(EntryStackItem)]
         /\ current' \in [Thread -> Isolate \cup {NoIsolate}] /\ data' \in [Thread -> ThreadData]
         /\ PairsAfter
<1>1. /\ data \in [Thread -> ThreadData] /\ entryStack \in [Isolate -> Seq(EntryStackItem)]
      /\ current \in [Thread -> Isolate \cup {NoIsolate}] /\ Len(entryStack[i]) \in Nat
  BY EntryLists DEF EntryTypes
<1>2. /\ \A u \in Thread : Pair(data[u], current[u])
      /\ \A j \in Isolate : \A n \in 1 .. Len(entryStack[j]) : PairOK(entryStack[j][n])
  BY DEF PairInv, PairOK
<1>3. CASE Last(entryStack[i]).count > 1
  <2>1. /\ \A j \in Isolate \ {i} : entryStack'[j] = entryStack[j]
        /\ Len(entryStack[i]) \in Nat \ {0} /\ Len(entryStack'[i]) = Len(entryStack[i])
        /\ \A k \in 1 .. Len(entryStack[i]) - 1 : entryStack'[i][k] = entryStack[i][k]
        /\ entryStack' \in [Isolate -> Seq(EntryStackItem)]
        /\ current' = current /\ data' = data
    BY <1>3, ExitCounts
  <2>2. /\ entryStack[i][Len(entryStack[i])] \in EntryStackItem
        /\ entryStack'[i][Len(entryStack[i])]
             = [entryStack[i][Len(entryStack[i])] EXCEPT !.count = @ - 1]
    BY <1>3, ExitCounts
  <2>3. /\ entryStack'[i][Len(entryStack[i])].data = entryStack[i][Len(entryStack[i])].data
        /\ entryStack'[i][Len(entryStack[i])].isolate = entryStack[i][Len(entryStack[i])].isolate
    BY <2>2 DEF EntryStackItem
  <2>4. PairOK(entryStack'[i][Len(entryStack[i])])
    BY <1>2, <2>1, <2>3 DEF PairOK
  <2>5. \A n \in 1 .. Len(entryStack'[i]) : PairOK(entryStack'[i][n])
    BY <1>2, <2>1, <2>4
  <2>6. \A j \in Isolate \ {i} : \A n \in 1 .. Len(entryStack'[j]) : PairOK(entryStack'[j][n])
    BY <1>2, <2>1
  <2>7. PairsAfter
    BY <1>2, <2>1, <2>5, <2>6 DEF PairsAfter
  <2> QED
    BY <1>1, <2>1, <2>7
<1>4. CASE ~(Last(entryStack[i]).count > 1)
  <2> DEFINE e == entryStack[i][Len(entryStack[i])]
  <2>1. /\ \A j \in Isolate \ {i} : entryStack'[j] = entryStack[j]
        /\ Len(entryStack[i]) \in Nat \ {0} /\ Len(entryStack'[i]) = Len(entryStack[i]) - 1
        /\ \A k \in 1 .. Len(entryStack[i]) - 1 : entryStack'[i][k] = entryStack[i][k]
        /\ entryStack' \in [Isolate -> Seq(EntryStackItem)]
        /\ current' = [current EXCEPT ![t] = e.isolate]
        /\ data' = [data EXCEPT ![t] = e.data]
        /\ e \in EntryStackItem
    BY <1>4, ExitPops
  <2>2. PairOK(e)
    BY <1>2, <2>1
  <2>3. e.isolate \in Isolate \cup {NoIsolate} /\ e.data \in ThreadData
    BY <2>1 DEF EntryStackItem
  <2> HIDE DEF e
  <2>4. /\ current' \in [Thread -> Isolate \cup {NoIsolate}] /\ data' \in [Thread -> ThreadData]
        /\ \A u \in Thread : Pair(data'[u], current'[u])
    BY <1>1, <1>2, <2>1, <2>2, <2>3 DEF Pair, PairOK
  <2>5. \A n \in 1 .. Len(entryStack'[i]) : PairOK(entryStack'[i][n])
    <3>1. SUFFICES ASSUME NEW n \in 1 .. Len(entryStack'[i]) PROVE PairOK(entryStack'[i][n])
      OBVIOUS
    <3>2. n \in 1 .. Len(entryStack[i]) - 1 /\ n \in 1 .. Len(entryStack[i])
      BY <2>1
    <3>3. entryStack'[i][n] = entryStack[i][n] /\ PairOK(entryStack[i][n])
      BY <1>2, <2>1, <3>2
    <3> QED
      BY <3>3
  <2>6. \A j \in Isolate \ {i} : \A n \in 1 .. Len(entryStack'[j]) : PairOK(entryStack'[j][n])
    BY <1>2, <2>1
  <2>7. PairsAfter
    BY <2>4, <2>5, <2>6 DEF PairsAfter
  <2> QED
    BY <2>1, <2>4, <2>7
<1> QED
  BY <1>3, <1>4

\* Pushing and popping an object keeps the types.
LEMMA PushType ==
  ASSUME EntryTypes, NEW t \in Thread, NEW kind \in {"Scope", "Locker", "Unlocker"},
         NEW i \in Isolate, NEW b \in BOOLEAN, Push(t, kind, i, b)
  PROVE  frames' \in [Thread -> Seq(Frame)]
<1>1. [kind |-> kind, isolate |-> i, has_lock |-> b, before |-> current[t]] \in Frame
  BY DEF Frame, EntryTypes
<1> QED
  BY <1>1 DEF Push, EntryTypes

\* A step that leaves both slots and all entries alone.
LEMMA PairQuiet ==
  ASSUME PairInv, UNCHANGED <<entryStack, current, data>>
  PROVE  PairsAfter
BY DEF PairInv, PairsAfter, PairOK

\* So does entering the default isolate.
LEMMA DefaultPairs ==
  ASSUME EntryTypes, PairInv, NEW t \in Thread, EnterDefaultIsolate(t)
  PROVE  /\ entryStack' \in [Isolate -> Seq(EntryStackItem)]
         /\ current' \in [Thread -> Isolate \cup {NoIsolate}] /\ data' \in [Thread -> ThreadData]
         /\ auto' \in SUBSET Thread /\ PairsAfter
<1>1. current \in [Thread -> Isolate \cup {NoIsolate}] /\ auto \in SUBSET Thread
  BY DEF EntryTypes
<1> SUFFICES ASSUME NEW slot, slot = EnsureDefaultIsolate(t)
             PROVE  /\ entryStack' \in [Isolate -> Seq(EntryStackItem)]
                    /\ current' \in [Thread -> Isolate \cup {NoIsolate}]
                    /\ data' \in [Thread -> ThreadData] /\ auto' \in SUBSET Thread /\ PairsAfter
  OBVIOUS
<1>2. /\ slot \in [Thread -> Isolate \cup {NoIsolate}] /\ slot[t] = default_isolate
      /\ \A u \in Thread \ {t} : slot[u] = current[u]
  BY <1>1, Separate DEF EnsureDefaultIsolate
<1>3. CASE IsEntered(t, default_isolate)
  <2>1. current' = slot /\ UNCHANGED <<entryStack, data, auto>>
    BY <1>3 DEF EnterDefaultIsolate
  <2>2. PairsAfter
    BY <1>2, <1>3, <2>1 DEF PairInv, PairsAfter, PairOK, Pair, IsEntered
  <2> QED
    BY <1>2, <2>1, <2>2 DEF EntryTypes
<1>4. CASE ~IsEntered(t, default_isolate)
  <2>1. Enter(t, default_isolate, slot) /\ auto' = auto \cup {t}
    BY <1>4 DEF EnterDefaultIsolate
  <2> QED
    BY <1>1, <1>2, <1>4, <2>1, EnterPairs, Separate
<1> QED
  BY <1>3, <1>4

\* A step keeps the types and the pairs.
LEMMA StepPairs ==
  ASSUME EntryTypes, PairInv, RunsInv, [Next]_vars
  PROVE  EntryTypes' /\ PairsAfter
<1>1. CASE UNCHANGED vars
  BY <1>1, PairQuiet DEF vars, entryVars, EntryTypes
<1>2. CASE Next
  <2>1. PICK t \in Thread : Step(t)
    BY <1>2 DEF Next
  <2>2. ASSUME NEW i \in Isolate, New(t, i) \/ Dispose(t, i) PROVE EntryTypes' /\ PairsAfter
    <3>1. UNCHANGED <<entryVars, frames, auto, program>>
      BY <2>2 DEF New, Dispose
    <3> QED
      BY <3>1, PairQuiet DEF entryVars, EntryTypes
  <2>3. ASSUME NEW i \in Isolate, EnterScope(t, i) PROVE EntryTypes' /\ PairsAfter
    <3>1. Push(t, "Scope", i, FALSE) /\ Enter(t, i, current) /\ UNCHANGED <<auto, program>>
      BY <2>3 DEF EnterScope
    <3>2. frames' \in [Thread -> Seq(Frame)]
      BY <3>1, PushType
    <3>3. current \in [Thread -> Isolate \cup {NoIsolate}] /\ Pair(data[t], current[t])
      BY DEF EntryTypes, PairInv
    <3>4. /\ entryStack' \in [Isolate -> Seq(EntryStackItem)]
          /\ current' \in [Thread -> Isolate \cup {NoIsolate}] /\ data' \in [Thread -> ThreadData]
          /\ PairsAfter
      BY <3>1, <3>3, EnterPairs
    <3> QED
      BY <3>1, <3>2, <3>4 DEF EntryTypes
  <2>4. ASSUME ExitScope(t) PROVE EntryTypes' /\ PairsAfter
    <3>1. /\ frames[t] # <<>> /\ Pop(t) /\ UNCHANGED <<auto, program>>
          /\ Exit(t, Top(t).isolate)
      BY <2>4 DEF ExitScope
    <3>2. frames' \in [Thread -> Seq(Frame)]
      BY <3>1, PopType
    <3>3. Top(t).isolate \in Isolate
      <4>1. Top(t) = frames[t][Len(frames[t])] /\ Len(frames[t]) \in 1 .. Len(frames[t])
        BY <3>1, PopTakesLast
      <4> QED
        BY <4>1, FrameLists
    <3>4. /\ entryStack' \in [Isolate -> Seq(EntryStackItem)]
          /\ current' \in [Thread -> Isolate \cup {NoIsolate}] /\ data' \in [Thread -> ThreadData]
          /\ PairsAfter
      BY <3>1, <3>3, ExitPairs
    <3> QED
      BY <3>1, <3>2, <3>4 DEF EntryTypes
  <2>5. ASSUME ExitDefault(t) PROVE EntryTypes' /\ PairsAfter
    <3>1. /\ Exit(t, default_isolate) /\ auto' = auto \ {t} /\ UNCHANGED <<frames, program>>
      BY <2>5 DEF ExitDefault
    <3>2. /\ entryStack' \in [Isolate -> Seq(EntryStackItem)]
          /\ current' \in [Thread -> Isolate \cup {NoIsolate}] /\ data' \in [Thread -> ThreadData]
          /\ PairsAfter
      BY <3>1, ExitPairs, Separate
    <3> QED
      BY <3>1, <3>2 DEF EntryTypes
  <2>6. ASSUME UseV8(t) PROVE EntryTypes' /\ PairsAfter
    <3>1. UNCHANGED <<frames, program>> /\ (EnterDefaultIsolate(t) \/ UNCHANGED <<entryVars, auto>>)
      BY <2>6 DEF UseV8
    <3>2. CASE EnterDefaultIsolate(t)
      BY <3>1, <3>2, DefaultPairs DEF EntryTypes
    <3>3. CASE UNCHANGED <<entryVars, auto>>
      BY <3>1, <3>3, PairQuiet DEF entryVars, EntryTypes
    <3> QED
      BY <3>1, <3>2, <3>3
  <2>7. ASSUME DisposeV8(t) PROVE EntryTypes' /\ PairsAfter
    <3>1. UNCHANGED <<entryVars, frames, auto, program>>
      BY <2>7 DEF DisposeV8
    <3> QED
      BY <3>1, PairQuiet DEF entryVars, EntryTypes
  <2>8. ASSUME LockerCreate(t) PROVE EntryTypes' /\ PairsAfter
    <3>1. Push(t, "Locker", default_isolate, holder # t) /\ program' = program
      BY <2>8 DEF LockerCreate
    <3>2. frames' \in [Thread -> Seq(Frame)]
      <4>1. (holder # t) \in BOOLEAN
        OBVIOUS
      <4> QED
        BY <3>1, <4>1, PushType, Separate
    <3>3. \/ EnterDefaultIsolate(t)
          \/ /\ holder = t /\ current' = EnsureDefaultIsolate(t)
             /\ UNCHANGED <<entryStack, data, auto>>
      BY <2>8 DEF LockerCreate
    <3>4. CASE EnterDefaultIsolate(t)
      BY <3>1, <3>2, <3>4, DefaultPairs DEF EntryTypes
    <3>5. CASE /\ holder = t /\ current' = EnsureDefaultIsolate(t)
               /\ UNCHANGED <<entryStack, data, auto>>
      <4>1. Ran
        BY <3>5, IsolateAssumption DEF RunsInv
      <4>2. /\ current' \in [Thread -> Isolate \cup {NoIsolate}] /\ current'[t] = default_isolate
            /\ \A u \in Thread \ {t} : current'[u] = current[u]
        BY <3>5, Separate DEF EnsureDefaultIsolate, EntryTypes
      <4>3. PairsAfter
        BY <3>5, <4>1, <4>2 DEF PairInv, PairsAfter, PairOK, Pair
      <4> QED
        BY <3>1, <3>2, <3>5, <4>2, <4>3 DEF EntryTypes
    <3> QED
      BY <3>3, <3>4, <3>5
  <2>9. ASSUME UnlockerCreate(t) PROVE EntryTypes' /\ PairsAfter
    <3>1. Push(t, "Unlocker", default_isolate, FALSE) /\ UNCHANGED <<entryVars, auto, program>>
      BY <2>9 DEF UnlockerCreate
    <3>2. frames' \in [Thread -> Seq(Frame)]
      BY <3>1, PushType, Separate
    <3> QED
      BY <3>1, <3>2, PairQuiet DEF entryVars, EntryTypes
  <2>10. ASSUME LockerDestroy(t) \/ UnlockerDestroy(t) PROVE EntryTypes' /\ PairsAfter
    <3>1. frames[t] # <<>> /\ Pop(t) /\ UNCHANGED <<entryVars, auto, program>>
      BY <2>10 DEF LockerDestroy, UnlockerDestroy
    <3>2. frames' \in [Thread -> Seq(Frame)]
      BY <3>1, PopType
    <3> QED
      BY <3>1, <3>2, PairQuiet DEF entryVars, EntryTypes
  <2> QED
    BY <2>1, <2>2, <2>3, <2>4, <2>5, <2>6, <2>7, <2>8, <2>9, <2>10 DEF Step
<1> QED
  BY <1>1, <1>2

\* V8 that has been running has been running ever since.
LEMMA RanStays ==
  ASSUME Ran, [Next]_vars PROVE Ran'
<1>1. CASE UNCHANGED vars
  BY <1>1 DEF vars, stateVars, Ran, IsDead
<1>2. CASE Next
  <2>1. PICK t \in Thread : Step(t)
    BY <1>2 DEF Next
  <2>2. CASE \E i \in Isolate : New(t, i) \/ EnterScope(t, i) \/ Dispose(t, i)
    BY <2>2 DEF New, EnterScope, Dispose, SetFatalError, stateVars, Ran, IsDead
  <2>3. CASE ExitScope(t) \/ ExitDefault(t) \/ LockerDestroy(t) \/ UnlockerCreate(t) \/ UnlockerDestroy(t)
    BY <2>3 DEF ExitScope, ExitDefault, LockerDestroy, UnlockerCreate, UnlockerDestroy, stateVars,
       Ran, IsDead
  <2>4. CASE UseV8(t) \/ DisposeV8(t) \/ LockerCreate(t)
    BY <2>4 DEF UseV8, DisposeV8, LockerCreate, InitializeCurrent, SetFatalError, TearDown,
       stateVars, Ran, IsDead
  <2> QED
    BY <2>1, <2>2, <2>3, <2>4 DEF Step
<1> QED
  BY <1>1, <1>2

\* Before V8 runs nobody has the lock, and there are only Scopes.
LEMMA StepRuns ==
  ASSUME EntryTypes, RunsInv, [Next]_vars PROVE RunsInv'
<1>1. CASE Ran
  BY <1>1, RanStays DEF RunsInv
<1>2. CASE ~Ran
  <2>1. /\ holder = NoThread
        /\ \A u \in Thread : \A n \in 1 .. Len(frames[u]) : frames[u][n].kind = "Scope"
    BY <1>2 DEF RunsInv
  <2>2. CASE UNCHANGED <<holder, frames>>
    BY <2>1, <2>2 DEF RunsInv
  <2>3. CASE Next
    <3>1. PICK t \in Thread : Step(t)
      BY <2>3 DEF Next
    <3>2. holder # t
      BY <2>1, IsolateAssumption
    <3>3. ASSUME frames[t] # <<>> PROVE Top(t).kind = "Scope"
      <4>1. /\ frames[t] \in Seq(Frame) /\ Len(frames[t]) \in Nat \ {0}
            /\ Last(frames[t]) = frames[t][Len(frames[t])]
        BY <3>3, FrameLists, LastFront, Zenon
      <4>2. Len(frames[t]) \in 1 .. Len(frames[t])
        BY <4>1
      <4> QED
        BY <2>1, <4>1, <4>2 DEF Top
    <3>4. ~(LockerDestroy(t) \/ UnlockerCreate(t) \/ UnlockerDestroy(t))
      BY <3>2, <3>3 DEF LockerDestroy, UnlockerDestroy, UnlockerCreate, MayUseV8
    <3>5. ASSUME LockerCreate(t) PROVE Ran'
      BY <1>2, <3>2, <3>5 DEF LockerCreate, InitializeCurrent, Ran
    <3>6. ASSUME NEW i \in Isolate, EnterScope(t, i) PROVE RunsInv'
      <4>1. Push(t, "Scope", i, FALSE) /\ holder' = holder
        BY <3>6 DEF EnterScope
      <4>2. /\ \A u \in Thread \ {t} : frames'[u] = frames[u]
            /\ Len(frames[t]) \in Nat /\ Len(frames'[t]) = Len(frames[t]) + 1
            /\ \A n \in 1 .. Len(frames[t]) : frames'[t][n] = frames[t][n]
            /\ frames'[t][Len(frames[t]) + 1].kind = "Scope"
        BY <4>1, PushAppends, FrameLists
      <4>3. \A n \in 1 .. Len(frames'[t]) : frames'[t][n].kind = "Scope"
        BY <2>1, <4>2
      <4> QED
        BY <2>1, <4>1, <4>2, <4>3 DEF RunsInv
    <3>7. ASSUME ExitScope(t) PROVE RunsInv'
      <4>1. frames[t] # <<>> /\ Pop(t) /\ holder' = holder
        BY <3>7 DEF ExitScope
      <4>2. /\ \A u \in Thread \ {t} : frames'[u] = frames[u]
            /\ Len(frames[t]) \in Nat /\ Len(frames'[t]) = Len(frames[t]) - 1
            /\ \A n \in 1 .. Len(frames'[t]) : frames'[t][n] = frames[t][n]
        BY <4>1, PopTakesLast, FrameLists
      <4>3. \A n \in 1 .. Len(frames'[t]) : frames'[t][n].kind = "Scope"
        BY <2>1, <4>2
      <4> QED
        BY <2>1, <4>1, <4>2, <4>3 DEF RunsInv
    <3>8. ASSUME ExitDefault(t) \/ UseV8(t) \/ DisposeV8(t) \/ \E i \in Isolate : New(t, i) \/ Dispose(t, i)
          PROVE  UNCHANGED <<holder, frames>>
      BY <3>8 DEF ExitDefault, UseV8, DisposeV8, New, Dispose
    <3> QED
      BY <2>2, <3>1, <3>4, <3>5, <3>6, <3>7, <3>8 DEF Step, RunsInv
  <2> QED
    BY <2>2, <2>3 DEF vars
<1> QED
  BY <1>1, <1>2

\* The types of the variables that are not in EntryTypes.
FlagTypes ==
  /\ allocated \in SUBSET Isolate /\ initialized \in SUBSET Isolate
  /\ running \in BOOLEAN /\ setup \in BOOLEAN /\ fatal \in BOOLEAN /\ disposed \in BOOLEAN
  /\ holder \in Thread \cup {NoThread}

\* TypeOK in two parts.
LEMMA TypeParts ==
  /\ TypeOK <=> EntryTypes /\ FlagTypes
  /\ TypeOK' <=> EntryTypes' /\ FlagTypes'
BY Zenon DEF TypeOK, EntryTypes, FlagTypes

\* What initialising an isolate does to the flags.
LEMMA InitializeFlags ==
  ASSUME FlagTypes, NEW i \in Isolate, InitializeCurrent(i), allocated' = allocated,
         holder' \in Thread \cup {NoThread}
  PROVE  FlagTypes'
BY DEF FlagTypes, InitializeCurrent

\* A step keeps the types of the flags.
LEMMA StepFlags ==
  ASSUME EntryTypes, FlagTypes, PairInv, [Next]_vars
  PROVE  FlagTypes'
<1>1. CASE UNCHANGED vars
  BY <1>1 DEF vars, stateVars, FlagTypes
<1>2. CASE Next
  <2>1. PICK t \in Thread : Step(t)
    BY <1>2 DEF Next
  <2>2. CASE \E i \in Isolate : New(t, i) \/ EnterScope(t, i) \/ Dispose(t, i)
    BY <2>2 DEF New, EnterScope, Dispose, SetFatalError, TearDown, stateVars, FlagTypes
  <2>3. CASE ExitScope(t) \/ ExitDefault(t) \/ LockerDestroy(t) \/ UnlockerCreate(t) \/ UnlockerDestroy(t)
    BY <2>3 DEF ExitScope, ExitDefault, LockerDestroy, UnlockerCreate, UnlockerDestroy, stateVars,
       FlagTypes
  <2>4. CASE UseV8(t)
    <3>1. allocated' = allocated /\ holder' = holder /\ holder \in Thread \cup {NoThread}
      BY <2>4 DEF UseV8, FlagTypes
    <3>2. CASE data[t] = NoData
      <4>1. InitializeCurrent(default_isolate) \/ SetFatalError
        BY <2>4, <3>2 DEF UseV8
      <4>2. CASE InitializeCurrent(default_isolate)
        BY <3>1, <4>2, InitializeFlags, Separate
      <4>3. CASE SetFatalError
        BY <3>1, <4>3 DEF SetFatalError, FlagTypes
      <4> QED
        BY <4>1, <4>2, <4>3
    <3>3. CASE data[t] # NoData
      <4>1. InitializeCurrent(current[t])
        BY <2>4, <3>3 DEF UseV8
      <4>2. current[t] \in Isolate
        BY <3>3, Separate DEF PairInv, Pair, EntryTypes, ThreadData
      <4> QED
        BY <3>1, <4>1, <4>2, InitializeFlags
    <3> QED
      BY <3>2, <3>3
  <2>5. CASE DisposeV8(t)
    BY <2>5 DEF DisposeV8, SetFatalError, TearDown, FlagTypes
  <2>6. CASE LockerCreate(t)
    <3>1. allocated' = allocated /\ holder' \in {holder, t} /\ holder' \in Thread \cup {NoThread}
      BY <2>6 DEF LockerCreate, FlagTypes
    <3>2. InitializeCurrent(default_isolate) \/ UNCHANGED stateVars
      BY <2>6 DEF LockerCreate
    <3>3. CASE InitializeCurrent(default_isolate)
      BY <3>1, <3>3, InitializeFlags, Separate
    <3>4. CASE UNCHANGED stateVars
      BY <3>1, <3>4 DEF stateVars, FlagTypes
    <3> QED
      BY <3>2, <3>3, <3>4
  <2> QED
    BY <2>1, <2>2, <2>3, <2>4, <2>5, <2>6 DEF Step
<1> QED
  BY <1>1, <1>2

---------------------------------------------------------------------------
(* The invariant and what follows from it.                                   *)

\* The invariant holds initially.
LEMMA InitInv == Init => IInv
<1> SUFFICES ASSUME Init PROVE IInv
  OBVIOUS
<1>1. OwnInv
  BY InitOwn
<1>2. TypeOK
  BY <1>1, TypeParts DEF OwnInv, RestTypes, FlagTypes
<1>3. PairInv
  BY DEF Init, PairInv, Pair
<1>4. RunsInv
  BY DEF Init, RunsInv
<1> QED
  BY <1>1, <1>2, <1>3, <1>4 DEF IInv

\* The invariant is preserved by every step.
LEMMA StepInv == IInv /\ [Next]_vars => IInv'
<1> SUFFICES ASSUME IInv, [Next]_vars PROVE IInv'
  OBVIOUS
<1>1. EntryTypes /\ FlagTypes /\ PairInv /\ RunsInv
  BY TypeParts DEF IInv
<1>2. EntryTypes' /\ PairsAfter
  BY <1>1, StepPairs
<1>3. FlagTypes' /\ RunsInv'
  BY <1>1, StepFlags, StepRuns
<1>4. PairInv'
  <2>1. Ran => Ran'
    BY RanStays
  <2> QED
    BY <1>2, <2>1 DEF PairInv, PairsAfter, Pair, PairOK
<1>5. OwnEntries' => OwnInv'
  <2>1. program' = program
    BY DEF Next, Step, New, EnterScope, Dispose, ExitScope, ExitDefault, UseV8, DisposeV8,
       LockerCreate, LockerDestroy, UnlockerCreate, UnlockerDestroy, vars
  <2>2. OwnEntries' => OwnEntries
    BY <2>1 DEF OwnEntries
  <2> QED
    BY <2>2, StepOwn DEF IInv
<1> QED
  BY <1>2, <1>3, <1>4, <1>5, TypeParts DEF IInv

\* The inductive invariant.  In programs where every Exit finds its own entry the
\* two slots of every thread, and the entries of every isolate, follow the
\* stacks of C++ objects.
THEOREM IsolatesInvariant == Spec => []IInv
<1>1. Init => IInv
  BY InitInv
<1>2. IInv /\ [Next]_vars => IInv'
  BY StepInv
<1> QED
  BY <1>1, <1>2, PTL DEF Spec

\* Every isolate that a thread is in or will go back to is alive, in programs
\* where every Exit finds its own entry; the types are those of all programs.
THEOREM NoDanglingHolds == Spec => []NoDangling
<1>1. IInv => NoDangling
  <2> SUFFICES ASSUME OwnInv
               PROVE  /\ initialized \subseteq allocated
                      /\ \A t \in Thread : /\ current[t] \in allocated \cup {NoIsolate}
                                           /\ data[t].isolate \in allocated \cup {NoIsolate}
                      /\ \A i \in Isolate : \A n \in DOMAIN entryStack[i] :
                           entryStack[i][n].isolate \in allocated \cup {NoIsolate}
    BY DEF IInv, NoDangling
  <2>1. EntryInv /\ EntryTypes /\ SlotInv /\ FrameInv /\ StackInv
    BY InvParts DEF EntryInv
  <2>2. default_isolate \in allocated /\ initialized \subseteq allocated
    BY DEF OwnInv, RestTypes
  <2>3. ASSUME NEW t \in Thread
        PROVE  /\ current[t] \in allocated \cup {NoIsolate}
               /\ data[t].isolate \in allocated \cup {NoIsolate}
    <3>1. Len(frames[t]) \in 0 .. Len(frames[t])
      BY <2>1, FrameLists
    <3>2. InAt(t, Len(frames[t])) \in allocated \cup {NoIsolate}
      BY <2>1, <3>1, LevelAlive
    <3>3. CASE data[t] = NoData
      <4>1. current[t] \in {NoIsolate, default_isolate}
        BY <2>1, <3>3, SlotMeaning
      <4> QED
        BY <2>2, <3>3, <4>1 DEF NoData
    <3>4. CASE data[t] # NoData
      <4>1. data[t].isolate = InAt(t, Len(frames[t])) /\ current[t] = InAt(t, Len(frames[t]))
        BY <2>1, <3>4, SlotMeaning
      <4> QED
        BY <3>2, <4>1
    <3> QED
      BY <3>3, <3>4
  <2>4. ASSUME NEW i \in Isolate, NEW k \in DOMAIN entryStack[i]
        PROVE  entryStack[i][k].isolate \in allocated \cup {NoIsolate}
    <3>1. k \in 1 .. Len(entryStack[i])
      BY <2>1, EntryLists
    <3>2. CASE Shared(i)
      BY <2>1, <2>2, <3>1, <3>2 DEF Shared, StackInv
    <3>3. CASE ~Shared(i)
      <4>1. PICK t \in Thread : EntriesOf(t, i)
        BY <2>1, <3>3 DEF StackInv
      <4>2. PICK start \in [1 .. Len(entryStack[i]) -> 0 .. Len(frames[t])] : Entries(t, i, start)
        BY <4>1 DEF EntriesOf
      <4>3. EntryOK(t, i, start, k, entryStack[i][k])
        BY <2>1, <3>1, <4>2, EntriesParts
      <4>4. start[k] \in 0 .. Len(frames[t]) /\ Len(frames[t]) \in Nat
        BY <2>1, <3>1, <4>2, FrameLists
      <4>5. CASE start[k] = 0
        BY <2>2, <4>3, <4>5 DEF EntryOK
      <4>6. CASE start[k] # 0
        <5>1. start[k] \in 1 .. Len(frames[t]) /\ start[k] - 1 \in 0 .. Len(frames[t])
          BY <4>4, <4>6
        <5>2. frames[t][start[k]].before \in SlotFor(InAt(t, start[k] - 1))
          <6>1. FrameOK(t) /\ InAt(t, start[k] - 1) # i
            BY <2>1, <4>3, <5>1 DEF FrameInv, EntryOK
          <6>2. entryStack[i][k].count \in Nat /\ entryStack[i][k].count > 0
            BY <2>1, <3>1, <4>2, EntriesParts
          <6>3. start[k] \in start[k] .. start[k] + entryStack[i][k].count - 1
            BY <4>4, <6>2
          <6>4. InAt(t, start[k]) = i
            BY <2>1, <3>1, <4>2, <6>3, EntriesParts
          <6>5. frames[t][start[k]].isolate = i
            BY <4>6, <6>4 DEF InAt
          <6> QED
            BY <5>1, <6>1, <6>5 DEF FrameOK
        <5>3. InAt(t, start[k] - 1) \in allocated \cup {NoIsolate}
          BY <2>1, <5>1, LevelAlive
        <5> QED
          BY <2>2, <4>3, <4>6, <5>2, <5>3 DEF EntryOK, SlotFor
      <4> QED
        BY <4>5, <4>6
    <3> QED
      BY <3>2, <3>3
  <2> QED
    BY <2>2, <2>3, <2>4
<1> QED
  BY <1>1, IsolatesInvariant, PTL

\* v8.h: Exit restores the isolate that was entered before, whoever else has
\* entered and exited isolates in between, where it finds its own entry.
THEOREM ExitRestoresHolds == Spec => ExitRestores
<1>1. IInv /\ [Next]_vars =>
        [\A t \in Thread : OwnEntries /\ ExitScope(t) => current'[t] = Top(t).before]_vars
  <2> SUFFICES ASSUME IInv, NEW t \in Thread, OwnEntries, ExitScope(t) PROVE current'[t] = Top(t).before
    OBVIOUS
  <2>1. EntryInv /\ current \in [Thread -> Isolate \cup {NoIsolate}]
    BY InvParts DEF IInv, EntryInv, EntryTypes
  <2>2. current' = [current EXCEPT ![t] = Top(t).before]
    BY <2>1, ExitScopeRestores
  <2> QED
    BY <2>1, <2>2
<1> QED
  BY <1>1, IsolatesInvariant, PTL DEF Spec, ExitRestores

\* The assertion at v8.cc:61, for programs of any kind: a nested Locker changes
\* one slot alone only where V8::Initialize is not called any more.
THEOREM SlotsAgreeHolds == Spec => []SlotsAgree
<1>1. IInv => SlotsAgree
  BY DEF IInv, PairInv, Pair, Ran, SlotsAgree, NeedsInitialize
<1> QED
  BY <1>1, IsolatesInvariant, PTL
=============================================================================
