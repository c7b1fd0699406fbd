--------------------------- MODULE Debugger_proofs --------------------------
(* Theorems about Debugger, for any number of clients and any bounds: the     *)
(* ring of commands is a queue, the debugger finds a command when it takes a  *)
(* permit, only the thread with the lock is inside, and every command that    *)
(* was announced has somebody to process it.                                  *)
EXTENDS DebuggerInv, Integers, FiniteSetTheorems, TLAPS

---------------------------------------------------------------------------
(* The ring.                                                                  *)

\* A position that has not reached the end of the ring.
LEMMA ModSmall == ASSUME NEW n \in Nat \ {0}, NEW a \in 0 .. n - 1 PROVE a % n = a
  OBVIOUS

\* A position past the end of the ring, by less than its size.
LEMMA ModLarge == ASSUME NEW n \in Nat \ {0}, NEW a \in n .. 2 * n - 1 PROVE a % n = a - n
  OBVIOUS

Following(q, i) == IF i + 1 = q.size THEN 0 ELSE i + 1
At(q, i) == IF q.start + i - 1 < q.size THEN q.start + i - 1 ELSE q.start + i - 1 - q.size

\* The position after i.
LEMMA FollowingIs ==
  ASSUME NEW q, IsRing(q), NEW i \in 0 .. q.size - 1
  PROVE  (i + 1) % q.size = Following(q, i) /\ Following(q, i) \in 0 .. q.size - 1
<1>1. CASE i + 1 = q.size
  <2>1. i + 1 \in q.size .. 2 * q.size - 1
    BY <1>1 DEF IsRing
  <2>2. (i + 1) % q.size = (i + 1) - q.size
    BY <2>1, ModLarge DEF IsRing
  <2> QED BY <1>1, <2>2 DEF IsRing, Following
<1>2. CASE i + 1 # q.size
  <2>1. i + 1 \in 0 .. q.size - 1
    BY <1>2 DEF IsRing
  <2> QED BY <1>2, <2>1, ModSmall DEF IsRing, Following
<1> QED BY <1>1, <1>2

\* The number of entries, without a remainder.
LEMMA UsedIs ==
  ASSUME NEW q, IsRing(q)
  PROVE  /\ Used(q) = IF q.end >= q.start THEN q.end - q.start ELSE q.end + q.size - q.start
         /\ Used(q) \in 0 .. q.size - 1
<1>1. CASE q.end >= q.start
  <2>1. q.end + q.size - q.start \in q.size .. 2 * q.size - 1
    BY <1>1 DEF IsRing
  <2>2. Used(q) = (q.end + q.size - q.start) - q.size
    BY <2>1, ModLarge DEF IsRing, Used
  <2> QED BY <1>1, <2>2 DEF IsRing
<1>2. CASE q.end < q.start
  <2>1. q.end + q.size - q.start \in 0 .. q.size - 1
    BY <1>2 DEF IsRing
  <2>2. Used(q) = q.end + q.size - q.start
    BY <2>1, ModSmall DEF IsRing, Used
  <2> QED BY <1>2, <2>2 DEF IsRing
<1> QED BY <1>1, <1>2 DEF IsRing

\* What arithmetic needs to know of a ring.
LEMMA RingNumbers ==
  ASSUME NEW q, IsRing(q)
  PROVE  /\ q.start \in 0 .. q.size - 1 /\ q.end \in 0 .. q.size - 1 /\ q.size \in Nat \ {0, 1}
         /\ Used(q) = IF q.end >= q.start THEN q.end - q.start ELSE q.end + q.size - q.start
  BY UsedIs DEF IsRing

\* The place of the i-th entry, without a remainder.
LEMMA AtIs ==
  ASSUME NEW q, IsRing(q), NEW i \in 1 .. q.size
  PROVE  (q.start + i - 1) % q.size = At(q, i) /\ At(q, i) \in 0 .. q.size - 1
<1>1. CASE q.start + i - 1 < q.size
  <2>1. q.start + i - 1 \in 0 .. q.size - 1
    BY <1>1 DEF IsRing
  <2> QED BY <1>1, <2>1, ModSmall DEF IsRing, At
<1>2. CASE ~(q.start + i - 1 < q.size)
  <2>1. q.start + i - 1 \in q.size .. 2 * q.size - 1
    BY <1>2 DEF IsRing
  <2> QED BY <1>2, <2>1, ModLarge DEF IsRing, At
<1> QED BY <1>1, <1>2

\* The i-th of the contents is what lies i - 1 places after the start.
LEMMA ContentsIs ==
  ASSUME NEW q, IsRing(q)
  PROVE  Contents(q) = [i \in 1 .. Used(q) |-> q.messages[At(q, i)]]
<1>1. \A i \in 1 .. Used(q) : (q.start + i - 1) % q.size = At(q, i)
  <2> TAKE i \in 1 .. Used(q)
  <2>1. i \in 1 .. q.size
    BY UsedIs DEF IsRing
  <2> QED BY <2>1, AtIs
<1> QED BY <1>1 DEF Contents

---------------------------------------------------------------------------
\* AfterGet drops the first message and keeps the order of the others.
LEMMA RingAfterGet ==
  ASSUME NEW q, IsRing(q), ~IsEmpty(q)
  PROVE  /\ IsRing(AfterGet(q)) /\ Used(q) \in Nat \ {0}
         /\ Used(AfterGet(q)) = Used(q) - 1
         /\ First(q) = Contents(q)[1]
         /\ \A i \in 1 .. Used(q) - 1 : Contents(AfterGet(q))[i] = Contents(q)[i + 1]
<1> DEFINE r == AfterGet(q)
<1>1. r = [messages |-> q.messages, start |-> Following(q, q.start), end |-> q.end, size |-> q.size]
  <2>1. (q.start + 1) % q.size = Following(q, q.start)
    BY FollowingIs DEF IsRing
  <2>2. [q EXCEPT !.start = Following(q, q.start)] =
          [messages |-> q.messages, start |-> Following(q, q.start), end |-> q.end, size |-> q.size]
    BY DEF IsRing
  <2> QED BY <2>1, <2>2 DEF AfterGet
<1>2. IsRing(r)
  <2>1. Following(q, q.start) \in 0 .. q.size - 1
    BY FollowingIs DEF IsRing
  <2> HIDE DEF r
  <2> QED BY <1>1, <2>1 DEF IsRing
<1> HIDE DEF r
<1>3. Used(q) \in Nat \ {0}
  BY UsedIs DEF IsRing, IsEmpty
<1>7. r.messages = q.messages /\ r.start = Following(q, q.start) /\ r.end = q.end /\ r.size = q.size
  BY <1>1
<1>4. Used(r) = Used(q) - 1
  <2>1. q.start # q.end
    BY DEF IsEmpty
  <2>2. Used(r) = IF r.end >= r.start THEN r.end - r.start ELSE r.end + r.size - r.start
    BY <1>2, RingNumbers
  <2>3. CASE q.start + 1 = q.size
    BY <2>1, <2>2, <2>3, <1>7, RingNumbers DEF Following
  <2>4. CASE q.start + 1 # q.size
    BY <2>1, <2>2, <2>4, <1>7, RingNumbers DEF Following
  <2> QED BY <2>3, <2>4
<1>5. First(q) = Contents(q)[1]
  <2>1. At(q, 1) = q.start
    BY DEF At, IsRing
  <2> QED BY <2>1, <1>3, ContentsIs DEF First
<1>6. \A i \in 1 .. Used(q) - 1 : Contents(r)[i] = Contents(q)[i + 1]
  <2> TAKE i \in 1 .. Used(q) - 1
  <2>1. i \in 1 .. Used(r) /\ i + 1 \in 1 .. Used(q)
    BY <1>3, <1>4
  <2>2. At(r, i) = At(q, i + 1)
    <3>1. CASE q.start + 1 = q.size
      BY <3>1, <1>3, <1>7, RingNumbers DEF At, Following
    <3>2. CASE q.start + 1 # q.size
      BY <3>2, <1>3, <1>7, RingNumbers DEF At, Following
    <3> QED BY <3>1, <3>2
  <2>3. Contents(r)[i] = r.messages[At(r, i)]
    BY <2>1, <1>2, ContentsIs
  <2>4. Contents(q)[i + 1] = q.messages[At(q, i + 1)]
    BY <2>1, ContentsIs
  <2> QED BY <2>2, <2>3, <2>4, <1>7
<1> QED BY <1>2, <1>3, <1>4, <1>5, <1>6 DEF r

\* Growing the ring moves the messages, and leaves room for one more.
LEMMA RingExpand ==
  ASSUME NEW q, IsRing(q)
  PROVE  /\ IsRing(Expand(q)) /\ Used(Expand(q)) = Used(q)
         /\ \A i \in 1 .. Used(q) : Contents(Expand(q))[i] = Contents(q)[i]
         /\ ~Full(Expand(q))
<1> DEFINE r == Expand(q)
           m == [i \in 0 .. 2 * q.size - 1 |-> IF i < Used(q) THEN Contents(q)[i + 1] ELSE NoCommand]
<1>1. r = [messages |-> m, start |-> 0, end |-> Used(q), size |-> 2 * q.size]
  BY DEF Expand
<1> HIDE DEF r
<1>2. Used(q) \in 0 .. q.size - 1 /\ q.size \in Nat \ {0, 1}
  BY UsedIs DEF IsRing
<1>3. IsRing(r)
  BY <1>1, <1>2 DEF IsRing
<1>4. Used(r) = Used(q)
  <2> HIDE DEF m
  <2> QED BY <1>1, <1>2, <1>3, UsedIs
<1>5. \A i \in 1 .. Used(q) : Contents(r)[i] = Contents(q)[i]
  <2> TAKE i \in 1 .. Used(q)
  <2>1. At(r, i) = i - 1
    BY <1>1, <1>2 DEF At
  <2>2. m[i - 1] = Contents(q)[i]
    BY <1>2
  <2>3. r.messages = m
    BY <1>1
  <2> HIDE DEF m
  <2>4. i \in 1 .. Used(r)
    BY <1>4
  <2>5. Contents(r)[i] = r.messages[At(r, i)]
    BY <2>4, <1>3, ContentsIs
  <2> QED BY <2>1, <2>2, <2>3, <2>5
<1>6. ~Full(r)
  <2> HIDE DEF m
  <2>1. (r.end + 1) % r.size = Following(r, r.end)
    BY <1>3, FollowingIs DEF IsRing
  <2> QED BY <2>1, <1>1, <1>2 DEF Full, Following
<1> QED BY <1>3, <1>4, <1>5, <1>6 DEF r

\* Put where there is room.
PutInto(q, message) == [q EXCEPT !.messages[q.end] = message, !.end = (@ + 1) % q.size]

\* Putting a message into a ring that has room adds it to the contents.
LEMMA RingPutInto ==
  ASSUME NEW q, NEW message, IsRing(q), ~Full(q)
  PROVE  /\ IsRing(PutInto(q, message)) /\ Used(PutInto(q, message)) = Used(q) + 1
         /\ \A i \in 1 .. Used(q) : Contents(PutInto(q, message))[i] = Contents(q)[i]
         /\ Contents(PutInto(q, message))[Used(q) + 1] = message
<1> DEFINE r == PutInto(q, message)
           m == [q.messages EXCEPT ![q.end] = message]
<1>1. r = [messages |-> m, start |-> q.start, end |-> Following(q, q.end), size |-> q.size]
  <2>1. (q.end + 1) % q.size = Following(q, q.end)
    BY FollowingIs DEF IsRing
  <2> HIDE DEF m
  <2>2. r = [[q EXCEPT !.messages = m] EXCEPT !.end = (q.end + 1) % q.size]
    BY DEF PutInto, m
  <2>3. [q EXCEPT !.messages = m] = [messages |-> m, start |-> q.start, end |-> q.end, size |-> q.size]
    BY DEF IsRing
  <2> HIDE DEF r
  <2> QED BY <2>1, <2>2, <2>3
<1> HIDE DEF r
<1>2. IsRing(r)
  <2>1. Following(q, q.end) \in 0 .. q.size - 1
    BY FollowingIs DEF IsRing
  <2>2. m = [i \in 0 .. q.size - 1 |-> m[i]]
    BY DEF IsRing
  <2> HIDE DEF m
  <2> QED BY <1>1, <2>1, <2>2 DEF IsRing
<1>3. Following(q, q.end) # q.start
  BY FollowingIs DEF Full, IsRing
<1>4. Used(q) \in Nat /\ Used(q) + 1 < q.size /\ Used(r) = Used(q) + 1
  <2> HIDE DEF m
  <2>1. r.start = q.start /\ r.end = Following(q, q.end) /\ r.size = q.size
    BY <1>1
  <2>2. Used(r) = IF r.end >= r.start THEN r.end - r.start ELSE r.end + r.size - r.start
    BY <1>2, RingNumbers
  <2>3. CASE q.end + 1 = q.size
    BY <2>1, <2>2, <2>3, <1>3, RingNumbers DEF Following
  <2>4. CASE q.end + 1 # q.size
    BY <2>1, <2>2, <2>4, <1>3, RingNumbers DEF Following
  <2> QED BY <2>3, <2>4
<1>5. \A i \in 1 .. Used(q) : Contents(r)[i] = Contents(q)[i]
  <2> TAKE i \in 1 .. Used(q)
  <2>1. i \in 1 .. Used(r) /\ i \in 1 .. q.size
    BY <1>4 DEF IsRing
  <2>2. At(r, i) = At(q, i) /\ At(q, i) \in 0 .. q.size - 1 /\ At(q, i) # q.end
    <3>1. At(r, i) = At(q, i)
      BY <1>1 DEF At
    <3>2. At(q, i) \in 0 .. q.size - 1
      BY <2>1, AtIs
    <3>3. At(q, i) # q.end
      BY <1>4, RingNumbers DEF At
    <3> QED BY <3>1, <3>2, <3>3
  <2>3. m[At(q, i)] = q.messages[At(q, i)]
    BY <2>2 DEF IsRing
  <2>4. r.messages = m
    BY <1>1
  <2> HIDE DEF m
  <2>5. Contents(r)[i] = r.messages[At(r, i)]
    BY <2>1, <1>2, ContentsIs
  <2>6. Contents(q)[i] = q.messages[At(q, i)]
    BY ContentsIs
  <2> QED BY <2>2, <2>3, <2>4, <2>5, <2>6
<1>6. Contents(r)[Used(q) + 1] = message
  <2>1. At(r, Used(q) + 1) = q.end
    <3>1. r.start = q.start /\ r.size = q.size
      BY <1>1
    <3> QED BY <3>1, <1>4, RingNumbers DEF At
  <2>2. m[q.end] = message
    BY DEF IsRing
  <2> HIDE DEF m
  <2> QED BY <2>1, <2>2, <1>1, <1>2, <1>4, ContentsIs
<1> QED BY <1>2, <1>4, <1>5, <1>6 DEF r

\* Put adds a message behind the others, growing the ring if need be.
LEMMA RingPut ==
  ASSUME NEW q, NEW message, IsRing(q)
  PROVE  /\ IsRing(Put(q, message)) /\ Used(Put(q, message)) = Used(q) + 1
         /\ \A i \in 1 .. Used(q) : Contents(Put(q, message))[i] = Contents(q)[i]
         /\ Contents(Put(q, message))[Used(q) + 1] = message
<1>1. CASE Full(q)
  <2>1. Put(q, message) = PutInto(Expand(q), message)
    BY <1>1 DEF Put, PutInto
  <2> QED BY <2>1, RingExpand, RingPutInto
<1>2. CASE ~Full(q)
  <2>1. Put(q, message) = PutInto(q, message)
    BY <1>2 DEF Put, PutInto
  <2> QED BY <2>1, <1>2, RingPutInto
<1> QED BY <1>1, <1>2

\* A ring is empty when nothing is used of it; its contents are what is used.
LEMMA RingEmpty ==
  ASSUME NEW q, IsRing(q)
  PROVE  /\ IsEmpty(q) <=> Used(q) = 0
         /\ Len(Contents(q)) = Used(q)
<1>1. IsEmpty(q) <=> Used(q) = 0
  BY RingNumbers DEF IsEmpty
<1>2. Used(q) \in Nat
  BY UsedIs DEF IsRing
<1>3. Len(Contents(q)) = Used(q)
  BY <1>2 DEF Contents
<1> QED BY <1>1, <1>3

---------------------------------------------------------------------------
(* What a step of a group of actions leaves alone.                            *)

\* What a step of the VM thread or the helper leaves alone, kind by kind.
LEMMA ExecutorFrame ==
  ASSUME Types, NEW e \in Executor, ExecutorStep(e)
  PROVE  /\ UNCHANGED <<message_handler, helper, closes, debugger_access, owner, live, sem,
                        already_signalled, doing, sent>>
         /\ pc[e] \in Inside \cup Outside
         /\ pc'[e] \in Inside \cup Outside \cup {IF e = "VM" THEN "js" ELSE "unlocking"}
         /\ \A x \in Executor : x # e => pc'[x] = pc[x] /\ flags'[x] = flags[x]
         /\ pc'[e] \in Inside \cup Outside \/ pc[e] = "exit"
<1>1. CASE ClearDebugCommand(e)
  BY <1>1 DEF ClearDebugCommand, Go, Continue, noDebugStep, queueVars, handlerVars, lockVars,
     threadVars, breakVars, helperVars, Types, PlaceTypes, FlagTypes, ClientTypes, NumberTypes,
     SwitchTypes, Place, Inside, Outside, Executor, Announcement
<1>2. CASE EnterDebugger(e)
  BY <1>2 DEF EnterDebugger, Go, noDebugStep, queueVars, handlerVars, lockVars, threadVars,
     breakVars, helperVars, Types, PlaceTypes, FlagTypes, ClientTypes, NumberTypes, SwitchTypes,
     Place, Inside, Outside, Executor, Announcement
<1>3. CASE EventActive(e)
  BY <1>3 DEF EventActive, Go, noDebugStep, queueVars, handlerVars, lockVars, threadVars, breakVars,
     helperVars, Types, PlaceTypes, FlagTypes, ClientTypes, NumberTypes, SwitchTypes, Place, Inside,
     Outside, Executor, Announcement
<1>4. CASE ProcessDebugEvent(e)
  BY <1>4 DEF ProcessDebugEvent, Go, AfterNotify, noDebugStep, queueVars, handlerVars, lockVars,
     threadVars, breakVars, helperVars, Types, PlaceTypes, FlagTypes, ClientTypes, NumberTypes,
     SwitchTypes, Place, Inside, Outside, Executor, Announcement
<1>5. CASE NotifyMessageHandler(e)
  BY <1>5 DEF NotifyMessageHandler, Go, Continue, AfterNotify, noDebugStep, queueVars, handlerVars,
     lockVars, threadVars, breakVars, helperVars, Types, PlaceTypes, FlagTypes, ClientTypes,
     NumberTypes, SwitchTypes, Place, Inside, Outside, Executor, Announcement
<1>6. CASE SendEventMessage(e)
  BY <1>6 DEF SendEventMessage, Go, noDebugStep, queueVars, handlerVars, lockVars, threadVars,
     breakVars, helperVars, Types, PlaceTypes, FlagTypes, ClientTypes, NumberTypes, SwitchTypes,
     Place, Inside, Outside, Executor, Announcement
<1>7. CASE PollCommands(e)
  BY <1>7 DEF PollCommands, Go, AfterNotify, HasCommands, noDebugStep, queueVars, handlerVars,
     lockVars, threadVars, breakVars, helperVars, Types, PlaceTypes, FlagTypes, ClientTypes,
     NumberTypes, SwitchTypes, Place, Inside, Outside, Executor, Announcement
<1>8. CASE WaitForCommand(e)
  BY <1>8 DEF WaitForCommand, Go, noDebugStep, queueVars, handlerVars, lockVars, threadVars,
     breakVars, helperVars, Types, PlaceTypes, FlagTypes, ClientTypes, NumberTypes, SwitchTypes,
     Place, Inside, Outside, Executor, Announcement
<1>9. CASE GetCommand(e)
  BY <1>9 DEF GetCommand, Go, noDebugStep, queueVars, handlerVars, lockVars, threadVars, breakVars,
     helperVars, Types, PlaceTypes, FlagTypes, ClientTypes, NumberTypes, SwitchTypes, Place, Inside,
     Outside, Executor, Announcement
<1>10. CASE CheckActive(e)
  BY <1>10 DEF CheckActive, Go, AfterNotify, noDebugStep, queueVars, handlerVars, lockVars,
     threadVars, breakVars, helperVars, Types, PlaceTypes, FlagTypes, ClientTypes, NumberTypes,
     SwitchTypes, Place, Inside, Outside, Executor, Announcement
<1>11. CASE Respond(e)
  BY <1>11 DEF Respond, Go, noDebugStep, queueVars, handlerVars, lockVars, threadVars, breakVars,
     helperVars, Types, PlaceTypes, FlagTypes, ClientTypes, NumberTypes, SwitchTypes, Place, Inside,
     Outside, Executor, Announcement
<1>12. CASE ContinueOrWait(e)
  BY <1>12 DEF ContinueOrWait, Go, AfterNotify, HasCommands, noDebugStep, queueVars, handlerVars,
     lockVars, threadVars, breakVars, helperVars, Types, PlaceTypes, FlagTypes, ClientTypes,
     NumberTypes, SwitchTypes, Place, Inside, Outside, Executor, Announcement
<1>13. CASE ProcessEventCommands(e)
  BY <1>13 DEF ProcessEventCommands, Go, noDebugStep, queueVars, handlerVars, lockVars, threadVars,
     breakVars, helperVars, Types, PlaceTypes, FlagTypes, ClientTypes, NumberTypes, SwitchTypes,
     Place, Inside, Outside, Executor, Announcement
<1>14. CASE PostponeBreak(e)
  BY <1>14 DEF PostponeBreak, Go, Continue, noDebugStep, queueVars, handlerVars, lockVars,
     threadVars, breakVars, helperVars, Types, PlaceTypes, FlagTypes, ClientTypes, NumberTypes,
     SwitchTypes, Place, Inside, Outside, Executor, Announcement
<1>15. CASE RequestRecorded(e)
  BY <1>15 DEF RequestRecorded, Go, RequestPending, Request, noDebugStep, queueVars, handlerVars,
     lockVars, threadVars, breakVars, helperVars, Types, PlaceTypes, FlagTypes, ClientTypes,
     NumberTypes, SwitchTypes, Place, Inside, Outside, Executor, Announcement
<1>16. CASE CheckCommands(e)
  BY <1>16 DEF CheckCommands, Go, Request, noDebugStep, queueVars, handlerVars, lockVars,
     threadVars, breakVars, helperVars, Types, PlaceTypes, FlagTypes, ClientTypes, NumberTypes,
     SwitchTypes, Place, Inside, Outside, Executor, Announcement
<1>17. CASE ExitDebugger(e)
  BY <1>17 DEF ExitDebugger, Go, noDebugStep, queueVars, handlerVars, lockVars, threadVars,
     breakVars, helperVars, Types, PlaceTypes, FlagTypes, ClientTypes, NumberTypes, SwitchTypes,
     Place, Inside, Outside, Executor, Announcement
<1>18. CASE PreemptionWhileInDebugger(e)
  BY <1>18 DEF PreemptionWhileInDebugger, Continue, noDebugStep, queueVars, handlerVars, lockVars,
     threadVars, breakVars, helperVars, Types, PlaceTypes, FlagTypes, ClientTypes, NumberTypes,
     SwitchTypes, Place, Inside, Outside, Executor, Announcement
<1> QED BY <1>1, <1>2, <1>3, <1>4, <1>5, <1>6, <1>7, <1>8, <1>9, <1>10, <1>11, <1>12, <1>13, <1>14,
   <1>15, <1>16, <1>17, <1>18 DEF ExecutorStep

\* What a step of a client leaves alone.
LEMMA ClientFrame ==
  ASSUME Types, NEW c \in Client, ClientStep(c)
  PROVE  /\ UNCHANGED <<events, message_handler, helper, closes, owner, live, pending, entered, pc,
                        break_event, auto_continue, running, got>>
         /\ \A x \in Client : x # c => doing'[x] = doing[x]
         /\ \A x \in Executor : flags[x] \subseteq flags'[x]
<1>1. CASE SignalReceived(c)
  BY <1>1 DEF SignalReceived, Does, noDebugStep, queueVars, handlerVars, lockVars, threadVars,
     breakVars, helperVars, Types, PlaceTypes, FlagTypes, ClientTypes, NumberTypes, SwitchTypes
<1>2. CASE CheckInDebugger(c, "interrupt", "request", "schedule")
  BY <1>2 DEF CheckInDebugger, Does, noDebugStep, queueVars, handlerVars, lockVars, threadVars,
     breakVars, helperVars, Types, PlaceTypes, FlagTypes, ClientTypes, NumberTypes, SwitchTypes
<1>3. CASE DebugCommand(c, "request", "schedule")
  BY <1>3 DEF DebugCommand, Does, Request, noDebugStep, queueVars, handlerVars, lockVars,
     threadVars, breakVars, helperVars, Types, PlaceTypes, FlagTypes, ClientTypes, NumberTypes,
     SwitchTypes
<1>4. CASE Schedule(c)
  BY <1>4 DEF Schedule, Does, Release, Scheduled, noDebugStep, queueVars, handlerVars, lockVars,
     threadVars, breakVars, helperVars, Types, PlaceTypes, FlagTypes, ClientTypes, NumberTypes,
     SwitchTypes
<1>5. CASE PostHelper(c)
  BY <1>5 DEF PostHelper, Does, Release, noDebugStep, queueVars, handlerVars, lockVars, threadVars,
     breakVars, helperVars, Types, PlaceTypes, FlagTypes, ClientTypes, NumberTypes, SwitchTypes
<1>6. CASE FinishClose(c)
  BY <1>6 DEF FinishClose, SendEmpty, Does, PutCommand, noDebugStep, queueVars, handlerVars,
     lockVars, threadVars, breakVars, helperVars, Types, PlaceTypes, FlagTypes, ClientTypes,
     NumberTypes, SwitchTypes
<1>7. CASE CheckInDebugger(c, "interrupt for event", "request for event", "idle")
  BY <1>7 DEF CheckInDebugger, Does, noDebugStep, queueVars, handlerVars, lockVars, threadVars,
     breakVars, helperVars, Types, PlaceTypes, FlagTypes, ClientTypes, NumberTypes, SwitchTypes
<1>8. CASE DebugCommand(c, "request for event", "idle")
  BY <1>8 DEF DebugCommand, Does, Request, noDebugStep, queueVars, handlerVars, lockVars,
     threadVars, breakVars, helperVars, Types, PlaceTypes, FlagTypes, ClientTypes, NumberTypes,
     SwitchTypes
<1>9. CASE CallMessageDispatchHandler(c)
  BY <1>9 DEF CallMessageDispatchHandler, Does, Release, noDebugStep, queueVars, handlerVars,
     lockVars, threadVars, breakVars, helperVars, Types, PlaceTypes, FlagTypes, ClientTypes,
     NumberTypes, SwitchTypes
<1> QED BY <1>1, <1>2, <1>3, <1>4, <1>5, <1>6, <1>7, <1>8, <1>9 DEF ClientStep

---------------------------------------------------------------------------
(* Types.                                                                     *)

\* Types are preserved by every step.
LEMMA TypesNext ==
  ASSUME Types, WakeInv, Next PROVE Types'
<1>0. MaxCalls \in Nat /\ MaxEvents \in Nat
  BY BoundAssumption
<1>1. ASSUME NEW c \in Sender, ProcessCommand(c) PROVE Types'
  <2>1. ClientTypes'
    BY <1>1 DEF ProcessCommand, Does, PutCommand, noDebugStep, queueVars, handlerVars, lockVars,
       threadVars, breakVars, helperVars, Types, ClientTypes, Client, Announcement
  <2>2. NumberTypes'
    BY <1>1, <1>0 DEF ProcessCommand, Does, PutCommand, noDebugStep, queueVars, handlerVars,
       lockVars, threadVars, breakVars, helperVars, Types, NumberTypes
  <2>3. PlaceTypes' /\ FlagTypes' /\ SwitchTypes'
    BY <1>1 DEF ProcessCommand, noDebugStep, queueVars, handlerVars, lockVars, threadVars,
       breakVars, helperVars, PutCommand, Types, PlaceTypes, FlagTypes, SwitchTypes
  <2> QED BY <2>1, <2>2, <2>3 DEF Types
<1>2. ASSUME NEW c \in Sender, DebugBreak(c) PROVE Types'
  <2>1. FlagTypes'
    BY <1>2 DEF DebugBreak, Request, noDebugStep, queueVars, handlerVars, lockVars, threadVars,
       breakVars, helperVars, Types, FlagTypes, Executor, Interrupt, Pending
  <2>2. PlaceTypes' /\ ClientTypes' /\ NumberTypes' /\ SwitchTypes'
    BY <1>2 DEF DebugBreak, noDebugStep, queueVars, handlerVars, lockVars, threadVars, breakVars,
       helperVars, Types, PlaceTypes, ClientTypes, NumberTypes, SwitchTypes
  <2> QED BY <2>1, <2>2 DEF Types
<1>3. ASSUME NEW c \in Sender, EnqueueDebugCommand(c) PROVE Types'
  <2>1. ClientTypes'
    BY <1>3 DEF EnqueueDebugCommand, Does, noDebugStep, queueVars, handlerVars, lockVars,
       threadVars, breakVars, helperVars, Types, ClientTypes, Client, Announcement
  <2>2. NumberTypes'
    <3>1. events < MaxEvents /\ events' = events + 1
      BY <1>3 DEF EnqueueDebugCommand
    <3>2. events \in 0 .. MaxEvents
      BY DEF Types, NumberTypes
    <3>3. events' \in 0 .. MaxEvents
      BY <3>1, <3>2, <1>0
    <3> QED BY <1>3, <3>3 DEF EnqueueDebugCommand, Types, NumberTypes, queueVars, handlerVars, helperVars
  <2>3. PlaceTypes' /\ FlagTypes' /\ SwitchTypes'
    BY <1>3 DEF EnqueueDebugCommand, noDebugStep, queueVars, handlerVars, lockVars, threadVars,
       breakVars, helperVars, Types, PlaceTypes, FlagTypes, SwitchTypes
  <2> QED BY <2>1, <2>2, <2>3 DEF Types
<1>4. ASSUME NEW c \in Closer, OpenDebugger(c) PROVE Types'
  <2>1. SwitchTypes'
    BY <1>4 DEF OpenDebugger, AccessFree, noDebugStep, queueVars, handlerVars, lockVars, threadVars,
       breakVars, helperVars, Types, SwitchTypes, Executor
  <2>2. PlaceTypes' /\ FlagTypes' /\ ClientTypes' /\ NumberTypes'
    BY <1>4 DEF OpenDebugger, noDebugStep, queueVars, handlerVars, lockVars, threadVars, breakVars,
       helperVars, Types, PlaceTypes, FlagTypes, ClientTypes, NumberTypes
  <2> QED BY <2>1, <2>2 DEF Types
<1>5. ASSUME NEW c \in Closer, CloseDebugger(c) PROVE Types'
  <2>1. ClientTypes'
    BY <1>5 DEF CloseDebugger, Does, AccessFree, noDebugStep, queueVars, handlerVars, lockVars,
       threadVars, breakVars, helperVars, Types, ClientTypes, Client, Announcement
  <2>2. NumberTypes'
    BY <1>5, <1>0 DEF CloseDebugger, Does, AccessFree, noDebugStep, queueVars, handlerVars,
       lockVars, threadVars, breakVars, helperVars, Types, NumberTypes
  <2>3. SwitchTypes'
    BY <1>5 DEF CloseDebugger, Does, AccessFree, noDebugStep, queueVars, handlerVars, lockVars,
       threadVars, breakVars, helperVars, Types, SwitchTypes, Executor
  <2>4. PlaceTypes' /\ FlagTypes'
    BY <1>5 DEF CloseDebugger, noDebugStep, queueVars, handlerVars, lockVars, threadVars, breakVars,
       helperVars, Types, PlaceTypes, FlagTypes
  <2> QED BY <2>1, <2>2, <2>3, <2>4 DEF Types
<1>6. ASSUME NEW c \in Client, SignalReceived(c) PROVE Types'
  <2>1. ClientTypes'
    BY <1>6 DEF SignalReceived, Does, noDebugStep, queueVars, handlerVars, lockVars, threadVars,
       breakVars, helperVars, Types, ClientTypes, Client, Announcement
  <2>2. NumberTypes'
    BY <1>6, <1>0 DEF SignalReceived, Does, noDebugStep, queueVars, handlerVars, lockVars,
       threadVars, breakVars, helperVars, Types, NumberTypes
  <2>3. PlaceTypes' /\ FlagTypes' /\ SwitchTypes'
    BY <1>6 DEF SignalReceived, noDebugStep, queueVars, handlerVars, lockVars, threadVars,
       breakVars, helperVars, Types, PlaceTypes, FlagTypes, SwitchTypes
  <2> QED BY <2>1, <2>2, <2>3 DEF Types
<1>7. ASSUME NEW c \in Client, CheckInDebugger(c, "interrupt", "request", "schedule") PROVE Types'
  <2>1. ClientTypes'
    BY <1>7 DEF CheckInDebugger, Does, noDebugStep, queueVars, handlerVars, lockVars, threadVars,
       breakVars, helperVars, Types, ClientTypes, Client, Announcement
  <2>2. PlaceTypes' /\ FlagTypes' /\ NumberTypes' /\ SwitchTypes'
    BY <1>7 DEF CheckInDebugger, noDebugStep, queueVars, handlerVars, lockVars, threadVars,
       breakVars, helperVars, Types, PlaceTypes, FlagTypes, NumberTypes, SwitchTypes
  <2> QED BY <2>1, <2>2 DEF Types
<1>8. ASSUME NEW c \in Client, DebugCommand(c, "request", "schedule") PROVE Types'
  <2>1. FlagTypes'
    BY <1>8 DEF DebugCommand, Does, Request, noDebugStep, queueVars, handlerVars, lockVars,
       threadVars, breakVars, helperVars, Types, FlagTypes, Executor, Interrupt, Pending
  <2>2. ClientTypes'
    BY <1>8 DEF DebugCommand, Does, Request, noDebugStep, queueVars, handlerVars, lockVars,
       threadVars, breakVars, helperVars, Types, ClientTypes, Client, Announcement
  <2>3. PlaceTypes' /\ NumberTypes' /\ SwitchTypes'
    BY <1>8 DEF DebugCommand, noDebugStep, queueVars, handlerVars, lockVars, threadVars, breakVars,
       helperVars, Types, PlaceTypes, NumberTypes, SwitchTypes
  <2> QED BY <2>1, <2>2, <2>3 DEF Types
<1>9. ASSUME NEW c \in Client, Schedule(c) PROVE Types'
  <2>1. ClientTypes'
    BY <1>9 DEF Schedule, Does, Release, Scheduled, noDebugStep, queueVars, handlerVars, lockVars,
       threadVars, breakVars, helperVars, Types, ClientTypes, Client, Announcement
  <2>2. SwitchTypes'
    BY <1>9 DEF Schedule, Does, Release, Scheduled, noDebugStep, queueVars, handlerVars, lockVars,
       threadVars, breakVars, helperVars, Types, SwitchTypes, Executor
  <2>3. PlaceTypes' /\ FlagTypes' /\ NumberTypes'
    BY <1>9 DEF Schedule, noDebugStep, queueVars, handlerVars, lockVars, threadVars, breakVars,
       helperVars, Types, PlaceTypes, FlagTypes, NumberTypes
  <2> QED BY <2>1, <2>2, <2>3 DEF Types
<1>10. ASSUME NEW c \in Client, PostHelper(c) PROVE Types'
  <2>1. sem = 0
    BY <1>10 DEF PostHelper, Does, Types, ClientTypes, NumberTypes, WakeInv, Posting
  <2>2. ClientTypes'
    BY <1>10, <2>1 DEF PostHelper, Does, Release, noDebugStep, queueVars, handlerVars, lockVars,
       threadVars, breakVars, helperVars, Types, ClientTypes, Client, Announcement
  <2>3. NumberTypes'
    BY <1>10, <2>1, <1>0 DEF PostHelper, Does, Release, noDebugStep, queueVars, handlerVars,
       lockVars, threadVars, breakVars, helperVars, Types, NumberTypes
  <2>4. PlaceTypes' /\ FlagTypes' /\ SwitchTypes'
    BY <1>10 DEF PostHelper, noDebugStep, queueVars, handlerVars, lockVars, threadVars, breakVars,
       helperVars, Types, PlaceTypes, FlagTypes, SwitchTypes
  <2> QED BY <2>2, <2>3, <2>4 DEF Types
<1>11. ASSUME NEW c \in Client, FinishClose(c) PROVE Types'
  <2>1. ClientTypes'
    BY <1>11 DEF FinishClose, SendEmpty, Does, PutCommand, noDebugStep, queueVars, handlerVars,
       lockVars, threadVars, breakVars, helperVars, Types, ClientTypes, Client, Announcement
  <2>2. NumberTypes'
    BY <1>11, <1>0 DEF FinishClose, SendEmpty, Does, PutCommand, noDebugStep, queueVars,
       handlerVars, lockVars, threadVars, breakVars, helperVars, Types, NumberTypes
  <2>3. PlaceTypes' /\ FlagTypes' /\ SwitchTypes'
    BY <1>11 DEF FinishClose, noDebugStep, queueVars, handlerVars, lockVars, threadVars, breakVars,
       helperVars, SendEmpty, PutCommand, Types, PlaceTypes, FlagTypes, SwitchTypes
  <2> QED BY <2>1, <2>2, <2>3 DEF Types
<1>12. ASSUME NEW c \in Client, CheckInDebugger(c, "interrupt for event", "request for event", "idle") PROVE Types'
  <2>1. ClientTypes'
    BY <1>12 DEF CheckInDebugger, Does, noDebugStep, queueVars, handlerVars, lockVars, threadVars,
       breakVars, helperVars, Types, ClientTypes, Client, Announcement
  <2>2. PlaceTypes' /\ FlagTypes' /\ NumberTypes' /\ SwitchTypes'
    BY <1>12 DEF CheckInDebugger, noDebugStep, queueVars, handlerVars, lockVars, threadVars,
       breakVars, helperVars, Types, PlaceTypes, FlagTypes, NumberTypes, SwitchTypes
  <2> QED BY <2>1, <2>2 DEF Types
<1>13. ASSUME NEW c \in Client, DebugCommand(c, "request for event", "idle") PROVE Types'
  <2>1. FlagTypes'
    BY <1>13 DEF DebugCommand, Does, Request, noDebugStep, queueVars, handlerVars, lockVars,
       threadVars, breakVars, helperVars, Types, FlagTypes, Executor, Interrupt, Pending
  <2>2. ClientTypes'
    BY <1>13 DEF DebugCommand, Does, Request, noDebugStep, queueVars, handlerVars, lockVars,
       threadVars, breakVars, helperVars, Types, ClientTypes, Client, Announcement
  <2>3. PlaceTypes' /\ NumberTypes' /\ SwitchTypes'
    BY <1>13 DEF DebugCommand, noDebugStep, queueVars, handlerVars, lockVars, threadVars, breakVars,
       helperVars, Types, PlaceTypes, NumberTypes, SwitchTypes
  <2> QED BY <2>1, <2>2, <2>3 DEF Types
<1>14. CASE RequestPreemption
  <2>1. FlagTypes'
    BY <1>14 DEF RequestPreemption, Request, noDebugStep, queueVars, handlerVars, lockVars,
       threadVars, breakVars, helperVars, Types, FlagTypes, Executor, Interrupt, Pending
  <2>2. PlaceTypes' /\ ClientTypes' /\ NumberTypes' /\ SwitchTypes'
    BY <1>14 DEF RequestPreemption, noDebugStep, queueVars, handlerVars, lockVars, threadVars,
       breakVars, helperVars, Types, PlaceTypes, ClientTypes, NumberTypes, SwitchTypes
  <2> QED BY <2>1, <2>2 DEF Types
<1>15. CASE OnException
  <2>1. PlaceTypes'
    BY <1>15 DEF OnException, Go, noDebugStep, queueVars, handlerVars, lockVars, threadVars,
       breakVars, helperVars, Types, PlaceTypes, Place, Inside, Outside, Executor
  <2>2. SwitchTypes'
    BY <1>15 DEF OnException, Go, noDebugStep, queueVars, handlerVars, lockVars, threadVars,
       breakVars, helperVars, Types, SwitchTypes, Executor
  <2>3. FlagTypes' /\ ClientTypes' /\ NumberTypes'
    BY <1>15 DEF OnException, noDebugStep, queueVars, handlerVars, lockVars, threadVars, breakVars,
       helperVars, Types, FlagTypes, ClientTypes, NumberTypes
  <2> QED BY <2>1, <2>2, <2>3 DEF Types
<1>16. CASE DebugBreakHelper
  <2>1. PlaceTypes'
    BY <1>16 DEF DebugBreakHelper, Go, noDebugStep, queueVars, handlerVars, lockVars, threadVars,
       breakVars, helperVars, Types, PlaceTypes, Place, Inside, Outside, Executor
  <2>2. SwitchTypes'
    BY <1>16 DEF DebugBreakHelper, Go, noDebugStep, queueVars, handlerVars, lockVars, threadVars,
       breakVars, helperVars, Types, SwitchTypes, Executor
  <2>3. FlagTypes' /\ ClientTypes' /\ NumberTypes'
    BY <1>16 DEF DebugBreakHelper, noDebugStep, queueVars, handlerVars, lockVars, threadVars,
       breakVars, helperVars, Types, FlagTypes, ClientTypes, NumberTypes
  <2> QED BY <2>1, <2>2, <2>3 DEF Types
<1>17. CASE ClearDebugBreak
  <2>1. PlaceTypes'
    BY <1>17 DEF ClearDebugBreak, Go, Continue, noDebugStep, queueVars, handlerVars, lockVars,
       threadVars, breakVars, helperVars, Types, PlaceTypes, Place, Inside, Outside, Executor
  <2>2. FlagTypes'
    BY <1>17 DEF ClearDebugBreak, Go, Continue, noDebugStep, queueVars, handlerVars, lockVars,
       threadVars, breakVars, helperVars, Types, FlagTypes, Executor, Interrupt, Pending
  <2>3. ClientTypes' /\ NumberTypes' /\ SwitchTypes'
    BY <1>17 DEF ClearDebugBreak, noDebugStep, queueVars, handlerVars, lockVars, threadVars,
       breakVars, helperVars, Types, ClientTypes, NumberTypes, SwitchTypes
  <2> QED BY <2>1, <2>2, <2>3 DEF Types
<1>18. CASE Preempt
  <2>1. PlaceTypes'
    BY <1>18 DEF Preempt, Go, Continue, noDebugStep, queueVars, handlerVars, lockVars, threadVars,
       breakVars, helperVars, Types, PlaceTypes, Place, Inside, Outside, Executor
  <2>2. FlagTypes'
    BY <1>18 DEF Preempt, Go, Continue, noDebugStep, queueVars, handlerVars, lockVars, threadVars,
       breakVars, helperVars, Types, FlagTypes, Executor, Interrupt, Pending
  <2>3. SwitchTypes'
    BY <1>18 DEF Preempt, Go, Continue, noDebugStep, queueVars, handlerVars, lockVars, threadVars,
       breakVars, helperVars, Types, SwitchTypes, Executor
  <2>4. ClientTypes' /\ NumberTypes'
    BY <1>18 DEF Preempt, noDebugStep, queueVars, handlerVars, lockVars, threadVars, breakVars,
       helperVars, Types, ClientTypes, NumberTypes
  <2> QED BY <2>1, <2>2, <2>3, <2>4 DEF Types
<1>19. CASE Relock
  <2>1. PlaceTypes'
    BY <1>19 DEF Relock, Go, noDebugStep, queueVars, handlerVars, lockVars, threadVars, breakVars,
       helperVars, Types, PlaceTypes, Place, Inside, Outside, Executor
  <2>2. FlagTypes'
    BY <1>19 DEF Relock, Go, noDebugStep, queueVars, handlerVars, lockVars, threadVars, breakVars,
       helperVars, Types, FlagTypes, Executor, Interrupt, Pending
  <2>3. SwitchTypes'
    BY <1>19 DEF Relock, Go, noDebugStep, queueVars, handlerVars, lockVars, threadVars, breakVars,
       helperVars, Types, SwitchTypes, Executor
  <2>4. ClientTypes' /\ NumberTypes'
    BY <1>19 DEF Relock, noDebugStep, queueVars, handlerVars, lockVars, threadVars, breakVars,
       helperVars, Types, ClientTypes, NumberTypes
  <2> QED BY <2>1, <2>2, <2>3, <2>4 DEF Types
<1>20. CASE HelperWake
  <2>1. PlaceTypes'
    BY <1>20 DEF HelperWake, Go, noDebugStep, queueVars, handlerVars, lockVars, threadVars,
       breakVars, helperVars, Types, PlaceTypes, Place, Inside, Outside, Executor
  <2>2. NumberTypes'
    BY <1>20, <1>0 DEF HelperWake, Go, noDebugStep, queueVars, handlerVars, lockVars, threadVars,
       breakVars, helperVars, Types, NumberTypes
  <2>3. FlagTypes' /\ ClientTypes' /\ SwitchTypes'
    BY <1>20 DEF HelperWake, noDebugStep, queueVars, handlerVars, lockVars, threadVars, breakVars,
       helperVars, Types, FlagTypes, ClientTypes, SwitchTypes
  <2> QED BY <2>1, <2>2, <2>3 DEF Types
<1>21. CASE HelperReset
  <2>1. PlaceTypes'
    BY <1>21 DEF HelperReset, ResetSignalled, Go, noDebugStep, queueVars, handlerVars, lockVars,
       threadVars, breakVars, helperVars, Types, PlaceTypes, Place, Inside, Outside, Executor
  <2>2. SwitchTypes'
    BY <1>21 DEF HelperReset, ResetSignalled, Go, noDebugStep, queueVars, handlerVars, lockVars,
       threadVars, breakVars, helperVars, Types, SwitchTypes, Executor
  <2>3. FlagTypes' /\ ClientTypes' /\ NumberTypes'
    BY <1>21 DEF HelperReset, noDebugStep, queueVars, handlerVars, lockVars, threadVars, breakVars,
       helperVars, ResetSignalled, Types, FlagTypes, ClientTypes, NumberTypes
  <2> QED BY <2>1, <2>2, <2>3 DEF Types
<1>22. CASE HelperLock
  <2>1. PlaceTypes'
    BY <1>22 DEF HelperLock, Go, noDebugStep, queueVars, handlerVars, lockVars, threadVars,
       breakVars, helperVars, Types, PlaceTypes, Place, Inside, Outside, Executor
  <2>2. FlagTypes'
    BY <1>22 DEF HelperLock, Go, noDebugStep, queueVars, handlerVars, lockVars, threadVars,
       breakVars, helperVars, Types, FlagTypes, Executor, Interrupt, Pending
  <2>3. SwitchTypes'
    BY <1>22 DEF HelperLock, Go, noDebugStep, queueVars, handlerVars, lockVars, threadVars,
       breakVars, helperVars, Types, SwitchTypes, Executor
  <2>4. ClientTypes' /\ NumberTypes'
    BY <1>22 DEF HelperLock, noDebugStep, queueVars, handlerVars, lockVars, threadVars, breakVars,
       helperVars, Types, ClientTypes, NumberTypes
  <2> QED BY <2>1, <2>2, <2>3, <2>4 DEF Types
<1>23. CASE HelperUnlock
  <2>1. PlaceTypes'
    BY <1>23 DEF HelperUnlock, Go, noDebugStep, queueVars, handlerVars, lockVars, threadVars,
       breakVars, helperVars, Types, PlaceTypes, Place, Inside, Outside, Executor
  <2>2. FlagTypes'
    BY <1>23 DEF HelperUnlock, Go, noDebugStep, queueVars, handlerVars, lockVars, threadVars,
       breakVars, helperVars, Types, FlagTypes, Executor, Interrupt, Pending
  <2>3. SwitchTypes'
    BY <1>23 DEF HelperUnlock, Go, noDebugStep, queueVars, handlerVars, lockVars, threadVars,
       breakVars, helperVars, Types, SwitchTypes, Executor
  <2>4. ClientTypes' /\ NumberTypes'
    BY <1>23 DEF HelperUnlock, noDebugStep, queueVars, handlerVars, lockVars, threadVars, breakVars,
       helperVars, Types, ClientTypes, NumberTypes
  <2> QED BY <2>1, <2>2, <2>3, <2>4 DEF Types
<1>24. ASSUME NEW e \in Executor, ClearDebugCommand(e) PROVE Types'
  <2>1. PlaceTypes'
    BY <1>24 DEF ClearDebugCommand, Go, Continue, noDebugStep, queueVars, handlerVars, lockVars,
       threadVars, breakVars, helperVars, Types, PlaceTypes, Place, Inside, Outside, Executor
  <2>2. FlagTypes'
    BY <1>24 DEF ClearDebugCommand, Go, Continue, noDebugStep, queueVars, handlerVars, lockVars,
       threadVars, breakVars, helperVars, Types, FlagTypes, Executor, Interrupt, Pending
  <2>3. ClientTypes' /\ NumberTypes' /\ SwitchTypes'
    BY <1>24 DEF ClearDebugCommand, noDebugStep, queueVars, handlerVars, lockVars, threadVars,
       breakVars, helperVars, Types, ClientTypes, NumberTypes, SwitchTypes
  <2> QED BY <2>1, <2>2, <2>3 DEF Types
<1>25. ASSUME NEW e \in Executor, EnterDebugger(e) PROVE Types'
  <2>1. PlaceTypes'
    BY <1>25 DEF EnterDebugger, Go, noDebugStep, queueVars, handlerVars, lockVars, threadVars,
       breakVars, helperVars, Types, PlaceTypes, Place, Inside, Outside, Executor
  <2>2. FlagTypes'
    BY <1>25 DEF EnterDebugger, Go, noDebugStep, queueVars, handlerVars, lockVars, threadVars,
       breakVars, helperVars, Types, FlagTypes, Executor, Interrupt, Pending
  <2>3. ClientTypes' /\ NumberTypes' /\ SwitchTypes'
    BY <1>25 DEF EnterDebugger, noDebugStep, queueVars, handlerVars, lockVars, threadVars,
       breakVars, helperVars, Types, ClientTypes, NumberTypes, SwitchTypes
  <2> QED BY <2>1, <2>2, <2>3 DEF Types
<1>26. ASSUME NEW e \in Executor, EventActive(e) PROVE Types'
  <2>1. PlaceTypes'
    BY <1>26 DEF EventActive, Go, noDebugStep, queueVars, handlerVars, lockVars, threadVars,
       breakVars, helperVars, Types, PlaceTypes, Place, Inside, Outside, Executor
  <2>2. FlagTypes' /\ ClientTypes' /\ NumberTypes' /\ SwitchTypes'
    BY <1>26 DEF EventActive, noDebugStep, queueVars, handlerVars, lockVars, threadVars, breakVars,
       helperVars, Types, FlagTypes, ClientTypes, NumberTypes, SwitchTypes
  <2> QED BY <2>1, <2>2 DEF Types
<1>27. ASSUME NEW e \in Executor, ProcessDebugEvent(e) PROVE Types'
  <2>1. PlaceTypes'
    BY <1>27 DEF ProcessDebugEvent, Go, AfterNotify, noDebugStep, queueVars, handlerVars, lockVars,
       threadVars, breakVars, helperVars, Types, PlaceTypes, Place, Inside, Outside, Executor
  <2>2. FlagTypes'
    BY <1>27 DEF ProcessDebugEvent, Go, AfterNotify, noDebugStep, queueVars, handlerVars, lockVars,
       threadVars, breakVars, helperVars, Types, FlagTypes, Executor, Interrupt, Pending
  <2>3. ClientTypes' /\ NumberTypes' /\ SwitchTypes'
    BY <1>27 DEF ProcessDebugEvent, noDebugStep, queueVars, handlerVars, lockVars, threadVars,
       breakVars, helperVars, Types, ClientTypes, NumberTypes, SwitchTypes
  <2> QED BY <2>1, <2>2, <2>3 DEF Types
<1>28. ASSUME NEW e \in Executor, NotifyMessageHandler(e) PROVE Types'
  <2>1. PlaceTypes'
    BY <1>28 DEF NotifyMessageHandler, Go, Continue, AfterNotify, noDebugStep, queueVars,
       handlerVars, lockVars, threadVars, breakVars, helperVars, Types, PlaceTypes, Place, Inside,
       Outside, Executor
  <2>2. FlagTypes'
    BY <1>28 DEF NotifyMessageHandler, Go, Continue, AfterNotify, noDebugStep, queueVars,
       handlerVars, lockVars, threadVars, breakVars, helperVars, Types, FlagTypes, Executor,
       Interrupt, Pending
  <2>3. SwitchTypes'
    BY <1>28 DEF NotifyMessageHandler, Go, Continue, AfterNotify, noDebugStep, queueVars,
       handlerVars, lockVars, threadVars, breakVars, helperVars, Types, SwitchTypes, Executor
  <2>4. ClientTypes' /\ NumberTypes'
    BY <1>28 DEF NotifyMessageHandler, noDebugStep, queueVars, handlerVars, lockVars, threadVars,
       breakVars, helperVars, Types, ClientTypes, NumberTypes
  <2> QED BY <2>1, <2>2, <2>3, <2>4 DEF Types
<1>29. ASSUME NEW e \in Executor, SendEventMessage(e) PROVE Types'
  <2>1. PlaceTypes'
    BY <1>29 DEF SendEventMessage, Go, noDebugStep, queueVars, handlerVars, lockVars, threadVars,
       breakVars, helperVars, Types, PlaceTypes, Place, Inside, Outside, Executor
  <2>2. FlagTypes' /\ ClientTypes' /\ NumberTypes' /\ SwitchTypes'
    BY <1>29 DEF SendEventMessage, noDebugStep, queueVars, handlerVars, lockVars, threadVars,
       breakVars, helperVars, Types, FlagTypes, ClientTypes, NumberTypes, SwitchTypes
  <2> QED BY <2>1, <2>2 DEF Types
<1>30. ASSUME NEW e \in Executor, PollCommands(e) PROVE Types'
  <2>1. PlaceTypes'
    BY <1>30 DEF PollCommands, Go, AfterNotify, HasCommands, noDebugStep, queueVars, handlerVars,
       lockVars, threadVars, breakVars, helperVars, Types, PlaceTypes, Place, Inside, Outside,
       Executor
  <2>2. SwitchTypes'
    BY <1>30 DEF PollCommands, Go, AfterNotify, HasCommands, noDebugStep, queueVars, handlerVars,
       lockVars, threadVars, breakVars, helperVars, Types, SwitchTypes, Executor
  <2>3. FlagTypes' /\ ClientTypes' /\ NumberTypes'
    BY <1>30 DEF PollCommands, noDebugStep, queueVars, handlerVars, lockVars, threadVars, breakVars,
       helperVars, Types, FlagTypes, ClientTypes, NumberTypes
  <2> QED BY <2>1, <2>2, <2>3 DEF Types
<1>31. ASSUME NEW e \in Executor, WaitForCommand(e) PROVE Types'
  <2>1. PlaceTypes'
    BY <1>31 DEF WaitForCommand, Go, noDebugStep, queueVars, handlerVars, lockVars, threadVars,
       breakVars, helperVars, Types, PlaceTypes, Place, Inside, Outside, Executor
  <2>2. NumberTypes'
    BY <1>31, <1>0 DEF WaitForCommand, Go, noDebugStep, queueVars, handlerVars, lockVars,
       threadVars, breakVars, helperVars, Types, NumberTypes
  <2>3. FlagTypes' /\ ClientTypes' /\ SwitchTypes'
    BY <1>31 DEF WaitForCommand, noDebugStep, queueVars, handlerVars, lockVars, threadVars,
       breakVars, helperVars, Types, FlagTypes, ClientTypes, SwitchTypes
  <2> QED BY <2>1, <2>2, <2>3 DEF Types
<1>32. ASSUME NEW e \in Executor, GetCommand(e) PROVE Types'
  <2>1. PlaceTypes'
    BY <1>32 DEF GetCommand, Go, noDebugStep, queueVars, handlerVars, lockVars, threadVars,
       breakVars, helperVars, Types, PlaceTypes, Place, Inside, Outside, Executor
  <2>2. NumberTypes'
    BY <1>32, <1>0 DEF GetCommand, Go, noDebugStep, queueVars, handlerVars, lockVars, threadVars,
       breakVars, helperVars, Types, NumberTypes
  <2>3. SwitchTypes'
    BY <1>32 DEF GetCommand, Go, noDebugStep, queueVars, handlerVars, lockVars, threadVars,
       breakVars, helperVars, Types, SwitchTypes, Executor
  <2>4. FlagTypes' /\ ClientTypes'
    BY <1>32 DEF GetCommand, noDebugStep, queueVars, handlerVars, lockVars, threadVars, breakVars,
       helperVars, Types, FlagTypes, ClientTypes
  <2> QED BY <2>1, <2>2, <2>3, <2>4 DEF Types
<1>33. ASSUME NEW e \in Executor, CheckActive(e) PROVE Types'
  <2>1. PlaceTypes'
    BY <1>33 DEF CheckActive, Go, AfterNotify, noDebugStep, queueVars, handlerVars, lockVars,
       threadVars, breakVars, helperVars, Types, PlaceTypes, Place, Inside, Outside, Executor
  <2>2. SwitchTypes'
    BY <1>33 DEF CheckActive, Go, AfterNotify, noDebugStep, queueVars, handlerVars, lockVars,
       threadVars, breakVars, helperVars, Types, SwitchTypes, Executor
  <2>3. FlagTypes' /\ ClientTypes' /\ NumberTypes'
    BY <1>33 DEF CheckActive, noDebugStep, queueVars, handlerVars, lockVars, threadVars, breakVars,
       helperVars, Types, FlagTypes, ClientTypes, NumberTypes
  <2> QED BY <2>1, <2>2, <2>3 DEF Types
<1>34. ASSUME NEW e \in Executor, Respond(e) PROVE Types'
  <2>1. PlaceTypes'
    BY <1>34 DEF Respond, Go, noDebugStep, queueVars, handlerVars, lockVars, threadVars, breakVars,
       helperVars, Types, PlaceTypes, Place, Inside, Outside, Executor
  <2>2. FlagTypes' /\ ClientTypes' /\ NumberTypes' /\ SwitchTypes'
    BY <1>34 DEF Respond, noDebugStep, queueVars, handlerVars, lockVars, threadVars, breakVars,
       helperVars, Types, FlagTypes, ClientTypes, NumberTypes, SwitchTypes
  <2> QED BY <2>1, <2>2 DEF Types
<1>35. ASSUME NEW e \in Executor, ContinueOrWait(e) PROVE Types'
  <2>1. PlaceTypes'
    BY <1>35 DEF ContinueOrWait, Go, AfterNotify, HasCommands, noDebugStep, queueVars, handlerVars,
       lockVars, threadVars, breakVars, helperVars, Types, PlaceTypes, Place, Inside, Outside,
       Executor
  <2>2. SwitchTypes'
    BY <1>35 DEF ContinueOrWait, Go, AfterNotify, HasCommands, noDebugStep, queueVars, handlerVars,
       lockVars, threadVars, breakVars, helperVars, Types, SwitchTypes, Executor
  <2>3. FlagTypes' /\ ClientTypes' /\ NumberTypes'
    BY <1>35 DEF ContinueOrWait, noDebugStep, queueVars, handlerVars, lockVars, threadVars,
       breakVars, helperVars, Types, FlagTypes, ClientTypes, NumberTypes
  <2> QED BY <2>1, <2>2, <2>3 DEF Types
<1>36. ASSUME NEW e \in Executor, ProcessEventCommands(e) PROVE Types'
  <2>1. PlaceTypes'
    BY <1>36 DEF ProcessEventCommands, Go, noDebugStep, queueVars, handlerVars, lockVars,
       threadVars, breakVars, helperVars, Types, PlaceTypes, Place, Inside, Outside, Executor
  <2>2. NumberTypes'
    BY <1>36, <1>0 DEF ProcessEventCommands, Go, noDebugStep, queueVars, handlerVars, lockVars,
       threadVars, breakVars, helperVars, Types, NumberTypes
  <2>3. FlagTypes' /\ ClientTypes' /\ SwitchTypes'
    BY <1>36 DEF ProcessEventCommands, noDebugStep, queueVars, handlerVars, lockVars, threadVars,
       breakVars, helperVars, Types, FlagTypes, ClientTypes, SwitchTypes
  <2> QED BY <2>1, <2>2, <2>3 DEF Types
<1>37. ASSUME NEW e \in Executor, PostponeBreak(e) PROVE Types'
  <2>1. PlaceTypes'
    BY <1>37 DEF PostponeBreak, Go, Continue, noDebugStep, queueVars, handlerVars, lockVars,
       threadVars, breakVars, helperVars, Types, PlaceTypes, Place, Inside, Outside, Executor
  <2>2. FlagTypes'
    BY <1>37 DEF PostponeBreak, Go, Continue, noDebugStep, queueVars, handlerVars, lockVars,
       threadVars, breakVars, helperVars, Types, FlagTypes, Executor, Interrupt, Pending
  <2>3. ClientTypes' /\ NumberTypes' /\ SwitchTypes'
    BY <1>37 DEF PostponeBreak, noDebugStep, queueVars, handlerVars, lockVars, threadVars,
       breakVars, helperVars, Types, ClientTypes, NumberTypes, SwitchTypes
  <2> QED BY <2>1, <2>2, <2>3 DEF Types
<1>38. ASSUME NEW e \in Executor, RequestRecorded(e) PROVE Types'
  <2>1. PlaceTypes'
    BY <1>38 DEF RequestRecorded, Go, RequestPending, Request, noDebugStep, queueVars, handlerVars,
       lockVars, threadVars, breakVars, helperVars, Types, PlaceTypes, Place, Inside, Outside,
       Executor
  <2>2. FlagTypes'
    BY <1>38 DEF RequestRecorded, Go, RequestPending, Request, noDebugStep, queueVars, handlerVars,
       lockVars, threadVars, breakVars, helperVars, Types, FlagTypes, Executor, Interrupt, Pending
  <2>3. ClientTypes' /\ NumberTypes' /\ SwitchTypes'
    BY <1>38 DEF RequestRecorded, noDebugStep, queueVars, handlerVars, lockVars, threadVars,
       breakVars, helperVars, RequestPending, Types, ClientTypes, NumberTypes, SwitchTypes
  <2> QED BY <2>1, <2>2, <2>3 DEF Types
<1>39. ASSUME NEW e \in Executor, CheckCommands(e) PROVE Types'
  <2>1. PlaceTypes'
    BY <1>39 DEF CheckCommands, Go, Request, noDebugStep, queueVars, handlerVars, lockVars,
       threadVars, breakVars, helperVars, Types, PlaceTypes, Place, Inside, Outside, Executor
  <2>2. FlagTypes'
    BY <1>39 DEF CheckCommands, Go, Request, noDebugStep, queueVars, handlerVars, lockVars,
       threadVars, breakVars, helperVars, Types, FlagTypes, Executor, Interrupt, Pending
  <2>3. ClientTypes' /\ NumberTypes' /\ SwitchTypes'
    BY <1>39 DEF CheckCommands, noDebugStep, queueVars, handlerVars, lockVars, threadVars,
       breakVars, helperVars, Types, ClientTypes, NumberTypes, SwitchTypes
  <2> QED BY <2>1, <2>2, <2>3 DEF Types
<1>40. ASSUME NEW e \in Executor, ExitDebugger(e) PROVE Types'
  <2>1. PlaceTypes'
    BY <1>40 DEF ExitDebugger, Go, noDebugStep, queueVars, handlerVars, lockVars, threadVars,
       breakVars, helperVars, Types, PlaceTypes, Place, Inside, Outside, Executor
  <2>2. FlagTypes'
    BY <1>40 DEF ExitDebugger, Go, noDebugStep, queueVars, handlerVars, lockVars, threadVars,
       breakVars, helperVars, Types, FlagTypes, Executor, Interrupt, Pending
  <2>3. SwitchTypes'
    BY <1>40 DEF ExitDebugger, Go, noDebugStep, queueVars, handlerVars, lockVars, threadVars,
       breakVars, helperVars, Types, SwitchTypes, Executor
  <2>4. ClientTypes' /\ NumberTypes'
    BY <1>40 DEF ExitDebugger, noDebugStep, queueVars, handlerVars, lockVars, threadVars, breakVars,
       helperVars, Types, ClientTypes, NumberTypes
  <2> QED BY <2>1, <2>2, <2>3, <2>4 DEF Types
<1>41. ASSUME NEW e \in Executor, PreemptionWhileInDebugger(e) PROVE Types'
  <2>1. FlagTypes'
    BY <1>41 DEF PreemptionWhileInDebugger, Continue, noDebugStep, queueVars, handlerVars, lockVars,
       threadVars, breakVars, helperVars, Types, FlagTypes, Executor, Interrupt, Pending
  <2>2. PlaceTypes' /\ ClientTypes' /\ NumberTypes' /\ SwitchTypes'
    BY <1>41 DEF PreemptionWhileInDebugger, noDebugStep, queueVars, handlerVars, lockVars,
       threadVars, breakVars, helperVars, Continue, Types, PlaceTypes, ClientTypes, NumberTypes,
       SwitchTypes
  <2> QED BY <2>1, <2>2 DEF Types
<1>42. ASSUME NEW c \in Client, CallMessageDispatchHandler(c) PROVE Types'
  <2>1. ClientTypes'
    BY <1>42 DEF CallMessageDispatchHandler, Does, Release, Types, ClientTypes, Client,
       Announcement
  <2>2. SwitchTypes'
    BY <1>42 DEF CallMessageDispatchHandler, Release, handlerVars, lockVars, threadVars, breakVars,
       helperVars, Types, SwitchTypes, Executor
  <2>3. PlaceTypes' /\ FlagTypes' /\ NumberTypes'
    BY <1>42 DEF CallMessageDispatchHandler, queueVars, handlerVars, lockVars, threadVars,
       breakVars, helperVars, Types, PlaceTypes, FlagTypes, NumberTypes
  <2> QED BY <2>1, <2>2, <2>3 DEF Types
<1> QED BY <1>1, <1>2, <1>3, <1>4, <1>5, <1>6, <1>7, <1>8, <1>9, <1>10, <1>11, <1>12, <1>13, <1>14,
   <1>15, <1>16, <1>17, <1>18, <1>19, <1>20, <1>21, <1>22, <1>23, <1>24, <1>25, <1>26, <1>27, <1>28,
   <1>29, <1>30, <1>31, <1>32, <1>33, <1>34, <1>35, <1>36, <1>37, <1>38, <1>39, <1>40, <1>41, <1>42 DEF
   Next, ClientStep, VMStep, HelperStep, ExecutorStep

---------------------------------------------------------------------------
(* The queue.                                                                 *)

Took == Getting # {} /\ command_queue' = AfterGet(command_queue) /\ got' = got + 1 /\ sent' = sent
QueueStep ==
  \/ UNCHANGED <<command_queue, sent, got>>
  \/ \E kind \in {"request", "empty"} : PutCommand(kind)
  \/ Took

\* A step leaves the queue alone, puts one command or takes one.
LEMMA QueueFrame ==
  ASSUME Types, Next PROVE QueueStep
<1>1. ASSUME NEW c \in Sender, ProcessCommand(c) PROVE QueueStep
  BY <1>1 DEF ProcessCommand, QueueStep
<1>2. ASSUME NEW c \in Sender, DebugBreak(c) PROVE QueueStep
  BY <1>2 DEF DebugBreak, noDebugStep, queueVars, QueueStep
<1>3. ASSUME NEW c \in Sender, EnqueueDebugCommand(c) PROVE QueueStep
  BY <1>3 DEF EnqueueDebugCommand, noDebugStep, queueVars, QueueStep
<1>4. ASSUME NEW c \in Closer, OpenDebugger(c) PROVE QueueStep
  BY <1>4 DEF OpenDebugger, noDebugStep, queueVars, QueueStep
<1>5. ASSUME NEW c \in Closer, CloseDebugger(c) PROVE QueueStep
  BY <1>5 DEF CloseDebugger, noDebugStep, queueVars, QueueStep
<1>6. ASSUME NEW c \in Client, SignalReceived(c) PROVE QueueStep
  BY <1>6 DEF SignalReceived, noDebugStep, queueVars, QueueStep
<1>7. ASSUME NEW c \in Client, CheckInDebugger(c, "interrupt", "request", "schedule") PROVE QueueStep
  BY <1>7 DEF CheckInDebugger, noDebugStep, queueVars, QueueStep
<1>8. ASSUME NEW c \in Client, DebugCommand(c, "request", "schedule") PROVE QueueStep
  BY <1>8 DEF DebugCommand, noDebugStep, queueVars, QueueStep
<1>9. ASSUME NEW c \in Client, Schedule(c) PROVE QueueStep
  BY <1>9 DEF Schedule, noDebugStep, queueVars, QueueStep
<1>10. ASSUME NEW c \in Client, PostHelper(c) PROVE QueueStep
  BY <1>10 DEF PostHelper, noDebugStep, queueVars, QueueStep
<1>11. ASSUME NEW c \in Client, FinishClose(c) PROVE QueueStep
  BY <1>11 DEF FinishClose, SendEmpty, QueueStep, queueVars
<1>12. ASSUME NEW c \in Client, CheckInDebugger(c, "interrupt for event", "request for event", "idle") PROVE QueueStep
  BY <1>12 DEF CheckInDebugger, noDebugStep, queueVars, QueueStep
<1>13. ASSUME NEW c \in Client, DebugCommand(c, "request for event", "idle") PROVE QueueStep
  BY <1>13 DEF DebugCommand, noDebugStep, queueVars, QueueStep
<1>14. CASE RequestPreemption
  BY <1>14 DEF RequestPreemption, noDebugStep, queueVars, QueueStep
<1>15. CASE OnException
  BY <1>15 DEF OnException, noDebugStep, queueVars, QueueStep
<1>16. CASE DebugBreakHelper
  BY <1>16 DEF DebugBreakHelper, noDebugStep, queueVars, QueueStep
<1>17. CASE ClearDebugBreak
  BY <1>17 DEF ClearDebugBreak, noDebugStep, queueVars, QueueStep
<1>18. CASE Preempt
  BY <1>18 DEF Preempt, noDebugStep, queueVars, QueueStep
<1>19. CASE Relock
  BY <1>19 DEF Relock, noDebugStep, queueVars, QueueStep
<1>20. CASE HelperWake
  BY <1>20 DEF HelperWake, noDebugStep, queueVars, QueueStep
<1>21. CASE HelperReset
  BY <1>21 DEF HelperReset, noDebugStep, queueVars, QueueStep
<1>22. CASE HelperLock
  BY <1>22 DEF HelperLock, noDebugStep, queueVars, QueueStep
<1>23. CASE HelperUnlock
  BY <1>23 DEF HelperUnlock, noDebugStep, queueVars, QueueStep
<1>24. ASSUME NEW e \in Executor, ClearDebugCommand(e) PROVE QueueStep
  BY <1>24 DEF ClearDebugCommand, noDebugStep, queueVars, QueueStep
<1>25. ASSUME NEW e \in Executor, EnterDebugger(e) PROVE QueueStep
  BY <1>25 DEF EnterDebugger, noDebugStep, queueVars, QueueStep
<1>26. ASSUME NEW e \in Executor, EventActive(e) PROVE QueueStep
  BY <1>26 DEF EventActive, noDebugStep, queueVars, QueueStep
<1>27. ASSUME NEW e \in Executor, ProcessDebugEvent(e) PROVE QueueStep
  BY <1>27 DEF ProcessDebugEvent, noDebugStep, queueVars, QueueStep
<1>28. ASSUME NEW e \in Executor, NotifyMessageHandler(e) PROVE QueueStep
  BY <1>28 DEF NotifyMessageHandler, noDebugStep, queueVars, QueueStep
<1>29. ASSUME NEW e \in Executor, SendEventMessage(e) PROVE QueueStep
  BY <1>29 DEF SendEventMessage, noDebugStep, queueVars, QueueStep
<1>30. ASSUME NEW e \in Executor, PollCommands(e) PROVE QueueStep
  BY <1>30 DEF PollCommands, noDebugStep, queueVars, QueueStep
<1>31. ASSUME NEW e \in Executor, WaitForCommand(e) PROVE QueueStep
  BY <1>31 DEF WaitForCommand, noDebugStep, queueVars, QueueStep
<1>32. ASSUME NEW e \in Executor, GetCommand(e) PROVE QueueStep
  <2>1. Getting # {}
    BY <1>32 DEF GetCommand, Go, Getting
  <2> QED BY <1>32, <2>1 DEF GetCommand, QueueStep, Took
<1>33. ASSUME NEW e \in Executor, CheckActive(e) PROVE QueueStep
  BY <1>33 DEF CheckActive, noDebugStep, queueVars, QueueStep
<1>34. ASSUME NEW e \in Executor, Respond(e) PROVE QueueStep
  BY <1>34 DEF Respond, noDebugStep, queueVars, QueueStep
<1>35. ASSUME NEW e \in Executor, ContinueOrWait(e) PROVE QueueStep
  BY <1>35 DEF ContinueOrWait, noDebugStep, queueVars, QueueStep
<1>36. ASSUME NEW e \in Executor, ProcessEventCommands(e) PROVE QueueStep
  BY <1>36 DEF ProcessEventCommands, noDebugStep, queueVars, QueueStep
<1>37. ASSUME NEW e \in Executor, PostponeBreak(e) PROVE QueueStep
  BY <1>37 DEF PostponeBreak, noDebugStep, queueVars, QueueStep
<1>38. ASSUME NEW e \in Executor, RequestRecorded(e) PROVE QueueStep
  BY <1>38 DEF RequestRecorded, noDebugStep, queueVars, QueueStep
<1>39. ASSUME NEW e \in Executor, CheckCommands(e) PROVE QueueStep
  BY <1>39 DEF CheckCommands, noDebugStep, queueVars, QueueStep
<1>40. ASSUME NEW e \in Executor, ExitDebugger(e) PROVE QueueStep
  BY <1>40 DEF ExitDebugger, noDebugStep, queueVars, QueueStep
<1>41. ASSUME NEW e \in Executor, PreemptionWhileInDebugger(e) PROVE QueueStep
  BY <1>41 DEF PreemptionWhileInDebugger, noDebugStep, queueVars, QueueStep
<1>42. ASSUME NEW c \in Client, CallMessageDispatchHandler(c) PROVE QueueStep
  BY <1>42 DEF CallMessageDispatchHandler, queueVars, QueueStep
<1> QED BY <1>1, <1>2, <1>3, <1>4, <1>5, <1>6, <1>7, <1>8, <1>9, <1>10, <1>11, <1>12, <1>13, <1>14,
   <1>15, <1>16, <1>17, <1>18, <1>19, <1>20, <1>21, <1>22, <1>23, <1>24, <1>25, <1>26, <1>27, <1>28,
   <1>29, <1>30, <1>31, <1>32, <1>33, <1>34, <1>35, <1>36, <1>37, <1>38, <1>39, <1>40, <1>41, <1>42 DEF
   Next, ClientStep, VMStep, HelperStep, ExecutorStep

\* The executors that hold a permit can be counted.
LEMMA CardinalityOfGetting ==
  ASSUME PlaceTypes
  PROVE  /\ IsFiniteSet(Getting) /\ Cardinality(Getting) \in Nat
         /\ Getting # {} => Cardinality(Getting) > 0
<1>1. Getting \subseteq {"VM", "Helper"}
  BY DEF Getting, Executor
<1>2. IsFiniteSet({"VM", "Helper"})
  <2>1. IsFiniteSet({} \cup {"VM"})
    BY FS_AddElement, FS_EmptySet
  <2>2. IsFiniteSet(({} \cup {"VM"}) \cup {"Helper"})
    BY <2>1, FS_AddElement
  <2>3. ({} \cup {"VM"}) \cup {"Helper"} = {"VM", "Helper"}
    OBVIOUS
  <2> QED BY <2>2, <2>3
<1>3. IsFiniteSet(Getting)
  BY <1>1, <1>2, FS_Subset
<1> QED BY <1>3, FS_CardinalityType, FS_EmptySet

\* The debugger never takes a command from an empty queue: a permit has one.
LEMMA TookFromQueue ==
  ASSUME Types, QueueInv, PermitInv, Getting # {}
  PROVE  ~IsEmpty(command_queue)
<1>1. Cardinality(Getting) \in Nat /\ Cardinality(Getting) > 0
  BY CardinalityOfGetting DEF Types
<1>2. Cardinality(Signalling) \in Nat /\ command_received \in Nat
  BY FS_CardinalityType DEF PermitInv, Types, NumberTypes
<1>3. Used(command_queue) # 0
  BY <1>1, <1>2 DEF PermitInv
<1> QED BY <1>3, RingEmpty DEF QueueInv

QueueRecord == [kind : {"request", "empty"}, id : Nat]

\* A command that is put gets the number sent + 1.
LEMMA QueueAfterPut ==
  ASSUME Types, QueueInv, NEW kind \in {"request", "empty"}, PutCommand(kind)
  PROVE  QueueInv' /\ Used(command_queue)' = Used(command_queue) + 1
<1> DEFINE q == command_queue
           m == [kind |-> kind, id |-> sent + 1]
           r == Put(q, m)
<1>1. command_queue' = r /\ sent' = sent + 1 /\ got' = got
  BY DEF PutCommand
<1>2. sent \in Nat /\ got \in Nat
  BY DEF Types, NumberTypes
<1>3. IsRing(q) /\ Used(q) = sent - got /\ Used(q) \in Nat
  <2>1. IsRing(q) /\ Used(q) = sent - got
    BY DEF QueueInv
  <2>2. q.size \in Nat
    BY <2>1 DEF IsRing
  <2> HIDE DEF q
  <2> QED BY <2>1, <2>2, UsedIs
<1>4. /\ IsRing(r) /\ Used(r) = Used(q) + 1
      /\ \A i \in 1 .. Used(q) : Contents(r)[i] = Contents(q)[i]
      /\ Contents(r)[Used(q) + 1] = m
  BY <1>3, RingPut
<1>5. \A i \in 1 .. Used(q) : Contents(q)[i].id = got + i /\ Contents(q)[i] \in QueueRecord
  BY DEF QueueInv, QueueRecord
<1>6. m.id = sent + 1 /\ m \in QueueRecord
  BY <1>2 DEF QueueRecord
<1> HIDE DEF q, m, r
<1>7. \A i \in 1 .. Used(r) : Contents(r)[i].id = got + i /\ Contents(r)[i] \in QueueRecord
  <2> TAKE i \in 1 .. Used(r)
  <2>1. CASE i \in 1 .. Used(q)
    BY <2>1, <1>4, <1>5
  <2>2. CASE i = Used(q) + 1
    BY <2>2, <1>2, <1>3, <1>4, <1>6
  <2> QED BY <2>1, <2>2, <1>3, <1>4
<1>8. Used(r) = sent' - got'
  BY <1>1, <1>2, <1>3, <1>4
<1> QED BY <1>1, <1>4, <1>7, <1>8 DEF QueueInv, QueueRecord, q

\* The command that is taken is the oldest.
LEMMA QueueAfterGet ==
  ASSUME Types, QueueInv, PermitInv, Took
  PROVE  QueueInv' /\ Used(command_queue)' = Used(command_queue) - 1
<1> DEFINE q == command_queue
           r == AfterGet(q)
<1>1. command_queue' = r /\ sent' = sent /\ got' = got + 1
  BY DEF Took
<1>2. sent \in Nat /\ got \in Nat
  BY DEF Types, NumberTypes
<1>3. IsRing(q) /\ Used(q) = sent - got /\ ~IsEmpty(q)
  BY TookFromQueue DEF QueueInv, Took
<1>4. /\ IsRing(r) /\ Used(q) \in Nat \ {0} /\ Used(r) = Used(q) - 1
      /\ \A i \in 1 .. Used(q) - 1 : Contents(r)[i] = Contents(q)[i + 1]
  BY <1>3, RingAfterGet
<1>5. \A i \in 1 .. Used(q) : Contents(q)[i].id = got + i /\ Contents(q)[i] \in QueueRecord
  BY DEF QueueInv, QueueRecord
<1> HIDE DEF q, r
<1>6. \A i \in 1 .. Used(r) : Contents(r)[i].id = got' + i /\ Contents(r)[i] \in QueueRecord
  <2> TAKE i \in 1 .. Used(r)
  <2>1. i + 1 \in 1 .. Used(q) /\ i \in 1 .. Used(q) - 1
    BY <1>4
  <2>2. Contents(r)[i] = Contents(q)[i + 1]
    BY <2>1, <1>4
  <2>3. Contents(q)[i + 1].id = got + (i + 1) /\ Contents(q)[i + 1] \in QueueRecord
    BY <2>1, <1>5
  <2>4. got + (i + 1) = got' + i
    BY <1>1, <1>2, <2>1
  <2> QED BY <2>2, <2>3, <2>4
<1>7. Used(r) = sent' - got'
  BY <1>1, <1>2, <1>3, <1>4
<1> QED BY <1>1, <1>4, <1>6, <1>7 DEF QueueInv, QueueRecord, q

\* QueueInv is preserved by every step.
LEMMA QueueNext ==
  ASSUME Types, QueueInv, PermitInv, Next PROVE QueueInv'
<1>1. CASE UNCHANGED <<command_queue, sent, got>>
  BY <1>1 DEF QueueInv
<1>2. CASE \E kind \in {"request", "empty"} : PutCommand(kind)
  BY <1>2, QueueAfterPut
<1>3. CASE Took
  BY <1>3, QueueAfterGet
<1> QED BY <1>1, <1>2, <1>3, QueueFrame DEF QueueStep

---------------------------------------------------------------------------
(* Closing the debugger.                                                      *)

\* CloseInv is preserved by every step.
LEMMA CloseNext ==
  ASSUME Types, CloseInv, Next PROVE CloseInv'
<1>0. MaxCalls \in Nat /\ sent \in Nat /\ closes \in Nat
  BY BoundAssumption DEF Types, NumberTypes
<1>1. ASSUME NEW c \in Sender, ProcessCommand(c) PROVE CloseInv'
  <2>1. /\ sent' = sent + 1 /\ sent + closes < MaxCalls
        /\ UNCHANGED <<closes, debugger_access, message_handler>>
    BY <1>1 DEF ProcessCommand, PutCommand, handlerVars
  <2>2. \A d \in Client : doing'[d] = "close" => doing[d] = "close"
    BY <1>1 DEF ProcessCommand, Does, Types, ClientTypes
  <2>3. sent' <= MaxCalls /\ (closes > 0 => sent' < MaxCalls)
    BY <2>1, <1>0
  <2> QED BY <2>1, <2>2, <2>3 DEF CloseInv
<1>2. ASSUME NEW c \in Sender, DebugBreak(c) PROVE CloseInv'
  BY <1>2, <1>0 DEF DebugBreak, Request, noDebugStep, queueVars, handlerVars, lockVars, threadVars,
     breakVars, helperVars, Types, ClientTypes, CloseInv
<1>3. ASSUME NEW c \in Sender, EnqueueDebugCommand(c) PROVE CloseInv'
  BY <1>3, <1>0 DEF EnqueueDebugCommand, Does, noDebugStep, queueVars, handlerVars, lockVars,
     threadVars, breakVars, helperVars, Types, ClientTypes, CloseInv
<1>4. ASSUME NEW c \in Closer, OpenDebugger(c) PROVE CloseInv'
  BY <1>4, <1>0 DEF OpenDebugger, AccessFree, noDebugStep, queueVars, handlerVars, lockVars,
     threadVars, breakVars, helperVars, Types, ClientTypes, CloseInv
<1>5. ASSUME NEW c \in Closer, CloseDebugger(c) PROVE CloseInv'
  <2>1. /\ sent + closes < MaxCalls /\ debugger_access = NoClient /\ debugger_access' = c
        /\ closes' = closes + 1 /\ sent' = sent
    BY <1>5 DEF CloseDebugger, AccessFree, queueVars
  <2>2. \A d \in Client : doing'[d] = "close" => d = c
    BY <1>5, <2>1, ClientAssumption DEF CloseDebugger, Does, Types, ClientTypes, CloseInv
  <2>3. closes' > 0 /\ sent' < MaxCalls /\ sent' <= MaxCalls
    BY <2>1, <1>0
  <2> QED BY <2>1, <2>2, <2>3 DEF CloseInv
<1>6. ASSUME NEW c \in Client, SignalReceived(c) PROVE CloseInv'
  BY <1>6, <1>0 DEF SignalReceived, Does, noDebugStep, queueVars, handlerVars, lockVars, threadVars,
     breakVars, helperVars, Types, ClientTypes, CloseInv
<1>7. ASSUME NEW c \in Client, CheckInDebugger(c, "interrupt", "request", "schedule") PROVE CloseInv'
  BY <1>7, <1>0 DEF CheckInDebugger, Does, noDebugStep, queueVars, handlerVars, lockVars,
     threadVars, breakVars, helperVars, Types, ClientTypes, CloseInv
<1>8. ASSUME NEW c \in Client, DebugCommand(c, "request", "schedule") PROVE CloseInv'
  BY <1>8, <1>0 DEF DebugCommand, Does, Request, noDebugStep, queueVars, handlerVars, lockVars,
     threadVars, breakVars, helperVars, Types, ClientTypes, CloseInv
<1>9. ASSUME NEW c \in Client, Schedule(c) PROVE CloseInv'
  BY <1>9, <1>0, ClientAssumption DEF Schedule, Does, Release, Scheduled, noDebugStep, queueVars,
     handlerVars, lockVars, threadVars, breakVars, helperVars, Types, ClientTypes, CloseInv
<1>10. ASSUME NEW c \in Client, PostHelper(c) PROVE CloseInv'
  BY <1>10, <1>0, ClientAssumption DEF PostHelper, Does, Release, noDebugStep, queueVars,
     handlerVars, lockVars, threadVars, breakVars, helperVars, Types, ClientTypes, CloseInv
<1>11. ASSUME NEW c \in Client, FinishClose(c) PROVE CloseInv'
  <2>1. /\ UNCHANGED <<closes, message_handler>>
        /\ sent' = sent \/ sent' = sent + 1
        /\ debugger_access' = debugger_access \/ debugger_access' = NoClient
    BY <1>11 DEF FinishClose, SendEmpty, PutCommand, handlerVars, queueVars
  <2>2. doing[c] = "close" /\ debugger_access = c /\ sent < MaxCalls
    BY <1>11 DEF FinishClose, SendEmpty, Does, CloseInv
  <2>3. \A d \in Client : doing'[d] # "close"
    BY <1>11, <2>2 DEF FinishClose, SendEmpty, Does, Types, ClientTypes, CloseInv
  <2>4. sent' <= MaxCalls
    BY <2>1, <2>2, <1>0
  <2> QED BY <2>1, <2>3, <2>4 DEF CloseInv
<1>12. ASSUME NEW c \in Client, CheckInDebugger(c, "interrupt for event", "request for event", "idle") PROVE CloseInv'
  BY <1>12, <1>0 DEF CheckInDebugger, Does, noDebugStep, queueVars, handlerVars, lockVars,
     threadVars, breakVars, helperVars, Types, ClientTypes, CloseInv
<1>13. ASSUME NEW c \in Client, DebugCommand(c, "request for event", "idle") PROVE CloseInv'
  BY <1>13, <1>0 DEF DebugCommand, Does, Request, noDebugStep, queueVars, handlerVars, lockVars,
     threadVars, breakVars, helperVars, Types, ClientTypes, CloseInv
<1>14. CASE RequestPreemption
  BY <1>14, <1>0 DEF RequestPreemption, Request, noDebugStep, queueVars, handlerVars, lockVars,
     threadVars, breakVars, helperVars, Types, ClientTypes, CloseInv
<1>15. CASE OnException
  BY <1>15, <1>0 DEF OnException, Go, noDebugStep, queueVars, handlerVars, lockVars, threadVars,
     breakVars, helperVars, Types, ClientTypes, CloseInv
<1>16. CASE DebugBreakHelper
  BY <1>16, <1>0 DEF DebugBreakHelper, Go, noDebugStep, queueVars, handlerVars, lockVars,
     threadVars, breakVars, helperVars, Types, ClientTypes, CloseInv
<1>17. CASE ClearDebugBreak
  BY <1>17, <1>0 DEF ClearDebugBreak, Go, Continue, noDebugStep, queueVars, handlerVars, lockVars,
     threadVars, breakVars, helperVars, Types, ClientTypes, CloseInv
<1>18. CASE Preempt
  BY <1>18, <1>0 DEF Preempt, Go, Continue, noDebugStep, queueVars, handlerVars, lockVars,
     threadVars, breakVars, helperVars, Types, ClientTypes, CloseInv
<1>19. CASE Relock
  BY <1>19, <1>0 DEF Relock, Go, noDebugStep, queueVars, handlerVars, lockVars, threadVars,
     breakVars, helperVars, Types, ClientTypes, CloseInv
<1>20. CASE HelperWake
  BY <1>20, <1>0 DEF HelperWake, Go, noDebugStep, queueVars, handlerVars, lockVars, threadVars,
     breakVars, helperVars, Types, ClientTypes, CloseInv
<1>21. CASE HelperReset
  BY <1>21, <1>0 DEF HelperReset, ResetSignalled, Go, noDebugStep, queueVars, handlerVars, lockVars,
     threadVars, breakVars, helperVars, Types, ClientTypes, CloseInv
<1>22. CASE HelperLock
  BY <1>22, <1>0 DEF HelperLock, Go, noDebugStep, queueVars, handlerVars, lockVars, threadVars,
     breakVars, helperVars, Types, ClientTypes, CloseInv
<1>23. CASE HelperUnlock
  BY <1>23, <1>0 DEF HelperUnlock, Go, noDebugStep, queueVars, handlerVars, lockVars, threadVars,
     breakVars, helperVars, Types, ClientTypes, CloseInv
<1>24. ASSUME NEW e \in Executor, ExecutorStep(e) PROVE CloseInv'
  BY <1>24, ExecutorFrame DEF CloseInv
<1>25. ASSUME NEW c \in Client, CallMessageDispatchHandler(c) PROVE CloseInv'
  BY <1>25, <1>0, ClientAssumption DEF CallMessageDispatchHandler, Does, Release, queueVars,
     handlerVars, Types, ClientTypes, CloseInv
<1> QED BY <1>1, <1>2, <1>3, <1>4, <1>5, <1>6, <1>7, <1>8, <1>9, <1>10, <1>11, <1>12, <1>13, <1>14,
   <1>15, <1>16, <1>17, <1>18, <1>19, <1>20, <1>21, <1>22, <1>23, <1>24, <1>25 DEF Next, ClientStep,
   VMStep, HelperStep

---------------------------------------------------------------------------
(* The lock and the entry of the debugger.                                    *)

\* LockInv is preserved by every step.
LEMMA LockNext ==
  ASSUME Types, LockInv, Next PROVE LockInv'
<1>1. ASSUME NEW c \in Sender, ProcessCommand(c) PROVE LockInv'
  BY <1>1 DEF ProcessCommand, Does, PutCommand, noDebugStep, queueVars, handlerVars, lockVars,
     threadVars, breakVars, helperVars, Types, PlaceTypes, FlagTypes, SwitchTypes, LockInv, Place,
     Inside, Outside, Executor
<1>2. ASSUME NEW c \in Sender, DebugBreak(c) PROVE LockInv'
  BY <1>2 DEF DebugBreak, Request, noDebugStep, queueVars, handlerVars, lockVars, threadVars,
     breakVars, helperVars, Types, PlaceTypes, FlagTypes, SwitchTypes, LockInv, Place, Inside,
     Outside, Executor
<1>3. ASSUME NEW c \in Sender, EnqueueDebugCommand(c) PROVE LockInv'
  BY <1>3 DEF EnqueueDebugCommand, Does, noDebugStep, queueVars, handlerVars, lockVars, threadVars,
     breakVars, helperVars, Types, PlaceTypes, FlagTypes, SwitchTypes, LockInv, Place, Inside,
     Outside, Executor
<1>4. ASSUME NEW c \in Closer, OpenDebugger(c) PROVE LockInv'
  BY <1>4 DEF OpenDebugger, AccessFree, noDebugStep, queueVars, handlerVars, lockVars, threadVars,
     breakVars, helperVars, Types, PlaceTypes, FlagTypes, SwitchTypes, LockInv, Place, Inside,
     Outside, Executor
<1>5. ASSUME NEW c \in Closer, CloseDebugger(c) PROVE LockInv'
  BY <1>5 DEF CloseDebugger, Does, AccessFree, noDebugStep, queueVars, handlerVars, lockVars,
     threadVars, breakVars, helperVars, Types, PlaceTypes, FlagTypes, SwitchTypes, LockInv, Place,
     Inside, Outside, Executor
<1>6. CASE RequestPreemption
  BY <1>6 DEF RequestPreemption, Request, noDebugStep, queueVars, handlerVars, lockVars, threadVars,
     breakVars, helperVars, Types, PlaceTypes, FlagTypes, SwitchTypes, LockInv, Place, Inside,
     Outside, Executor
<1>7. CASE OnException
  BY <1>7 DEF OnException, Go, noDebugStep, queueVars, handlerVars, lockVars, threadVars, breakVars,
     helperVars, Types, PlaceTypes, FlagTypes, SwitchTypes, LockInv, Place, Inside, Outside,
     Executor
<1>8. CASE DebugBreakHelper
  BY <1>8 DEF DebugBreakHelper, Go, noDebugStep, queueVars, handlerVars, lockVars, threadVars,
     breakVars, helperVars, Types, PlaceTypes, FlagTypes, SwitchTypes, LockInv, Place, Inside,
     Outside, Executor
<1>9. CASE ClearDebugBreak
  BY <1>9 DEF ClearDebugBreak, Go, Continue, noDebugStep, queueVars, handlerVars, lockVars,
     threadVars, breakVars, helperVars, Types, PlaceTypes, FlagTypes, SwitchTypes, LockInv, Place,
     Inside, Outside, Executor
<1>10. CASE Preempt
  BY <1>10 DEF Preempt, Go, Continue, noDebugStep, queueVars, handlerVars, lockVars, threadVars,
     breakVars, helperVars, Types, PlaceTypes, FlagTypes, SwitchTypes, LockInv, Place, Inside,
     Outside, Executor
<1>11. CASE Relock
  BY <1>11 DEF Relock, Go, noDebugStep, queueVars, handlerVars, lockVars, threadVars, breakVars,
     helperVars, Types, PlaceTypes, FlagTypes, SwitchTypes, LockInv, Place, Inside, Outside,
     Executor
<1>12. CASE HelperWake
  BY <1>12 DEF HelperWake, Go, noDebugStep, queueVars, handlerVars, lockVars, threadVars, breakVars,
     helperVars, Types, PlaceTypes, FlagTypes, SwitchTypes, LockInv, Place, Inside, Outside,
     Executor
<1>13. CASE HelperReset
  BY <1>13 DEF HelperReset, ResetSignalled, Go, noDebugStep, queueVars, handlerVars, lockVars,
     threadVars, breakVars, helperVars, Types, PlaceTypes, FlagTypes, SwitchTypes, LockInv, Place,
     Inside, Outside, Executor
<1>14. CASE HelperLock
  BY <1>14 DEF HelperLock, Go, noDebugStep, queueVars, handlerVars, lockVars, threadVars, breakVars,
     helperVars, Types, PlaceTypes, FlagTypes, SwitchTypes, LockInv, Place, Inside, Outside,
     Executor
<1>15. CASE HelperUnlock
  BY <1>15 DEF HelperUnlock, Go, noDebugStep, queueVars, handlerVars, lockVars, threadVars,
     breakVars, helperVars, Types, PlaceTypes, FlagTypes, SwitchTypes, LockInv, Place, Inside,
     Outside, Executor
<1>16. ASSUME NEW e \in Executor, ClearDebugCommand(e) PROVE LockInv'
  BY <1>16 DEF ClearDebugCommand, Go, Continue, noDebugStep, queueVars, handlerVars, lockVars,
     threadVars, breakVars, helperVars, Types, PlaceTypes, FlagTypes, SwitchTypes, LockInv, Place,
     Inside, Outside, Executor
<1>17. ASSUME NEW e \in Executor, EnterDebugger(e) PROVE LockInv'
  BY <1>17 DEF EnterDebugger, Go, noDebugStep, queueVars, handlerVars, lockVars, threadVars,
     breakVars, helperVars, Types, PlaceTypes, FlagTypes, SwitchTypes, LockInv, Place, Inside,
     Outside, Executor
<1>18. ASSUME NEW e \in Executor, EventActive(e) PROVE LockInv'
  BY <1>18 DEF EventActive, Go, noDebugStep, queueVars, handlerVars, lockVars, threadVars,
     breakVars, helperVars, Types, PlaceTypes, FlagTypes, SwitchTypes, LockInv, Place, Inside,
     Outside, Executor
<1>19. ASSUME NEW e \in Executor, ProcessDebugEvent(e) PROVE LockInv'
  BY <1>19 DEF ProcessDebugEvent, Go, AfterNotify, noDebugStep, queueVars, handlerVars, lockVars,
     threadVars, breakVars, helperVars, Types, PlaceTypes, FlagTypes, SwitchTypes, LockInv, Place,
     Inside, Outside, Executor
<1>20. ASSUME NEW e \in Executor, NotifyMessageHandler(e) PROVE LockInv'
  BY <1>20 DEF NotifyMessageHandler, Go, Continue, AfterNotify, noDebugStep, queueVars, handlerVars,
     lockVars, threadVars, breakVars, helperVars, Types, PlaceTypes, FlagTypes, SwitchTypes,
     LockInv, Place, Inside, Outside, Executor
<1>21. ASSUME NEW e \in Executor, SendEventMessage(e) PROVE LockInv'
  BY <1>21 DEF SendEventMessage, Go, noDebugStep, queueVars, handlerVars, lockVars, threadVars,
     breakVars, helperVars, Types, PlaceTypes, FlagTypes, SwitchTypes, LockInv, Place, Inside,
     Outside, Executor
<1>22. ASSUME NEW e \in Executor, PollCommands(e) PROVE LockInv'
  BY <1>22 DEF PollCommands, Go, AfterNotify, HasCommands, noDebugStep, queueVars, handlerVars,
     lockVars, threadVars, breakVars, helperVars, Types, PlaceTypes, FlagTypes, SwitchTypes,
     LockInv, Place, Inside, Outside, Executor
<1>23. ASSUME NEW e \in Executor, WaitForCommand(e) PROVE LockInv'
  BY <1>23 DEF WaitForCommand, Go, noDebugStep, queueVars, handlerVars, lockVars, threadVars,
     breakVars, helperVars, Types, PlaceTypes, FlagTypes, SwitchTypes, LockInv, Place, Inside,
     Outside, Executor
<1>24. ASSUME NEW e \in Executor, GetCommand(e) PROVE LockInv'
  BY <1>24 DEF GetCommand, Go, noDebugStep, queueVars, handlerVars, lockVars, threadVars, breakVars,
     helperVars, Types, PlaceTypes, FlagTypes, SwitchTypes, LockInv, Place, Inside, Outside,
     Executor
<1>25. ASSUME NEW e \in Executor, CheckActive(e) PROVE LockInv'
  BY <1>25 DEF CheckActive, Go, AfterNotify, noDebugStep, queueVars, handlerVars, lockVars,
     threadVars, breakVars, helperVars, Types, PlaceTypes, FlagTypes, SwitchTypes, LockInv, Place,
     Inside, Outside, Executor
<1>26. ASSUME NEW e \in Executor, Respond(e) PROVE LockInv'
  BY <1>26 DEF Respond, Go, noDebugStep, queueVars, handlerVars, lockVars, threadVars, breakVars,
     helperVars, Types, PlaceTypes, FlagTypes, SwitchTypes, LockInv, Place, Inside, Outside,
     Executor
<1>27. ASSUME NEW e \in Executor, ContinueOrWait(e) PROVE LockInv'
  BY <1>27 DEF ContinueOrWait, Go, AfterNotify, HasCommands, noDebugStep, queueVars, handlerVars,
     lockVars, threadVars, breakVars, helperVars, Types, PlaceTypes, FlagTypes, SwitchTypes,
     LockInv, Place, Inside, Outside, Executor
<1>28. ASSUME NEW e \in Executor, ProcessEventCommands(e) PROVE LockInv'
  BY <1>28 DEF ProcessEventCommands, Go, noDebugStep, queueVars, handlerVars, lockVars, threadVars,
     breakVars, helperVars, Types, PlaceTypes, FlagTypes, SwitchTypes, LockInv, Place, Inside,
     Outside, Executor
<1>29. ASSUME NEW e \in Executor, PostponeBreak(e) PROVE LockInv'
  BY <1>29 DEF PostponeBreak, Go, Continue, noDebugStep, queueVars, handlerVars, lockVars,
     threadVars, breakVars, helperVars, Types, PlaceTypes, FlagTypes, SwitchTypes, LockInv, Place,
     Inside, Outside, Executor
<1>30. ASSUME NEW e \in Executor, RequestRecorded(e) PROVE LockInv'
  BY <1>30 DEF RequestRecorded, Go, RequestPending, Request, noDebugStep, queueVars, handlerVars,
     lockVars, threadVars, breakVars, helperVars, Types, PlaceTypes, FlagTypes, SwitchTypes,
     LockInv, Place, Inside, Outside, Executor
<1>31. ASSUME NEW e \in Executor, CheckCommands(e) PROVE LockInv'
  BY <1>31 DEF CheckCommands, Go, Request, noDebugStep, queueVars, handlerVars, lockVars,
     threadVars, breakVars, helperVars, Types, PlaceTypes, FlagTypes, SwitchTypes, LockInv, Place,
     Inside, Outside, Executor
<1>32. ASSUME NEW e \in Executor, ExitDebugger(e) PROVE LockInv'
  BY <1>32 DEF ExitDebugger, Go, noDebugStep, queueVars, handlerVars, lockVars, threadVars,
     breakVars, helperVars, Types, PlaceTypes, FlagTypes, SwitchTypes, LockInv, Place, Inside,
     Outside, Executor
<1>33. ASSUME NEW e \in Executor, PreemptionWhileInDebugger(e) PROVE LockInv'
  BY <1>33 DEF PreemptionWhileInDebugger, Continue, noDebugStep, queueVars, handlerVars, lockVars,
     threadVars, breakVars, helperVars, Types, PlaceTypes, FlagTypes, SwitchTypes, LockInv, Place,
     Inside, Outside, Executor
<1>34. ASSUME NEW c \in Client, ClientStep(c) PROVE LockInv'
  BY <1>34, ClientFrame DEF LockInv
<1> QED BY <1>1, <1>2, <1>3, <1>4, <1>5, <1>6, <1>7, <1>8, <1>9, <1>10, <1>11, <1>12, <1>13, <1>14,
   <1>15, <1>16, <1>17, <1>18, <1>19, <1>20, <1>21, <1>22, <1>23, <1>24, <1>25, <1>26, <1>27, <1>28,
   <1>29, <1>30, <1>31, <1>32, <1>33, <1>34 DEF Next, VMStep, HelperStep, ExecutorStep

---------------------------------------------------------------------------
(* Waking the helper.                                                         *)

\* WakeInv is preserved by every step.
LEMMA WakeNext ==
  ASSUME Types, WakeInv, Next PROVE WakeInv'
<1>1. ASSUME NEW c \in Sender, ProcessCommand(c) PROVE WakeInv'
  BY <1>1 DEF ProcessCommand, Does, PutCommand, noDebugStep, queueVars, handlerVars, lockVars,
     threadVars, breakVars, helperVars, Types, PlaceTypes, ClientTypes, NumberTypes, SwitchTypes,
     WakeInv, Posting, Executor
<1>2. ASSUME NEW c \in Sender, DebugBreak(c) PROVE WakeInv'
  BY <1>2 DEF DebugBreak, Request, noDebugStep, queueVars, handlerVars, lockVars, threadVars,
     breakVars, helperVars, Types, PlaceTypes, ClientTypes, NumberTypes, SwitchTypes, WakeInv,
     Posting, Executor
<1>3. ASSUME NEW c \in Sender, EnqueueDebugCommand(c) PROVE WakeInv'
  BY <1>3 DEF EnqueueDebugCommand, Does, noDebugStep, queueVars, handlerVars, lockVars, threadVars,
     breakVars, helperVars, Types, PlaceTypes, ClientTypes, NumberTypes, SwitchTypes, WakeInv,
     Posting, Executor
<1>4. ASSUME NEW c \in Closer, OpenDebugger(c) PROVE WakeInv'
  BY <1>4 DEF OpenDebugger, AccessFree, noDebugStep, queueVars, handlerVars, lockVars, threadVars,
     breakVars, helperVars, Types, PlaceTypes, ClientTypes, NumberTypes, SwitchTypes, WakeInv,
     Posting, Executor
<1>5. ASSUME NEW c \in Closer, CloseDebugger(c) PROVE WakeInv'
  BY <1>5 DEF CloseDebugger, Does, AccessFree, noDebugStep, queueVars, handlerVars, lockVars,
     threadVars, breakVars, helperVars, Types, PlaceTypes, ClientTypes, NumberTypes, SwitchTypes,
     WakeInv, Posting, Executor
<1>6. ASSUME NEW c \in Client, SignalReceived(c) PROVE WakeInv'
  BY <1>6 DEF SignalReceived, Does, noDebugStep, queueVars, handlerVars, lockVars, threadVars,
     breakVars, helperVars, Types, PlaceTypes, ClientTypes, NumberTypes, SwitchTypes, WakeInv,
     Posting, Executor
<1>7. ASSUME NEW c \in Client, CheckInDebugger(c, "interrupt", "request", "schedule") PROVE WakeInv'
  BY <1>7 DEF CheckInDebugger, Does, noDebugStep, queueVars, handlerVars, lockVars, threadVars,
     breakVars, helperVars, Types, PlaceTypes, ClientTypes, NumberTypes, SwitchTypes, WakeInv,
     Posting, Executor
<1>8. ASSUME NEW c \in Client, DebugCommand(c, "request", "schedule") PROVE WakeInv'
  BY <1>8 DEF DebugCommand, Does, Request, noDebugStep, queueVars, handlerVars, lockVars,
     threadVars, breakVars, helperVars, Types, PlaceTypes, ClientTypes, NumberTypes, SwitchTypes,
     WakeInv, Posting, Executor
<1>9. ASSUME NEW c \in Client, Schedule(c) PROVE WakeInv'
  BY <1>9 DEF Schedule, Does, Release, Scheduled, noDebugStep, queueVars, handlerVars, lockVars,
     threadVars, breakVars, helperVars, Types, PlaceTypes, ClientTypes, NumberTypes, SwitchTypes,
     WakeInv, Posting, Executor
<1>10. ASSUME NEW c \in Client, PostHelper(c) PROVE WakeInv'
  <2>1. doing[c] = "post" /\ doing' = [doing EXCEPT ![c] = "idle"] /\ sem' = sem + 1
        /\ already_signalled' = already_signalled /\ pc' = pc
    BY <1>10 DEF PostHelper, Does
  <2>2. c \in Posting
    BY <1>10, <2>1 DEF Posting
  <2>3. Posting = {c} /\ Posting' = {}
    BY <2>1, <2>2 DEF WakeInv, Posting, Types, ClientTypes
  <2>4. sem = 0 /\ sem' = 1
    BY <2>1, <2>2 DEF WakeInv, Types, NumberTypes
  <2>5. pc["Helper"] # "woken"
    BY <2>2 DEF WakeInv
  <2>6. already_signalled
    BY <2>2 DEF WakeInv
  <2> QED BY <2>1, <2>3, <2>4, <2>5, <2>6 DEF WakeInv
<1>11. ASSUME NEW c \in Client, FinishClose(c) PROVE WakeInv'
  BY <1>11 DEF FinishClose, SendEmpty, Does, PutCommand, noDebugStep, queueVars, handlerVars,
     lockVars, threadVars, breakVars, helperVars, Types, PlaceTypes, ClientTypes, NumberTypes,
     SwitchTypes, WakeInv, Posting, Executor
<1>12. ASSUME NEW c \in Client, CheckInDebugger(c, "interrupt for event", "request for event", "idle") PROVE WakeInv'
  BY <1>12 DEF CheckInDebugger, Does, noDebugStep, queueVars, handlerVars, lockVars, threadVars,
     breakVars, helperVars, Types, PlaceTypes, ClientTypes, NumberTypes, SwitchTypes, WakeInv,
     Posting, Executor
<1>13. ASSUME NEW c \in Client, DebugCommand(c, "request for event", "idle") PROVE WakeInv'
  BY <1>13 DEF DebugCommand, Does, Request, noDebugStep, queueVars, handlerVars, lockVars,
     threadVars, breakVars, helperVars, Types, PlaceTypes, ClientTypes, NumberTypes, SwitchTypes,
     WakeInv, Posting, Executor
<1>14. CASE RequestPreemption
  BY <1>14 DEF RequestPreemption, Request, noDebugStep, queueVars, handlerVars, lockVars,
     threadVars, breakVars, helperVars, Types, PlaceTypes, ClientTypes, NumberTypes, SwitchTypes,
     WakeInv, Posting, Executor
<1>15. CASE OnException
  BY <1>15 DEF OnException, Go, noDebugStep, queueVars, handlerVars, lockVars, threadVars,
     breakVars, helperVars, Types, PlaceTypes, ClientTypes, NumberTypes, SwitchTypes, WakeInv,
     Posting, Executor
<1>16. CASE DebugBreakHelper
  BY <1>16 DEF DebugBreakHelper, Go, noDebugStep, queueVars, handlerVars, lockVars, threadVars,
     breakVars, helperVars, Types, PlaceTypes, ClientTypes, NumberTypes, SwitchTypes, WakeInv,
     Posting, Executor
<1>17. CASE ClearDebugBreak
  BY <1>17 DEF ClearDebugBreak, Go, Continue, noDebugStep, queueVars, handlerVars, lockVars,
     threadVars, breakVars, helperVars, Types, PlaceTypes, ClientTypes, NumberTypes, SwitchTypes,
     WakeInv, Posting, Executor
<1>18. CASE Preempt
  BY <1>18 DEF Preempt, Go, Continue, noDebugStep, queueVars, handlerVars, lockVars, threadVars,
     breakVars, helperVars, Types, PlaceTypes, ClientTypes, NumberTypes, SwitchTypes, WakeInv,
     Posting, Executor
<1>19. CASE Relock
  BY <1>19 DEF Relock, Go, noDebugStep, queueVars, handlerVars, lockVars, threadVars, breakVars,
     helperVars, Types, PlaceTypes, ClientTypes, NumberTypes, SwitchTypes, WakeInv, Posting,
     Executor
<1>20. CASE HelperWake
  <2>1. sem > 0 /\ sem' = sem - 1 /\ already_signalled' = already_signalled /\ doing' = doing
    BY <1>20 DEF HelperWake
  <2>2. sem = 1 /\ sem' = 0
    BY <2>1 DEF Types, NumberTypes
  <2>3. pc'["Helper"] = "woken"
    BY <1>20 DEF HelperWake, Go, Types, PlaceTypes, Executor
  <2>4. Posting' = Posting /\ Posting = {}
    BY <2>1, <2>2 DEF WakeInv, Posting
  <2>5. already_signalled
    BY <2>2 DEF WakeInv
  <2> QED BY <2>1, <2>2, <2>3, <2>4, <2>5 DEF WakeInv
<1>21. CASE HelperReset
  BY <1>21 DEF HelperReset, ResetSignalled, Go, noDebugStep, queueVars, handlerVars, lockVars,
     threadVars, breakVars, helperVars, Types, PlaceTypes, ClientTypes, NumberTypes, SwitchTypes,
     WakeInv, Posting, Executor
<1>22. CASE HelperLock
  BY <1>22 DEF HelperLock, Go, noDebugStep, queueVars, handlerVars, lockVars, threadVars, breakVars,
     helperVars, Types, PlaceTypes, ClientTypes, NumberTypes, SwitchTypes, WakeInv, Posting,
     Executor
<1>23. CASE HelperUnlock
  BY <1>23 DEF HelperUnlock, Go, noDebugStep, queueVars, handlerVars, lockVars, threadVars,
     breakVars, helperVars, Types, PlaceTypes, ClientTypes, NumberTypes, SwitchTypes, WakeInv,
     Posting, Executor
<1>24. ASSUME NEW e \in Executor, ExecutorStep(e) PROVE WakeInv'
  BY <1>24, ExecutorFrame DEF WakeInv, Posting, Types, PlaceTypes, Place, Inside, Outside, Executor
<1>25. ASSUME NEW c \in Client, CallMessageDispatchHandler(c) PROVE WakeInv'
  BY <1>25 DEF CallMessageDispatchHandler, Does, helperVars, Types, PlaceTypes, ClientTypes,
     NumberTypes, SwitchTypes, WakeInv, Posting, Executor
<1> QED BY <1>1, <1>2, <1>3, <1>4, <1>5, <1>6, <1>7, <1>8, <1>9, <1>10, <1>11, <1>12, <1>13, <1>14,
   <1>15, <1>16, <1>17, <1>18, <1>19, <1>20, <1>21, <1>22, <1>23, <1>24, <1>25 DEF Next, ClientStep,
   VMStep, HelperStep

---------------------------------------------------------------------------
(* The permits.                                                               *)

Permits == command_received + Cardinality(Signalling) + Cardinality(Getting)

\* The counts of PermitInv are natural numbers.
LEMMA PermitNumbers ==
  ASSUME Types, IsFiniteSet(Signalling)
  PROVE  /\ command_received \in Nat /\ Cardinality(Signalling) \in Nat
         /\ Cardinality(Getting) \in Nat /\ IsFiniteSet(Getting)
  BY CardinalityOfGetting, FS_CardinalityType DEF Types, NumberTypes

\* A client that begins to signal is one more.
LEMMA OneMoreSignalling ==
  ASSUME Types, IsFiniteSet(Signalling), NEW c \in Client, doing[c] # "signal",
         doing' = [doing EXCEPT ![c] = "signal"]
  PROVE  IsFiniteSet(Signalling') /\ Cardinality(Signalling') = Cardinality(Signalling) + 1
<1>1. Signalling' = Signalling \cup {c} /\ c \notin Signalling
  BY DEF Signalling, Types, ClientTypes
<1> QED BY <1>1, FS_AddElement

\* Steps that leave queue, permits and both sets alone preserve PermitInv.
LEMMA PermitsUnchanged ==
  ASSUME Types, PermitInv, UNCHANGED <<command_queue, command_received>>,
         Signalling' = Signalling, Getting' = Getting
  PROVE  PermitInv'
  BY DEF PermitInv

\* A client that queues a command is one that will signal it.
LEMMA PermitsAfterPut ==
  ASSUME Types, QueueInv, PermitInv, NEW kind \in {"request", "empty"}, PutCommand(kind),
         NEW c \in Client, doing[c] # "signal", doing' = [doing EXCEPT ![c] = "signal"],
         UNCHANGED <<command_received, pc>>
  PROVE  PermitInv'
<1>1. IsFiniteSet(Signalling)
  BY DEF PermitInv
<1>2. IsFiniteSet(Signalling') /\ Cardinality(Signalling') = Cardinality(Signalling) + 1
  BY <1>1, OneMoreSignalling
<1>3. Used(command_queue)' = Used(command_queue) + 1
  BY QueueAfterPut
<1>4. Getting' = Getting
  BY DEF Getting
<1>5. Used(command_queue) = Permits
  BY DEF PermitInv, Permits
<1>6. Used(command_queue)' = command_received + (Cardinality(Signalling) + 1) + Cardinality(Getting)
  BY <1>1, <1>3, <1>5, PermitNumbers DEF Permits
<1> QED BY <1>2, <1>4, <1>6 DEF PermitInv

\* PermitInv is preserved by every step.
LEMMA PermitNext ==
  ASSUME Types, QueueInv, CloseInv, PermitInv, Next PROVE PermitInv'
<1>0. IsFiniteSet(Signalling)
  BY DEF PermitInv
<1>1. ASSUME NEW c \in Sender, ProcessCommand(c) PROVE PermitInv'
  <2>1. /\ PutCommand("request") /\ UNCHANGED <<command_received, pc>>
        /\ doing[c] = "idle" /\ doing' = [doing EXCEPT ![c] = "signal"]
    BY <1>1 DEF ProcessCommand, Does
  <2>2. c \in Client
    BY <1>1 DEF Client
  <2> QED BY <2>1, <2>2, PermitsAfterPut
<1>2. ASSUME NEW c \in Sender, DebugBreak(c) PROVE PermitInv'
  <2>1. UNCHANGED <<command_queue, command_received>>
    BY <1>2 DEF DebugBreak, noDebugStep, queueVars
  <2>2. Signalling' = Signalling /\ Getting' = Getting
    BY <1>2 DEF DebugBreak, Request, noDebugStep, queueVars, handlerVars, lockVars, threadVars,
       breakVars, helperVars, Signalling, Getting, Types, PlaceTypes, ClientTypes, Executor
  <2> QED BY <2>1, <2>2, PermitsUnchanged
<1>3. ASSUME NEW c \in Sender, EnqueueDebugCommand(c) PROVE PermitInv'
  <2>1. UNCHANGED <<command_queue, command_received>>
    BY <1>3 DEF EnqueueDebugCommand, noDebugStep, queueVars
  <2>2. Signalling' = Signalling /\ Getting' = Getting
    BY <1>3 DEF EnqueueDebugCommand, Does, noDebugStep, queueVars, handlerVars, lockVars,
       threadVars, breakVars, helperVars, Signalling, Getting, Types, PlaceTypes, ClientTypes,
       Executor
  <2> QED BY <2>1, <2>2, PermitsUnchanged
<1>4. ASSUME NEW c \in Closer, OpenDebugger(c) PROVE PermitInv'
  <2>1. UNCHANGED <<command_queue, command_received>>
    BY <1>4 DEF OpenDebugger, noDebugStep, queueVars
  <2>2. Signalling' = Signalling /\ Getting' = Getting
    BY <1>4 DEF OpenDebugger, AccessFree, noDebugStep, queueVars, handlerVars, lockVars, threadVars,
       breakVars, helperVars, Signalling, Getting, Types, PlaceTypes, ClientTypes, Executor
  <2> QED BY <2>1, <2>2, PermitsUnchanged
<1>5. ASSUME NEW c \in Closer, CloseDebugger(c) PROVE PermitInv'
  <2>1. UNCHANGED <<command_queue, command_received>>
    BY <1>5 DEF CloseDebugger, noDebugStep, queueVars
  <2>2. Signalling' = Signalling /\ Getting' = Getting
    BY <1>5 DEF CloseDebugger, Does, AccessFree, noDebugStep, queueVars, handlerVars, lockVars,
       threadVars, breakVars, helperVars, Signalling, Getting, Types, PlaceTypes, ClientTypes,
       Executor
  <2> QED BY <2>1, <2>2, PermitsUnchanged
<1>6. ASSUME NEW c \in Client, SignalReceived(c) PROVE PermitInv'
  <2>1. /\ command_received' = command_received + 1 /\ UNCHANGED <<command_queue, pc>>
        /\ doing[c] = "signal" /\ doing' = [doing EXCEPT ![c] = "interrupt"]
    BY <1>6 DEF SignalReceived, Does
  <2>2. Signalling' = Signalling \ {c} /\ c \in Signalling
    BY <2>1 DEF Signalling, Types, ClientTypes
  <2>3. IsFiniteSet(Signalling') /\ Cardinality(Signalling') = Cardinality(Signalling) - 1
    BY <1>0, <2>2, FS_RemoveElement
  <2>4. Getting' = Getting
    BY <2>1 DEF Getting
  <2>5. Used(command_queue) = Permits
    BY DEF PermitInv, Permits
  <2>6. Used(command_queue) = (command_received + 1) + (Cardinality(Signalling) - 1) + Cardinality(Getting)
    BY <1>0, <2>5, PermitNumbers DEF Permits
  <2> QED BY <2>1, <2>3, <2>4, <2>6 DEF PermitInv
<1>7. ASSUME NEW c \in Client, CheckInDebugger(c, "interrupt", "request", "schedule") PROVE PermitInv'
  <2>1. UNCHANGED <<command_queue, command_received>>
    BY <1>7 DEF CheckInDebugger, noDebugStep, queueVars
  <2>2. Signalling' = Signalling /\ Getting' = Getting
    BY <1>7 DEF CheckInDebugger, Does, noDebugStep, queueVars, handlerVars, lockVars, threadVars,
       breakVars, helperVars, Signalling, Getting, Types, PlaceTypes, ClientTypes, Executor
  <2> QED BY <2>1, <2>2, PermitsUnchanged
<1>8. ASSUME NEW c \in Client, DebugCommand(c, "request", "schedule") PROVE PermitInv'
  <2>1. UNCHANGED <<command_queue, command_received>>
    BY <1>8 DEF DebugCommand, noDebugStep, queueVars
  <2>2. Signalling' = Signalling /\ Getting' = Getting
    BY <1>8 DEF DebugCommand, Does, Request, noDebugStep, queueVars, handlerVars, lockVars,
       threadVars, breakVars, helperVars, Signalling, Getting, Types, PlaceTypes, ClientTypes,
       Executor
  <2> QED BY <2>1, <2>2, PermitsUnchanged
<1>9. ASSUME NEW c \in Client, Schedule(c) PROVE PermitInv'
  <2>1. UNCHANGED <<command_queue, command_received>>
    BY <1>9 DEF Schedule, noDebugStep, queueVars
  <2>2. Signalling' = Signalling /\ Getting' = Getting
    BY <1>9 DEF Schedule, Does, Release, Scheduled, noDebugStep, queueVars, handlerVars, lockVars,
       threadVars, breakVars, helperVars, Signalling, Getting, Types, PlaceTypes, ClientTypes,
       Executor
  <2> QED BY <2>1, <2>2, PermitsUnchanged
<1>10. ASSUME NEW c \in Client, PostHelper(c) PROVE PermitInv'
  <2>1. UNCHANGED <<command_queue, command_received>>
    BY <1>10 DEF PostHelper, noDebugStep, queueVars
  <2>2. Signalling' = Signalling /\ Getting' = Getting
    BY <1>10 DEF PostHelper, Does, Release, noDebugStep, queueVars, handlerVars, lockVars,
       threadVars, breakVars, helperVars, Signalling, Getting, Types, PlaceTypes, ClientTypes,
       Executor
  <2> QED BY <2>1, <2>2, PermitsUnchanged
<1>11. ASSUME NEW c \in Client, FinishClose(c) PROVE PermitInv'
  <2>1. CASE InDebugger
    <3>1. /\ PutCommand("empty") /\ UNCHANGED <<command_received, pc>>
          /\ doing[c] = "close" /\ doing' = [doing EXCEPT ![c] = "signal"]
      BY <1>11, <2>1 DEF FinishClose, SendEmpty, Does
    <3> QED BY <3>1, PermitsAfterPut
  <2>2. CASE ~InDebugger
    <3>1. /\ UNCHANGED <<command_queue, command_received, pc>>
          /\ doing[c] = "close" /\ doing' = [doing EXCEPT ![c] = "idle"]
      BY <1>11, <2>2 DEF FinishClose, SendEmpty, Does, queueVars
    <3>2. Signalling' = Signalling /\ Getting' = Getting
      BY <3>1 DEF Signalling, Getting, Types, ClientTypes
    <3> QED BY <3>1, <3>2, PermitsUnchanged
  <2> QED BY <2>1, <2>2
<1>12. ASSUME NEW c \in Client, CheckInDebugger(c, "interrupt for event", "request for event", "idle") PROVE PermitInv'
  <2>1. UNCHANGED <<command_queue, command_received>>
    BY <1>12 DEF CheckInDebugger, noDebugStep, queueVars
  <2>2. Signalling' = Signalling /\ Getting' = Getting
    BY <1>12 DEF CheckInDebugger, Does, noDebugStep, queueVars, handlerVars, lockVars, threadVars,
       breakVars, helperVars, Signalling, Getting, Types, PlaceTypes, ClientTypes, Executor
  <2> QED BY <2>1, <2>2, PermitsUnchanged
<1>13. ASSUME NEW c \in Client, DebugCommand(c, "request for event", "idle") PROVE PermitInv'
  <2>1. UNCHANGED <<command_queue, command_received>>
    BY <1>13 DEF DebugCommand, noDebugStep, queueVars
  <2>2. Signalling' = Signalling /\ Getting' = Getting
    BY <1>13 DEF DebugCommand, Does, Request, noDebugStep, queueVars, handlerVars, lockVars,
       threadVars, breakVars, helperVars, Signalling, Getting, Types, PlaceTypes, ClientTypes,
       Executor
  <2> QED BY <2>1, <2>2, PermitsUnchanged
<1>14. CASE RequestPreemption
  <2>1. UNCHANGED <<command_queue, command_received>>
    BY <1>14 DEF RequestPreemption, noDebugStep, queueVars
  <2>2. Signalling' = Signalling /\ Getting' = Getting
    BY <1>14 DEF RequestPreemption, Request, noDebugStep, queueVars, handlerVars, lockVars,
       threadVars, breakVars, helperVars, Signalling, Getting, Types, PlaceTypes, ClientTypes,
       Executor
  <2> QED BY <2>1, <2>2, PermitsUnchanged
<1>15. CASE OnException
  <2>1. UNCHANGED <<command_queue, command_received>>
    BY <1>15 DEF OnException, noDebugStep, queueVars
  <2>2. Signalling' = Signalling /\ Getting' = Getting
    BY <1>15 DEF OnException, Go, noDebugStep, queueVars, handlerVars, lockVars, threadVars,
       breakVars, helperVars, Signalling, Getting, Types, PlaceTypes, ClientTypes, Executor
  <2> QED BY <2>1, <2>2, PermitsUnchanged
<1>16. CASE DebugBreakHelper
  <2>1. UNCHANGED <<command_queue, command_received>>
    BY <1>16 DEF DebugBreakHelper, noDebugStep, queueVars
  <2>2. Signalling' = Signalling /\ Getting' = Getting
    BY <1>16 DEF DebugBreakHelper, Go, noDebugStep, queueVars, handlerVars, lockVars, threadVars,
       breakVars, helperVars, Signalling, Getting, Types, PlaceTypes, ClientTypes, Executor
  <2> QED BY <2>1, <2>2, PermitsUnchanged
<1>17. CASE ClearDebugBreak
  <2>1. UNCHANGED <<command_queue, command_received>>
    BY <1>17 DEF ClearDebugBreak, noDebugStep, queueVars
  <2>2. Signalling' = Signalling /\ Getting' = Getting
    BY <1>17 DEF ClearDebugBreak, Go, Continue, noDebugStep, queueVars, handlerVars, lockVars,
       threadVars, breakVars, helperVars, Signalling, Getting, Types, PlaceTypes, ClientTypes,
       Executor
  <2> QED BY <2>1, <2>2, PermitsUnchanged
<1>18. CASE Preempt
  <2>1. UNCHANGED <<command_queue, command_received>>
    BY <1>18 DEF Preempt, noDebugStep, queueVars
  <2>2. Signalling' = Signalling /\ Getting' = Getting
    BY <1>18 DEF Preempt, Go, Continue, noDebugStep, queueVars, handlerVars, lockVars, threadVars,
       breakVars, helperVars, Signalling, Getting, Types, PlaceTypes, ClientTypes, Executor
  <2> QED BY <2>1, <2>2, PermitsUnchanged
<1>19. CASE Relock
  <2>1. UNCHANGED <<command_queue, command_received>>
    BY <1>19 DEF Relock, noDebugStep, queueVars
  <2>2. Signalling' = Signalling /\ Getting' = Getting
    BY <1>19 DEF Relock, Go, noDebugStep, queueVars, handlerVars, lockVars, threadVars, breakVars,
       helperVars, Signalling, Getting, Types, PlaceTypes, ClientTypes, Executor
  <2> QED BY <2>1, <2>2, PermitsUnchanged
<1>20. CASE HelperWake
  <2>1. UNCHANGED <<command_queue, command_received>>
    BY <1>20 DEF HelperWake, noDebugStep, queueVars
  <2>2. Signalling' = Signalling /\ Getting' = Getting
    BY <1>20 DEF HelperWake, Go, noDebugStep, queueVars, handlerVars, lockVars, threadVars,
       breakVars, helperVars, Signalling, Getting, Types, PlaceTypes, ClientTypes, Executor
  <2> QED BY <2>1, <2>2, PermitsUnchanged
<1>21. CASE HelperReset
  <2>1. UNCHANGED <<command_queue, command_received>>
    BY <1>21 DEF HelperReset, ResetSignalled, noDebugStep, queueVars
  <2>2. Signalling' = Signalling /\ Getting' = Getting
    BY <1>21 DEF HelperReset, ResetSignalled, Go, noDebugStep, queueVars, handlerVars, lockVars,
       threadVars, breakVars, helperVars, Signalling, Getting, Types, PlaceTypes, ClientTypes,
       Executor
  <2> QED BY <2>1, <2>2, PermitsUnchanged
<1>22. CASE HelperLock
  <2>1. UNCHANGED <<command_queue, command_received>>
    BY <1>22 DEF HelperLock, noDebugStep, queueVars
  <2>2. Signalling' = Signalling /\ Getting' = Getting
    BY <1>22 DEF HelperLock, Go, noDebugStep, queueVars, handlerVars, lockVars, threadVars,
       breakVars, helperVars, Signalling, Getting, Types, PlaceTypes, ClientTypes, Executor
  <2> QED BY <2>1, <2>2, PermitsUnchanged
<1>23. CASE HelperUnlock
  <2>1. UNCHANGED <<command_queue, command_received>>
    BY <1>23 DEF HelperUnlock, noDebugStep, queueVars
  <2>2. Signalling' = Signalling /\ Getting' = Getting
    BY <1>23 DEF HelperUnlock, Go, noDebugStep, queueVars, handlerVars, lockVars, threadVars,
       breakVars, helperVars, Signalling, Getting, Types, PlaceTypes, ClientTypes, Executor
  <2> QED BY <2>1, <2>2, PermitsUnchanged
<1>24. ASSUME NEW e \in Executor, ClearDebugCommand(e) PROVE PermitInv'
  <2>1. UNCHANGED <<command_queue, command_received>>
    BY <1>24 DEF ClearDebugCommand, noDebugStep, queueVars
  <2>2. Signalling' = Signalling /\ Getting' = Getting
    BY <1>24 DEF ClearDebugCommand, Go, Continue, noDebugStep, queueVars, handlerVars, lockVars,
       threadVars, breakVars, helperVars, Signalling, Getting, Types, PlaceTypes, ClientTypes,
       Executor
  <2> QED BY <2>1, <2>2, PermitsUnchanged
<1>25. ASSUME NEW e \in Executor, EnterDebugger(e) PROVE PermitInv'
  <2>1. UNCHANGED <<command_queue, command_received>>
    BY <1>25 DEF EnterDebugger, noDebugStep, queueVars
  <2>2. Signalling' = Signalling /\ Getting' = Getting
    BY <1>25 DEF EnterDebugger, Go, noDebugStep, queueVars, handlerVars, lockVars, threadVars,
       breakVars, helperVars, Signalling, Getting, Types, PlaceTypes, ClientTypes, Executor
  <2> QED BY <2>1, <2>2, PermitsUnchanged
<1>26. ASSUME NEW e \in Executor, EventActive(e) PROVE PermitInv'
  <2>1. UNCHANGED <<command_queue, command_received>>
    BY <1>26 DEF EventActive, noDebugStep, queueVars
  <2>2. Signalling' = Signalling /\ Getting' = Getting
    BY <1>26 DEF EventActive, Go, noDebugStep, queueVars, handlerVars, lockVars, threadVars,
       breakVars, helperVars, Signalling, Getting, Types, PlaceTypes, ClientTypes, Executor
  <2> QED BY <2>1, <2>2, PermitsUnchanged
<1>27. ASSUME NEW e \in Executor, ProcessDebugEvent(e) PROVE PermitInv'
  <2>1. UNCHANGED <<command_queue, command_received>>
    BY <1>27 DEF ProcessDebugEvent, noDebugStep, queueVars
  <2>2. Signalling' = Signalling /\ Getting' = Getting
    BY <1>27 DEF ProcessDebugEvent, Go, AfterNotify, noDebugStep, queueVars, handlerVars, lockVars,
       threadVars, breakVars, helperVars, Signalling, Getting, Types, PlaceTypes, ClientTypes,
       Executor
  <2> QED BY <2>1, <2>2, PermitsUnchanged
<1>28. ASSUME NEW e \in Executor, NotifyMessageHandler(e) PROVE PermitInv'
  <2>1. UNCHANGED <<command_queue, command_received>>
    BY <1>28 DEF NotifyMessageHandler, noDebugStep, queueVars
  <2>2. Signalling' = Signalling /\ Getting' = Getting
    BY <1>28 DEF NotifyMessageHandler, Go, Continue, AfterNotify, noDebugStep, queueVars,
       handlerVars, lockVars, threadVars, breakVars, helperVars, Signalling, Getting, Types,
       PlaceTypes, ClientTypes, Executor
  <2> QED BY <2>1, <2>2, PermitsUnchanged
<1>29. ASSUME NEW e \in Executor, SendEventMessage(e) PROVE PermitInv'
  <2>1. UNCHANGED <<command_queue, command_received>>
    BY <1>29 DEF SendEventMessage, noDebugStep, queueVars
  <2>2. Signalling' = Signalling /\ Getting' = Getting
    BY <1>29 DEF SendEventMessage, Go, noDebugStep, queueVars, handlerVars, lockVars, threadVars,
       breakVars, helperVars, Signalling, Getting, Types, PlaceTypes, ClientTypes, Executor
  <2> QED BY <2>1, <2>2, PermitsUnchanged
<1>30. ASSUME NEW e \in Executor, PollCommands(e) PROVE PermitInv'
  <2>1. UNCHANGED <<command_queue, command_received>>
    BY <1>30 DEF PollCommands, noDebugStep, queueVars
  <2>2. Signalling' = Signalling /\ Getting' = Getting
    BY <1>30 DEF PollCommands, Go, AfterNotify, HasCommands, noDebugStep, queueVars, handlerVars,
       lockVars, threadVars, breakVars, helperVars, Signalling, Getting, Types, PlaceTypes,
       ClientTypes, Executor
  <2> QED BY <2>1, <2>2, PermitsUnchanged
<1>31. ASSUME NEW e \in Executor, WaitForCommand(e) PROVE PermitInv'
  <2>1. /\ command_received > 0 /\ command_received' = command_received - 1
        /\ UNCHANGED <<command_queue, doing>>
        /\ pc[e] = "wait" /\ pc' = [pc EXCEPT ![e] = "get"]
    BY <1>31 DEF WaitForCommand, Go
  <2>2. Getting' = Getting \cup {e} /\ e \notin Getting
    BY <1>31, <2>1 DEF Getting, Types, PlaceTypes
  <2>3. Cardinality(Getting') = Cardinality(Getting) + 1
    BY <1>0, <2>2, PermitNumbers, FS_AddElement
  <2>4. Signalling' = Signalling
    BY <2>1 DEF Signalling
  <2>5. Used(command_queue) = Permits
    BY DEF PermitInv, Permits
  <2>6. Used(command_queue) = (command_received - 1) + Cardinality(Signalling) + (Cardinality(Getting) + 1)
    BY <1>0, <2>5, PermitNumbers DEF Permits
  <2> QED BY <1>0, <2>1, <2>3, <2>4, <2>6 DEF PermitInv
<1>32. ASSUME NEW e \in Executor, GetCommand(e) PROVE PermitInv'
  <2>1. /\ UNCHANGED <<command_received, doing, sent>>
        /\ command_queue' = AfterGet(command_queue) /\ got' = got + 1
        /\ pc[e] = "get" /\ pc' = [pc EXCEPT ![e] = "check"]
    BY <1>32 DEF GetCommand, Go
  <2>2. Getting' = Getting \ {e} /\ e \in Getting
    BY <1>32, <2>1 DEF Getting, Types, PlaceTypes
  <2>3. Cardinality(Getting') = Cardinality(Getting) - 1
    BY <1>0, <2>2, PermitNumbers, FS_RemoveElement
  <2>4. Signalling' = Signalling
    BY <2>1 DEF Signalling
  <2>5. Used(command_queue) = Permits
    BY DEF PermitInv, Permits
  <2>6. Used(command_queue)' = Used(command_queue) - 1
    BY <2>1, <2>2, QueueAfterGet DEF Took
  <2>7. Used(command_queue)' = command_received + Cardinality(Signalling) + (Cardinality(Getting) - 1)
    BY <1>0, <2>5, <2>6, PermitNumbers DEF Permits
  <2> QED BY <1>0, <2>1, <2>3, <2>4, <2>7 DEF PermitInv
<1>33. ASSUME NEW e \in Executor, CheckActive(e) PROVE PermitInv'
  <2>1. UNCHANGED <<command_queue, command_received>>
    BY <1>33 DEF CheckActive, noDebugStep, queueVars
  <2>2. Signalling' = Signalling /\ Getting' = Getting
    BY <1>33 DEF CheckActive, Go, AfterNotify, noDebugStep, queueVars, handlerVars, lockVars,
       threadVars, breakVars, helperVars, Signalling, Getting, Types, PlaceTypes, ClientTypes,
       Executor
  <2> QED BY <2>1, <2>2, PermitsUnchanged
<1>34. ASSUME NEW e \in Executor, Respond(e) PROVE PermitInv'
  <2>1. UNCHANGED <<command_queue, command_received>>
    BY <1>34 DEF Respond, noDebugStep, queueVars
  <2>2. Signalling' = Signalling /\ Getting' = Getting
    BY <1>34 DEF Respond, Go, noDebugStep, queueVars, handlerVars, lockVars, threadVars, breakVars,
       helperVars, Signalling, Getting, Types, PlaceTypes, ClientTypes, Executor
  <2> QED BY <2>1, <2>2, PermitsUnchanged
<1>35. ASSUME NEW e \in Executor, ContinueOrWait(e) PROVE PermitInv'
  <2>1. UNCHANGED <<command_queue, command_received>>
    BY <1>35 DEF ContinueOrWait, noDebugStep, queueVars
  <2>2. Signalling' = Signalling /\ Getting' = Getting
    BY <1>35 DEF ContinueOrWait, Go, AfterNotify, HasCommands, noDebugStep, queueVars, handlerVars,
       lockVars, threadVars, breakVars, helperVars, Signalling, Getting, Types, PlaceTypes,
       ClientTypes, Executor
  <2> QED BY <2>1, <2>2, PermitsUnchanged
<1>36. ASSUME NEW e \in Executor, ProcessEventCommands(e) PROVE PermitInv'
  <2>1. UNCHANGED <<command_queue, command_received>>
    BY <1>36 DEF ProcessEventCommands, noDebugStep, queueVars
  <2>2. Signalling' = Signalling /\ Getting' = Getting
    BY <1>36 DEF ProcessEventCommands, Go, noDebugStep, queueVars, handlerVars, lockVars,
       threadVars, breakVars, helperVars, Signalling, Getting, Types, PlaceTypes, ClientTypes,
       Executor
  <2> QED BY <2>1, <2>2, PermitsUnchanged
<1>37. ASSUME NEW e \in Executor, PostponeBreak(e) PROVE PermitInv'
  <2>1. UNCHANGED <<command_queue, command_received>>
    BY <1>37 DEF PostponeBreak, noDebugStep, queueVars
  <2>2. Signalling' = Signalling /\ Getting' = Getting
    BY <1>37 DEF PostponeBreak, Go, Continue, noDebugStep, queueVars, handlerVars, lockVars,
       threadVars, breakVars, helperVars, Signalling, Getting, Types, PlaceTypes, ClientTypes,
       Executor
  <2> QED BY <2>1, <2>2, PermitsUnchanged
<1>38. ASSUME NEW e \in Executor, RequestRecorded(e) PROVE PermitInv'
  <2>1. UNCHANGED <<command_queue, command_received>>
    BY <1>38 DEF RequestRecorded, RequestPending, noDebugStep, queueVars
  <2>2. Signalling' = Signalling /\ Getting' = Getting
    BY <1>38 DEF RequestRecorded, Go, RequestPending, Request, noDebugStep, queueVars, handlerVars,
       lockVars, threadVars, breakVars, helperVars, Signalling, Getting, Types, PlaceTypes,
       ClientTypes, Executor
  <2> QED BY <2>1, <2>2, PermitsUnchanged
<1>39. ASSUME NEW e \in Executor, CheckCommands(e) PROVE PermitInv'
  <2>1. UNCHANGED <<command_queue, command_received>>
    BY <1>39 DEF CheckCommands, noDebugStep, queueVars
  <2>2. Signalling' = Signalling /\ Getting' = Getting
    BY <1>39 DEF CheckCommands, Go, Request, noDebugStep, queueVars, handlerVars, lockVars,
       threadVars, breakVars, helperVars, Signalling, Getting, Types, PlaceTypes, ClientTypes,
       Executor
  <2> QED BY <2>1, <2>2, PermitsUnchanged
<1>40. ASSUME NEW e \in Executor, ExitDebugger(e) PROVE PermitInv'
  <2>1. UNCHANGED <<command_queue, command_received>>
    BY <1>40 DEF ExitDebugger, noDebugStep, queueVars
  <2>2. Signalling' = Signalling /\ Getting' = Getting
    BY <1>40 DEF ExitDebugger, Go, noDebugStep, queueVars, handlerVars, lockVars, threadVars,
       breakVars, helperVars, Signalling, Getting, Types, PlaceTypes, ClientTypes, Executor
  <2> QED BY <2>1, <2>2, PermitsUnchanged
<1>41. ASSUME NEW e \in Executor, PreemptionWhileInDebugger(e) PROVE PermitInv'
  <2>1. UNCHANGED <<command_queue, command_received>>
    BY <1>41 DEF PreemptionWhileInDebugger, Continue, noDebugStep, queueVars
  <2>2. Signalling' = Signalling /\ Getting' = Getting
    BY <1>41 DEF PreemptionWhileInDebugger, Continue, noDebugStep, queueVars, handlerVars, lockVars,
       threadVars, breakVars, helperVars, Signalling, Getting, Types, PlaceTypes, ClientTypes,
       Executor
  <2> QED BY <2>1, <2>2, PermitsUnchanged
<1>42. ASSUME NEW c \in Client, CallMessageDispatchHandler(c) PROVE PermitInv'
  <2>1. UNCHANGED <<command_queue, command_received>>
    BY <1>42 DEF CallMessageDispatchHandler, queueVars
  <2>2. Signalling' = Signalling /\ Getting' = Getting
    BY <1>42 DEF CallMessageDispatchHandler, Does, Signalling, Getting, Types, PlaceTypes,
       ClientTypes, Executor
  <2> QED BY <2>1, <2>2, PermitsUnchanged
<1> QED BY <1>1, <1>2, <1>3, <1>4, <1>5, <1>6, <1>7, <1>8, <1>9, <1>10, <1>11, <1>12, <1>13, <1>14,
   <1>15, <1>16, <1>17, <1>18, <1>19, <1>20, <1>21, <1>22, <1>23, <1>24, <1>25, <1>26, <1>27, <1>28,
   <1>29, <1>30, <1>31, <1>32, <1>33, <1>34, <1>35, <1>36, <1>37, <1>38, <1>39, <1>40, <1>41, <1>42 DEF
   Next, ClientStep, VMStep, HelperStep, ExecutorStep

---------------------------------------------------------------------------
(* Commands are noticed.                                                      *)

AnnouncedOrWoken == Announced \/ sem = 1 \/ "DEBUGCOMMAND" \in flags["VM"]

\* Noticed with the second part named.
LEMMA NoticeIs ==
  Noticed <=> (closes = 0 /\ Used(command_queue) > 0 =>
                   /\ Announced \/ WillLook
                   /\ pc["Helper"] \in Past => AnnouncedOrWoken)
  BY DEF Noticed, AnnouncedOrWoken

\* What is announced, or what the helper is woken for, is noticed.
LEMMA WokenIsNoticed ==
  ASSUME Types, AnnouncedOrWoken PROVE Announced \/ WillLook
  BY DEF AnnouncedOrWoken, WillLook

\* Until somebody closes it the debugger is active.
LEMMA ActiveUnlessClosed ==
  ASSUME CloseInv, closes = 0 PROVE message_handler /\ Active
  BY DEF CloseInv, Active

\* The helper is not past its last look while the VM thread holds the lock.
LEMMA HelperOut ==
  ASSUME Types, LockInv, pc["VM"] # "unlocked" PROVE pc["Helper"] \notin Past
  BY DEF LockInv, Past

\* A client's step that leaves the queue alone and goes on announcing, or wakes
\* the helper, or did not announce anything.
LEMMA NoticeAfterClient ==
  ASSUME Types, Noticed, Types', UNCHANGED <<closes, command_queue, pc>>,
         Announced => Announced' \/ sem' = 1 \/ pc["Helper"] = "woken",
         sem = 1 => sem' = 1,
         "DEBUGCOMMAND" \in flags["VM"] => "DEBUGCOMMAND" \in flags'["VM"]
  PROVE  Noticed'
<1> SUFFICES ASSUME closes = 0, Used(command_queue) > 0
             PROVE  /\ Announced' \/ WillLook'
                    /\ pc["Helper"] \in Past => AnnouncedOrWoken'
  BY NoticeIs DEF Noticed, AnnouncedOrWoken
<1>1. Announced \/ WillLook
  BY DEF Noticed
<1>2. CASE Announced
  <2>1. Announced' \/ sem' = 1 \/ pc["Helper"] = "woken"
    BY <1>2
  <2> QED BY <2>1 DEF WillLook, AnnouncedOrWoken, Past
<1>3. CASE ~Announced
  <2>1. WillLook'
    BY <1>1, <1>3 DEF WillLook, Types, NumberTypes
  <2>2. pc["Helper"] \in Past => AnnouncedOrWoken'
    BY <1>3 DEF Noticed, AnnouncedOrWoken
  <2> QED BY <2>1, <2>2
<1> QED BY <1>2, <1>3

\* An executor that is inside and has not asked for the last time will look.
LEMMA NoticeAfterExecutor ==
  ASSUME Types, Noticed, LockInv, NEW e \in Executor, ExecutorStep(e),
         pc'[e] \in (Inside \ {"exit"}) \cup Outside,
         Used(command_queue)' > 0 => Used(command_queue) > 0,
         e = "Helper" /\ pc'[e] \in Past /\ pc[e] \notin Past /\ closes = 0 =>
           ~(Used(command_queue)' > 0)
  PROVE  Noticed'
<1>1. /\ UNCHANGED <<closes, sem, doing>>
      /\ \A x \in Executor : x # e => pc'[x] = pc[x] /\ flags'[x] = flags[x]
      /\ pc[e] \in Inside \cup Outside
  BY ExecutorFrame
<1> SUFFICES ASSUME closes = 0, Used(command_queue)' > 0
             PROVE  /\ Announced' \/ WillLook'
                    /\ pc'["Helper"] \in Past => AnnouncedOrWoken'
  BY <1>1 DEF Noticed, AnnouncedOrWoken
<1>2. WillLook'
  BY DEF WillLook
<1>3. ASSUME pc'["Helper"] \in Past PROVE AnnouncedOrWoken'
  <2>1. CASE e = "VM"
    <3>1. pc'["Helper"] = pc["Helper"]
      BY <2>1, <1>1 DEF Executor
    <3>2. pc["VM"] # "unlocked"
      BY <2>1, <1>1 DEF Inside, Outside
    <3> QED BY <3>1, <3>2, <1>3, HelperOut
  <2>2. CASE e = "Helper"
    <3>1. pc["Helper"] \in Past
      BY <2>2, <1>3
    <3>2. flags'["VM"] = flags["VM"]
      BY <2>2, <1>1 DEF Executor
    <3> QED BY <3>1, <3>2, <1>1 DEF Noticed, AnnouncedOrWoken, Announced
  <2> QED BY <2>1, <2>2 DEF Executor
<1> QED BY <1>2, <1>3

\* With a helper Noticed is preserved by every step.
LEMMA NoticedNext ==
  ASSUME helper, Types, Types', QueueInv, CloseInv, PermitInv, LockInv, WakeInv, Noticed, Next
  PROVE  Noticed'
<1>0. Used(command_queue) \in Nat /\ (HasCommands <=> Used(command_queue) > 0)
  BY RingEmpty, UsedIs DEF QueueInv, HasCommands, IsRing
<1>1. ASSUME NEW c \in Sender, ProcessCommand(c) PROVE Noticed'
  <2>1. c \in Client /\ doing'[c] = "signal"
    BY <1>1 DEF ProcessCommand, Does, Client, Types, ClientTypes
  <2>2. Announced'
    BY <2>1 DEF Announced, Announcement
  <2> QED BY <2>2 DEF Noticed
<1>2. ASSUME NEW c \in Sender, DebugBreak(c) PROVE Noticed'
  <2>1. UNCHANGED <<closes, command_queue, pc>> /\ sem' = sem
    BY <1>2 DEF DebugBreak, queueVars, handlerVars, helperVars
  <2>2. Announced => Announced'
    BY <1>2 DEF DebugBreak, Types, ClientTypes, Announced, Announcement, Client
  <2>3. "DEBUGCOMMAND" \in flags["VM"] => "DEBUGCOMMAND" \in flags'["VM"]
    BY <1>2 DEF DebugBreak, Request, threadVars, Types, FlagTypes, SwitchTypes, Executor
  <2> QED BY <2>1, <2>2, <2>3, NoticeAfterClient
<1>3. ASSUME NEW c \in Sender, EnqueueDebugCommand(c) PROVE Noticed'
  <2>1. UNCHANGED <<closes, command_queue, pc>> /\ sem' = sem
    BY <1>3 DEF EnqueueDebugCommand, queueVars, handlerVars, helperVars
  <2>2. Announced => Announced'
    BY <1>3 DEF EnqueueDebugCommand, Does, Types, ClientTypes, Announced, Announcement, Client
  <2>3. "DEBUGCOMMAND" \in flags["VM"] => "DEBUGCOMMAND" \in flags'["VM"]
    BY <1>3 DEF EnqueueDebugCommand, threadVars, Types, FlagTypes, SwitchTypes, Executor
  <2> QED BY <2>1, <2>2, <2>3, NoticeAfterClient
<1>4. ASSUME NEW c \in Closer, OpenDebugger(c) PROVE Noticed'
  <2>1. UNCHANGED <<closes, command_queue, pc>> /\ sem' = sem
    BY <1>4 DEF OpenDebugger, queueVars, handlerVars, helperVars
  <2>2. Announced => Announced'
    BY <1>4 DEF OpenDebugger, Types, ClientTypes, Announced, Announcement, Client
  <2>3. "DEBUGCOMMAND" \in flags["VM"] => "DEBUGCOMMAND" \in flags'["VM"]
    BY <1>4 DEF OpenDebugger, threadVars, Types, FlagTypes, SwitchTypes, Executor
  <2> QED BY <2>1, <2>2, <2>3, NoticeAfterClient
<1>5. ASSUME NEW c \in Closer, CloseDebugger(c) PROVE Noticed'
  <2>1. closes' # 0
    BY <1>5 DEF CloseDebugger, Types, NumberTypes
  <2> QED BY <2>1 DEF Noticed
<1>6. ASSUME NEW c \in Client, SignalReceived(c) PROVE Noticed'
  <2>1. UNCHANGED <<closes, command_queue, pc>> /\ sem' = sem
    BY <1>6 DEF SignalReceived, queueVars, handlerVars, helperVars
  <2>2. Announced => Announced'
    BY <1>6 DEF SignalReceived, Does, Types, ClientTypes, Announced, Announcement, Client
  <2>3. "DEBUGCOMMAND" \in flags["VM"] => "DEBUGCOMMAND" \in flags'["VM"]
    BY <1>6 DEF SignalReceived, threadVars, Types, FlagTypes, SwitchTypes, Executor
  <2> QED BY <2>1, <2>2, <2>3, NoticeAfterClient
<1>7. ASSUME NEW c \in Client, CheckInDebugger(c, "interrupt", "request", "schedule") PROVE Noticed'
  <2>1. UNCHANGED <<closes, command_queue, pc>> /\ sem' = sem
    BY <1>7 DEF CheckInDebugger, queueVars, handlerVars, helperVars
  <2>2. Announced => Announced'
    BY <1>7 DEF CheckInDebugger, Does, Types, ClientTypes, Announced, Announcement, Client
  <2>3. "DEBUGCOMMAND" \in flags["VM"] => "DEBUGCOMMAND" \in flags'["VM"]
    BY <1>7 DEF CheckInDebugger, threadVars, Types, FlagTypes, SwitchTypes, Executor
  <2> QED BY <2>1, <2>2, <2>3, NoticeAfterClient
<1>8. ASSUME NEW c \in Client, DebugCommand(c, "request", "schedule") PROVE Noticed'
  <2>1. UNCHANGED <<closes, command_queue, pc>> /\ sem' = sem
    BY <1>8 DEF DebugCommand, queueVars, handlerVars, helperVars
  <2>2. Announced => Announced'
    BY <1>8 DEF DebugCommand, Does, Types, ClientTypes, Announced, Announcement, Client
  <2>3. "DEBUGCOMMAND" \in flags["VM"] => "DEBUGCOMMAND" \in flags'["VM"]
    BY <1>8 DEF DebugCommand, Request, threadVars, Types, FlagTypes, SwitchTypes, Executor
  <2> QED BY <2>1, <2>2, <2>3, NoticeAfterClient
<1>9. ASSUME NEW c \in Client, Schedule(c) PROVE Noticed'
  <2>1. /\ UNCHANGED <<closes, command_queue, pc, sem, flags>>
        /\ doing[c] = "schedule"
        /\ doing' = [doing EXCEPT ![c] = IF already_signalled THEN "idle" ELSE "post"]
    BY <1>9 DEF Schedule, Does, Scheduled, queueVars, handlerVars, threadVars
  <2>2. CASE already_signalled
    <3>1. CASE Posting # {}
      <4>1. PICK d \in Client : doing[d] = "post"
        BY <3>1 DEF Posting
      <4>2. doing'[d] = "post"
        BY <2>1, <4>1 DEF Types, ClientTypes
      <4>3. Announced'
        BY <4>2 DEF Announced, Announcement
      <4> QED BY <2>1, <4>3, NoticeAfterClient
    <3>2. CASE Posting = {}
      <4>1. sem = 1 \/ pc["Helper"] = "woken"
        BY <2>2, <3>2 DEF WakeInv
      <4> QED BY <2>1, <4>1, NoticeAfterClient
    <3> QED BY <3>1, <3>2
  <2>3. CASE ~already_signalled
    <3>1. doing'[c] = "post"
      BY <1>9, <2>1, <2>3 DEF Types, ClientTypes
    <3>2. Announced'
      BY <1>9, <3>1 DEF Announced, Announcement
    <3> QED BY <2>1, <3>2, NoticeAfterClient
  <2> QED BY <2>2, <2>3
<1>10. ASSUME NEW c \in Client, PostHelper(c) PROVE Noticed'
  <2>1. UNCHANGED <<closes, command_queue, pc, flags>> /\ sem' = sem + 1
    BY <1>10 DEF PostHelper, queueVars, handlerVars, threadVars
  <2>2. sem' = 1
    BY <2>1 DEF Types, NumberTypes
  <2> QED BY <2>1, <2>2, NoticeAfterClient
<1>11. ASSUME NEW c \in Client, FinishClose(c) PROVE Noticed'
  <2>1. closes' # 0
    BY <1>11 DEF FinishClose, SendEmpty, Does, CloseInv, handlerVars, Types, NumberTypes
  <2> QED BY <2>1 DEF Noticed
<1>12. ASSUME NEW c \in Client, CheckInDebugger(c, "interrupt for event", "request for event", "idle") PROVE Noticed'
  <2>1. UNCHANGED <<closes, command_queue, pc>> /\ sem' = sem
    BY <1>12 DEF CheckInDebugger, queueVars, handlerVars, helperVars
  <2>2. Announced => Announced'
    BY <1>12 DEF CheckInDebugger, Does, Types, ClientTypes, Announced, Announcement, Client
  <2>3. "DEBUGCOMMAND" \in flags["VM"] => "DEBUGCOMMAND" \in flags'["VM"]
    BY <1>12 DEF CheckInDebugger, threadVars, Types, FlagTypes, SwitchTypes, Executor
  <2> QED BY <2>1, <2>2, <2>3, NoticeAfterClient
<1>13. ASSUME NEW c \in Client, DebugCommand(c, "request for event", "idle") PROVE Noticed'
  <2>1. UNCHANGED <<closes, command_queue, pc>> /\ sem' = sem
    BY <1>13 DEF DebugCommand, queueVars, handlerVars, helperVars
  <2>2. Announced => Announced'
    BY <1>13 DEF DebugCommand, Does, Types, ClientTypes, Announced, Announcement, Client
  <2>3. "DEBUGCOMMAND" \in flags["VM"] => "DEBUGCOMMAND" \in flags'["VM"]
    BY <1>13 DEF DebugCommand, Request, threadVars, Types, FlagTypes, SwitchTypes, Executor
  <2> QED BY <2>1, <2>2, <2>3, NoticeAfterClient
<1>14. CASE RequestPreemption
  <2>1. UNCHANGED <<closes, command_queue, pc>> /\ sem' = sem
    BY <1>14 DEF RequestPreemption, queueVars, handlerVars, helperVars
  <2>2. Announced => Announced'
    BY <1>14 DEF RequestPreemption, Types, ClientTypes, Announced, Announcement, Client
  <2>3. "DEBUGCOMMAND" \in flags["VM"] => "DEBUGCOMMAND" \in flags'["VM"]
    BY <1>14 DEF RequestPreemption, Request, threadVars, Types, FlagTypes, SwitchTypes, Executor
  <2> QED BY <2>1, <2>2, <2>3, NoticeAfterClient
<1>15. CASE OnException
  BY <1>15 DEF OnException, Go, noDebugStep, queueVars, handlerVars, lockVars, threadVars,
     breakVars, helperVars, Types, PlaceTypes, FlagTypes, NumberTypes, Noticed, WillLook,
     Announced, Past, Inside, Outside, Executor
<1>16. CASE DebugBreakHelper
  BY <1>16 DEF DebugBreakHelper, Go, noDebugStep, queueVars, handlerVars, lockVars, threadVars,
     breakVars, helperVars, Types, PlaceTypes, FlagTypes, NumberTypes, Noticed, WillLook,
     Announced, Past, Inside, Outside, Executor
<1>17. CASE ClearDebugBreak
  BY <1>17 DEF ClearDebugBreak, Go, Continue, noDebugStep, queueVars, handlerVars, lockVars,
     threadVars, breakVars, helperVars, Types, PlaceTypes, FlagTypes, NumberTypes, Noticed,
     WillLook, Announced, Past, Inside, Outside, Executor
<1>18. CASE Preempt
  BY <1>18 DEF Preempt, Go, Continue, noDebugStep, queueVars, handlerVars, lockVars, threadVars,
     breakVars, helperVars, Types, PlaceTypes, FlagTypes, NumberTypes, Noticed, WillLook,
     Announced, Past, Inside, Outside, Executor
<1>19. CASE Relock
  BY <1>19 DEF Relock, Go, noDebugStep, queueVars, handlerVars, lockVars, threadVars, breakVars,
     helperVars, Types, PlaceTypes, FlagTypes, NumberTypes, Noticed, WillLook, Announced, Past,
     Inside, Outside, Executor
<1>20. CASE HelperWake
  BY <1>20 DEF HelperWake, Go, noDebugStep, queueVars, handlerVars, lockVars, threadVars, breakVars,
     helperVars, Types, PlaceTypes, FlagTypes, NumberTypes, Noticed, WillLook, Announced, Past,
     Inside, Outside, Executor
<1>21. CASE HelperReset
  BY <1>21 DEF HelperReset, ResetSignalled, Go, noDebugStep, queueVars, handlerVars, lockVars,
     threadVars, breakVars, helperVars, Types, PlaceTypes, FlagTypes, NumberTypes, Noticed,
     WillLook, Announced, Past, Inside, Outside, Executor
<1>22. CASE HelperLock
  BY <1>22 DEF HelperLock, Go, noDebugStep, queueVars, handlerVars, lockVars, threadVars, breakVars,
     helperVars, Types, PlaceTypes, FlagTypes, NumberTypes, Noticed, WillLook, Announced, Past,
     Inside, Outside, Executor
<1>23. CASE HelperUnlock
  BY <1>23 DEF HelperUnlock, Go, noDebugStep, queueVars, handlerVars, lockVars, threadVars,
     breakVars, helperVars, Types, PlaceTypes, FlagTypes, NumberTypes, Noticed, WillLook,
     Announced, Past, Inside, Outside, Executor
<1>24. ASSUME NEW e \in Executor, ClearDebugCommand(e) PROVE Noticed'
  <2>1. ExecutorStep(e)
    BY <1>24 DEF ExecutorStep
  <2>2. pc'[e] \in (Inside \ {"exit"}) \cup Outside
    BY <1>24 DEF ClearDebugCommand, Go, Continue, Types, PlaceTypes, Executor, Inside, Outside
  <2>3. Used(command_queue)' > 0 => Used(command_queue) > 0
    BY <1>24 DEF ClearDebugCommand, noDebugStep, queueVars
  <2>4. e = "Helper" /\ pc'[e] \in Past /\ pc[e] \notin Past /\ closes = 0 =>
           ~(Used(command_queue)' > 0)
    BY <1>24 DEF ClearDebugCommand, Go, Continue, noDebugStep, Types, PlaceTypes, Executor, Past
  <2> QED BY <1>24, <2>1, <2>2, <2>3, <2>4, NoticeAfterExecutor
<1>25. ASSUME NEW e \in Executor, EnterDebugger(e) PROVE Noticed'
  <2>1. ExecutorStep(e)
    BY <1>25 DEF ExecutorStep
  <2>2. pc'[e] \in (Inside \ {"exit"}) \cup Outside
    BY <1>25 DEF EnterDebugger, Go, Types, PlaceTypes, Executor, Inside, Outside
  <2>3. Used(command_queue)' > 0 => Used(command_queue) > 0
    BY <1>25 DEF EnterDebugger, noDebugStep, queueVars
  <2>4. e = "Helper" /\ pc'[e] \in Past /\ pc[e] \notin Past /\ closes = 0 =>
           ~(Used(command_queue)' > 0)
    BY <1>25 DEF EnterDebugger, Go, noDebugStep, Types, PlaceTypes, Executor, Past
  <2> QED BY <1>25, <2>1, <2>2, <2>3, <2>4, NoticeAfterExecutor
<1>26. ASSUME NEW e \in Executor, EventActive(e) PROVE Noticed'
  <2>1. ExecutorStep(e)
    BY <1>26 DEF ExecutorStep
  <2>2. pc'[e] \in (Inside \ {"exit"}) \cup Outside
    BY <1>26 DEF EventActive, Go, Types, PlaceTypes, Executor, Inside, Outside
  <2>3. Used(command_queue)' > 0 => Used(command_queue) > 0
    BY <1>26 DEF EventActive, noDebugStep, queueVars
  <2>4. e = "Helper" /\ pc'[e] \in Past /\ pc[e] \notin Past /\ closes = 0 =>
           ~(Used(command_queue)' > 0)
    BY <1>26, ActiveUnlessClosed DEF EventActive, Go, noDebugStep, Types, PlaceTypes, Executor, Past
  <2> QED BY <1>26, <2>1, <2>2, <2>3, <2>4, NoticeAfterExecutor
<1>27. ASSUME NEW e \in Executor, ProcessDebugEvent(e) PROVE Noticed'
  <2>1. ExecutorStep(e)
    BY <1>27 DEF ExecutorStep
  <2>2. pc'[e] \in (Inside \ {"exit"}) \cup Outside
    BY <1>27 DEF ProcessDebugEvent, Go, AfterNotify, Types, PlaceTypes, Executor, Inside, Outside
  <2>3. Used(command_queue)' > 0 => Used(command_queue) > 0
    BY <1>27 DEF ProcessDebugEvent, noDebugStep, queueVars
  <2>4. e = "Helper" /\ pc'[e] \in Past /\ pc[e] \notin Past /\ closes = 0 =>
           ~(Used(command_queue)' > 0)
    BY <1>27, ActiveUnlessClosed DEF ProcessDebugEvent, Go, AfterNotify, noDebugStep, Types,
       PlaceTypes, Executor, Past
  <2> QED BY <1>27, <2>1, <2>2, <2>3, <2>4, NoticeAfterExecutor
<1>28. ASSUME NEW e \in Executor, NotifyMessageHandler(e) PROVE Noticed'
  <2>1. ExecutorStep(e)
    BY <1>28 DEF ExecutorStep
  <2>2. pc'[e] \in (Inside \ {"exit"}) \cup Outside
    BY <1>28 DEF NotifyMessageHandler, Go, Continue, AfterNotify, Types, PlaceTypes, Executor,
       Inside, Outside
  <2>3. Used(command_queue)' > 0 => Used(command_queue) > 0
    BY <1>28 DEF NotifyMessageHandler, noDebugStep, queueVars
  <2>4. e = "Helper" /\ pc'[e] \in Past /\ pc[e] \notin Past /\ closes = 0 =>
           ~(Used(command_queue)' > 0)
    BY <1>28 DEF NotifyMessageHandler, Go, Continue, AfterNotify, noDebugStep, Types, PlaceTypes,
       Executor, Past
  <2> QED BY <1>28, <2>1, <2>2, <2>3, <2>4, NoticeAfterExecutor
<1>29. ASSUME NEW e \in Executor, SendEventMessage(e) PROVE Noticed'
  <2>1. ExecutorStep(e)
    BY <1>29 DEF ExecutorStep
  <2>2. pc'[e] \in (Inside \ {"exit"}) \cup Outside
    BY <1>29 DEF SendEventMessage, Go, Types, PlaceTypes, Executor, Inside, Outside
  <2>3. Used(command_queue)' > 0 => Used(command_queue) > 0
    BY <1>29 DEF SendEventMessage, noDebugStep, queueVars
  <2>4. e = "Helper" /\ pc'[e] \in Past /\ pc[e] \notin Past /\ closes = 0 =>
           ~(Used(command_queue)' > 0)
    BY <1>29 DEF SendEventMessage, Go, noDebugStep, Types, PlaceTypes, Executor, Past
  <2> QED BY <1>29, <2>1, <2>2, <2>3, <2>4, NoticeAfterExecutor
<1>30. ASSUME NEW e \in Executor, PollCommands(e) PROVE Noticed'
  <2>1. ExecutorStep(e)
    BY <1>30 DEF ExecutorStep
  <2>2. pc'[e] \in (Inside \ {"exit"}) \cup Outside
    BY <1>30 DEF PollCommands, Go, AfterNotify, HasCommands, Types, PlaceTypes, Executor, Inside,
       Outside
  <2>3. Used(command_queue)' > 0 => Used(command_queue) > 0
    BY <1>30 DEF PollCommands, noDebugStep, queueVars
  <2>4. e = "Helper" /\ pc'[e] \in Past /\ pc[e] \notin Past /\ closes = 0 =>
           ~(Used(command_queue)' > 0)
    BY <1>30, <1>0 DEF PollCommands, Go, AfterNotify, noDebugStep, queueVars, Types, PlaceTypes,
       Executor, Past
  <2> QED BY <1>30, <2>1, <2>2, <2>3, <2>4, NoticeAfterExecutor
<1>31. ASSUME NEW e \in Executor, WaitForCommand(e) PROVE Noticed'
  <2>1. ExecutorStep(e)
    BY <1>31 DEF ExecutorStep
  <2>2. pc'[e] \in (Inside \ {"exit"}) \cup Outside
    BY <1>31 DEF WaitForCommand, Go, Types, PlaceTypes, Executor, Inside, Outside
  <2>3. Used(command_queue)' > 0 => Used(command_queue) > 0
    BY <1>31 DEF WaitForCommand, noDebugStep, queueVars
  <2>4. e = "Helper" /\ pc'[e] \in Past /\ pc[e] \notin Past /\ closes = 0 =>
           ~(Used(command_queue)' > 0)
    BY <1>31 DEF WaitForCommand, Go, noDebugStep, Types, PlaceTypes, Executor, Past
  <2> QED BY <1>31, <2>1, <2>2, <2>3, <2>4, NoticeAfterExecutor
<1>32. ASSUME NEW e \in Executor, GetCommand(e) PROVE Noticed'
  <2>1. ExecutorStep(e)
    BY <1>32 DEF ExecutorStep
  <2>2. pc'[e] \in (Inside \ {"exit"}) \cup Outside
    BY <1>32 DEF GetCommand, Go, Types, PlaceTypes, Executor, Inside, Outside
  <2>3. Used(command_queue)' > 0 => Used(command_queue) > 0
    <3>1. Took
      BY <1>32 DEF GetCommand, Go, Took, Getting
    <3>2. Used(command_queue)' = Used(command_queue) - 1
      BY <3>1, QueueAfterGet
    <3> QED BY <1>0, <3>2
  <2>4. e = "Helper" /\ pc'[e] \in Past /\ pc[e] \notin Past /\ closes = 0 =>
           ~(Used(command_queue)' > 0)
    BY <1>32 DEF GetCommand, Go, noDebugStep, Types, PlaceTypes, Executor, Past
  <2> QED BY <1>32, <2>1, <2>2, <2>3, <2>4, NoticeAfterExecutor
<1>33. ASSUME NEW e \in Executor, CheckActive(e) PROVE Noticed'
  <2>1. ExecutorStep(e)
    BY <1>33 DEF ExecutorStep
  <2>2. pc'[e] \in (Inside \ {"exit"}) \cup Outside
    BY <1>33 DEF CheckActive, Go, AfterNotify, Types, PlaceTypes, Executor, Inside, Outside
  <2>3. Used(command_queue)' > 0 => Used(command_queue) > 0
    BY <1>33 DEF CheckActive, noDebugStep, queueVars
  <2>4. e = "Helper" /\ pc'[e] \in Past /\ pc[e] \notin Past /\ closes = 0 =>
           ~(Used(command_queue)' > 0)
    BY <1>33, ActiveUnlessClosed DEF CheckActive, Go, AfterNotify, noDebugStep, Types, PlaceTypes,
       Executor, Past
  <2> QED BY <1>33, <2>1, <2>2, <2>3, <2>4, NoticeAfterExecutor
<1>34. ASSUME NEW e \in Executor, Respond(e) PROVE Noticed'
  <2>1. ExecutorStep(e)
    BY <1>34 DEF ExecutorStep
  <2>2. pc'[e] \in (Inside \ {"exit"}) \cup Outside
    BY <1>34 DEF Respond, Go, Types, PlaceTypes, Executor, Inside, Outside
  <2>3. Used(command_queue)' > 0 => Used(command_queue) > 0
    BY <1>34 DEF Respond, noDebugStep, queueVars
  <2>4. e = "Helper" /\ pc'[e] \in Past /\ pc[e] \notin Past /\ closes = 0 =>
           ~(Used(command_queue)' > 0)
    BY <1>34 DEF Respond, Go, noDebugStep, Types, PlaceTypes, Executor, Past
  <2> QED BY <1>34, <2>1, <2>2, <2>3, <2>4, NoticeAfterExecutor
<1>35. ASSUME NEW e \in Executor, ContinueOrWait(e) PROVE Noticed'
  <2>1. ExecutorStep(e)
    BY <1>35 DEF ExecutorStep
  <2>2. pc'[e] \in (Inside \ {"exit"}) \cup Outside
    BY <1>35 DEF ContinueOrWait, Go, AfterNotify, HasCommands, Types, PlaceTypes, Executor, Inside,
       Outside
  <2>3. Used(command_queue)' > 0 => Used(command_queue) > 0
    BY <1>35 DEF ContinueOrWait, noDebugStep, queueVars
  <2>4. e = "Helper" /\ pc'[e] \in Past /\ pc[e] \notin Past /\ closes = 0 =>
           ~(Used(command_queue)' > 0)
    BY <1>35, <1>0 DEF ContinueOrWait, Go, AfterNotify, noDebugStep, queueVars, Types, PlaceTypes,
       Executor, Past
  <2> QED BY <1>35, <2>1, <2>2, <2>3, <2>4, NoticeAfterExecutor
<1>36. ASSUME NEW e \in Executor, ProcessEventCommands(e) PROVE Noticed'
  <2>1. ExecutorStep(e)
    BY <1>36 DEF ExecutorStep
  <2>2. pc'[e] \in (Inside \ {"exit"}) \cup Outside
    BY <1>36 DEF ProcessEventCommands, Go, Types, PlaceTypes, Executor, Inside, Outside
  <2>3. Used(command_queue)' > 0 => Used(command_queue) > 0
    BY <1>36 DEF ProcessEventCommands, noDebugStep, queueVars
  <2>4. e = "Helper" /\ pc'[e] \in Past /\ pc[e] \notin Past /\ closes = 0 =>
           ~(Used(command_queue)' > 0)
    BY <1>36 DEF ProcessEventCommands, Go, noDebugStep, Types, PlaceTypes, Executor, Past
  <2> QED BY <1>36, <2>1, <2>2, <2>3, <2>4, NoticeAfterExecutor
<1>37. ASSUME NEW e \in Executor, PostponeBreak(e) PROVE Noticed'
  <2>1. ExecutorStep(e)
    BY <1>37 DEF ExecutorStep
  <2>2. pc'[e] \in (Inside \ {"exit"}) \cup Outside
    BY <1>37 DEF PostponeBreak, Go, Continue, Types, PlaceTypes, Executor, Inside, Outside
  <2>3. Used(command_queue)' > 0 => Used(command_queue) > 0
    BY <1>37 DEF PostponeBreak, noDebugStep, queueVars
  <2>4. e = "Helper" /\ pc'[e] \in Past /\ pc[e] \notin Past /\ closes = 0 =>
           ~(Used(command_queue)' > 0)
    BY <1>37 DEF PostponeBreak, Go, Continue, noDebugStep, Types, PlaceTypes, Executor, Past
  <2> QED BY <1>37, <2>1, <2>2, <2>3, <2>4, NoticeAfterExecutor
<1>38. ASSUME NEW e \in Executor, RequestRecorded(e) PROVE Noticed'
  <2>1. ExecutorStep(e)
    BY <1>38 DEF ExecutorStep
  <2>2. pc'[e] \in (Inside \ {"exit"}) \cup Outside
    BY <1>38 DEF RequestRecorded, Go, RequestPending, Request, Types, PlaceTypes, Executor, Inside,
       Outside
  <2>3. Used(command_queue)' > 0 => Used(command_queue) > 0
    BY <1>38 DEF RequestRecorded, noDebugStep, queueVars
  <2>4. e = "Helper" /\ pc'[e] \in Past /\ pc[e] \notin Past /\ closes = 0 =>
           ~(Used(command_queue)' > 0)
    BY <1>38 DEF RequestRecorded, Go, RequestPending, Request, noDebugStep, Types, PlaceTypes,
       Executor, Past
  <2> QED BY <1>38, <2>1, <2>2, <2>3, <2>4, NoticeAfterExecutor
<1>39. ASSUME NEW e \in Executor, CheckCommands(e) PROVE Noticed'
  <2>1. /\ UNCHANGED <<closes, sem, doing, command_queue>> /\ pc[e] = "recheck"
        /\ pc' = [pc EXCEPT ![e] = "exit"]
        /\ flags' = [flags EXCEPT ![e] = @ \cup (IF HasCommands THEN {"DEBUGCOMMAND"} ELSE {})]
    BY <1>39 DEF CheckCommands, Go, Request, noDebugStep, queueVars, handlerVars, helperVars
  <2> SUFFICES ASSUME closes = 0, Used(command_queue) > 0
               PROVE  /\ Announced' \/ WillLook'
                      /\ pc'["Helper"] \in Past => AnnouncedOrWoken'
    BY <2>1 DEF Noticed, AnnouncedOrWoken
  <2>2. AnnouncedOrWoken'
    <3>1. CASE e = "VM"
      BY <1>0, <2>1, <3>1 DEF AnnouncedOrWoken, Types, FlagTypes, Executor
    <3>2. CASE e = "Helper"
      <4>1. AnnouncedOrWoken
        BY <2>1, <3>2 DEF Noticed, Past, AnnouncedOrWoken
      <4>2. flags'["VM"] = flags["VM"]
        BY <2>1, <3>2 DEF Types, FlagTypes, Executor
      <4> QED BY <2>1, <4>1, <4>2 DEF AnnouncedOrWoken, Announced
    <3> QED BY <1>39, <3>1, <3>2 DEF Executor
  <2>3. Announced' \/ WillLook'
    BY <2>2 DEF AnnouncedOrWoken, WillLook
  <2> QED BY <2>2, <2>3
<1>40. ASSUME NEW e \in Executor, ExitDebugger(e) PROVE Noticed'
  <2>1. /\ UNCHANGED <<closes, sem, doing, command_queue, flags>> /\ pc[e] = "exit"
        /\ pc' = [pc EXCEPT ![e] = IF e = "VM" THEN "js" ELSE "unlocking"]
    BY <1>40 DEF ExitDebugger, Go, noDebugStep, queueVars, handlerVars, helperVars
  <2> SUFFICES ASSUME closes = 0, Used(command_queue) > 0
               PROVE  /\ Announced' \/ WillLook'
                      /\ pc'["Helper"] \in Past => AnnouncedOrWoken'
    BY <2>1 DEF Noticed, AnnouncedOrWoken
  <2>2. CASE e = "VM"
    <3>1. pc["Helper"] \in {"asleep", "woken", "locking"}
      BY <2>1, <2>2 DEF LockInv
    <3>2. pc'["Helper"] = pc["Helper"] /\ pc["Helper"] \notin Past
      BY <2>1, <2>2, <3>1 DEF Types, PlaceTypes, Executor, Past
    <3>3. Announced \/ "DEBUGCOMMAND" \in flags["VM"] \/ sem > 0 \/ pc["Helper"] \in {"woken", "locking"}
      BY <2>1, <2>2, <3>1 DEF Noticed, WillLook, Executor, Inside, Outside
    <3> QED BY <2>1, <3>2, <3>3 DEF WillLook, Announced
  <2>3. CASE e = "Helper"
    <3>1. AnnouncedOrWoken
      BY <2>1, <2>3 DEF Noticed, Past, AnnouncedOrWoken
    <3>2. AnnouncedOrWoken'
      BY <2>1, <3>1 DEF AnnouncedOrWoken, Announced
    <3> QED BY <3>2 DEF AnnouncedOrWoken, WillLook
  <2> QED BY <1>40, <2>2, <2>3 DEF Executor
<1>41. ASSUME NEW e \in Executor, PreemptionWhileInDebugger(e) PROVE Noticed'
  <2>1. ExecutorStep(e)
    BY <1>41 DEF ExecutorStep
  <2>2. pc'[e] \in (Inside \ {"exit"}) \cup Outside
    BY <1>41 DEF PreemptionWhileInDebugger, Continue, noDebugStep, Types, PlaceTypes, Executor,
       Inside, Outside
  <2>3. Used(command_queue)' > 0 => Used(command_queue) > 0
    BY <1>41 DEF PreemptionWhileInDebugger, noDebugStep, queueVars
  <2>4. e = "Helper" /\ pc'[e] \in Past /\ pc[e] \notin Past /\ closes = 0 =>
           ~(Used(command_queue)' > 0)
    BY <1>41 DEF PreemptionWhileInDebugger, Continue, noDebugStep, Types, PlaceTypes, Executor, Past
  <2> QED BY <1>41, <2>1, <2>2, <2>3, <2>4, NoticeAfterExecutor
<1>42. ASSUME NEW c \in Client, CallMessageDispatchHandler(c) PROVE Noticed'
  BY <1>42 DEF CallMessageDispatchHandler
<1> QED BY <1>1, <1>2, <1>3, <1>4, <1>5, <1>6, <1>7, <1>8, <1>9, <1>10, <1>11, <1>12, <1>13, <1>14,
   <1>15, <1>16, <1>17, <1>18, <1>19, <1>20, <1>21, <1>22, <1>23, <1>24, <1>25, <1>26, <1>27, <1>28,
   <1>29, <1>30, <1>31, <1>32, <1>33, <1>34, <1>35, <1>36, <1>37, <1>38, <1>39, <1>40, <1>41, <1>42 DEF
   Next, ClientStep, VMStep, HelperStep, ExecutorStep

\* The embedder has asked for a helper thread or it has not.
LEMMA HelperFrame ==
  ASSUME Types, Next PROVE helper' = helper
<1>1. ASSUME NEW c \in Sender, ProcessCommand(c) \/ DebugBreak(c) \/ EnqueueDebugCommand(c)
      PROVE  helper' = helper
  BY <1>1 DEF ProcessCommand, DebugBreak, EnqueueDebugCommand, handlerVars
<1>2. ASSUME NEW c \in Closer, OpenDebugger(c) \/ CloseDebugger(c) PROVE helper' = helper
  BY <1>2 DEF OpenDebugger, CloseDebugger
<1>3. ASSUME NEW c \in Client, ClientStep(c) PROVE helper' = helper
  BY <1>3, ClientFrame
<1>4. ASSUME NEW e \in Executor, ExecutorStep(e) PROVE helper' = helper
  BY <1>4, ExecutorFrame
<1>5. CASE \/ RequestPreemption \/ OnException \/ DebugBreakHelper \/ ClearDebugBreak
           \/ Preempt \/ Relock
  BY <1>5 DEF RequestPreemption, OnException, DebugBreakHelper, ClearDebugBreak, Preempt, Relock,
     noDebugStep, handlerVars
<1>6. CASE HelperWake \/ HelperReset \/ HelperLock \/ HelperUnlock
  BY <1>6 DEF HelperWake, HelperReset, HelperLock, HelperUnlock, noDebugStep, handlerVars
<1> QED BY <1>1, <1>2, <1>3, <1>4, <1>5, <1>6 DEF Next, VMStep, HelperStep

\* NoticeInv is preserved by every step.
LEMMA NoticeNext ==
  ASSUME Types, Types', QueueInv, CloseInv, PermitInv, LockInv, WakeInv, NoticeInv, Next
  PROVE  NoticeInv'
<1>1. helper' = helper
  BY HelperFrame
<1>2. helper => Noticed'
  BY NoticedNext DEF NoticeInv
<1> QED BY <1>1, <1>2 DEF NoticeInv

---------------------------------------------------------------------------
(* The invariant and what follows from it.                                    *)

\* The invariant holds initially.
LEMMA InitInv == Init => IInv
<1> SUFFICES ASSUME Init PROVE IInv
  OBVIOUS
<1>1. Types
  <2>1. PlaceTypes
    BY DEF Init, PlaceTypes, Place, Inside, Outside, Executor
  <2>2. FlagTypes
    BY DEF Init, FlagTypes
  <2>3. ClientTypes
    BY DEF Init, ClientTypes
  <2>4. NumberTypes
    <3>1. MaxCalls \in Nat /\ MaxEvents \in Nat
      BY BoundAssumption
    <3>2. /\ command_received = 0 /\ sent = 0 /\ got = 0 /\ events = 0 /\ closes = 0 /\ sem = 0
      BY DEF Init
    <3> QED BY <3>1, <3>2 DEF NumberTypes
  <2>5. SwitchTypes
    BY DEF Init, SwitchTypes, Executor
  <2> QED BY <2>1, <2>2, <2>3, <2>4, <2>5 DEF Types
<1>2. /\ IsRing(command_queue) /\ command_queue.start = 0 /\ command_queue.end = 0
      /\ sent = 0 /\ got = 0 /\ command_received = 0
  BY SizeAssumption DEF Init, EmptyRing, IsRing
<1>3. Used(command_queue) = 0
  BY <1>2, RingNumbers
<1>4. QueueInv
  BY <1>2, <1>3 DEF QueueInv
<1>5. CloseInv
  <2>1. MaxCalls \in Nat
    BY BoundAssumption
  <2>2. sent = 0 /\ \A c \in Client : doing[c] = "idle"
    BY DEF Init
  <2>3. message_handler
    BY DEF Init
  <2> QED BY <2>1, <2>2, <2>3 DEF CloseInv
<1>6. PermitInv
  <2>1. Signalling = {} /\ Getting = {}
    BY DEF Init, Signalling, Getting
  <2> QED BY <1>2, <1>3, <2>1, FS_EmptySet DEF PermitInv
<1>7. LockInv
  BY DEF Init, LockInv, Inside, Executor
<1>8. WakeInv
  BY DEF Init, WakeInv, Posting, Executor
<1>9. NoticeInv
  BY <1>3 DEF NoticeInv, Noticed
<1> QED BY <1>1, <1>4, <1>5, <1>6, <1>7, <1>8, <1>9 DEF IInv

\* The invariant is preserved by every step.
LEMMA Step == IInv /\ [Next]_vars => IInv'
<1> SUFFICES ASSUME IInv, [Next]_vars PROVE IInv'
  OBVIOUS
<1>1. CASE Next
  <2>1. Types'
    BY <1>1, TypesNext DEF IInv
  <2>2. QueueInv' /\ CloseInv' /\ PermitInv' /\ LockInv' /\ WakeInv'
    BY <1>1, QueueNext, CloseNext, PermitNext, LockNext, WakeNext DEF IInv
  <2>3. NoticeInv'
    BY <1>1, <2>1, NoticeNext DEF IInv
  <2> QED BY <2>1, <2>2, <2>3 DEF IInv
<1>2. CASE UNCHANGED vars
  <2> USE <1>2 DEF vars, queueVars, handlerVars, lockVars, threadVars, breakVars, helperVars
  <2>1. Types'
    BY DEF IInv, Types, PlaceTypes, FlagTypes, ClientTypes, NumberTypes, SwitchTypes
  <2>2. QueueInv' /\ CloseInv'
    BY DEF IInv, QueueInv, CloseInv
  <2>3. PermitInv' /\ LockInv' /\ WakeInv'
    BY DEF IInv, PermitInv, Signalling, Getting, LockInv, WakeInv, Posting
  <2>4. NoticeInv'
    BY DEF IInv, NoticeInv, Noticed, Announced, WillLook
  <2> QED BY <2>1, <2>2, <2>3, <2>4 DEF IInv
<1> QED BY <1>1, <1>2

\* The inductive invariant, of which the properties are consequences.
THEOREM DebuggerInvariant == Spec => []IInv
<1>1. IInv /\ [Next]_vars => IInv'
  BY Step
<1> QED BY <1>1, InitInv, PTL DEF Spec

\* The numbers in the queue are the ones after those that were taken.
LEMMA OrderOfQueue ==
  ASSUME IInv PROVE CommandsInOrder
<1> DEFINE q == command_queue
           n == sent - got
<1>1. Len(Contents(q)) = n
  BY RingEmpty DEF IInv, QueueInv
<1>2. \A i \in 1 .. n : Contents(q)[i].id = got + i
  BY DEF IInv, QueueInv
<1>3. [i \in 1 .. Len(Contents(q)) |-> Contents(q)[i].id] = [i \in 1 .. n |-> got + i]
  <2> HIDE DEF q, n
  <2> QED BY <1>1, <1>2
<1> QED BY <1>3 DEF CommandsInOrder

\* Commands are taken in the order in which they were sent, however often the
\* ring wraps and grows (debug.cc:3057-3080).
THEOREM CommandsStayInOrder == Spec => []CommandsInOrder
<1>1. IInv => CommandsInOrder
  BY OrderOfQueue
<1> QED BY <1>1, DebuggerInvariant, PTL

\* The entries of the queue are commands.
LEMMA TypesOfQueue ==
  ASSUME IInv
  PROVE  \A i \in 1 .. Len(Contents(command_queue)) : Contents(command_queue)[i] \in Command
<1> DEFINE q == command_queue
<1> SUFFICES ASSUME NEW i \in 1 .. Len(Contents(q)) PROVE Contents(q)[i] \in Command
  OBVIOUS
<1>1. IsRing(q) /\ Used(q) = sent - got /\ Used(q) = Len(Contents(q))
  BY RingEmpty DEF IInv, QueueInv
<1>2. i \in 1 .. Used(q)
  BY <1>1
<1>3. Contents(q)[i].id = got + i /\ Contents(q)[i] \in [kind : {"request", "empty"}, id : Nat]
  BY <1>2 DEF IInv, QueueInv
<1>4. sent \in Nat /\ got \in Nat /\ MaxCalls \in Nat /\ sent <= MaxCalls
  BY BoundAssumption DEF IInv, Types, NumberTypes, CloseInv
<1> HIDE DEF q
<1>5. got + i \in 1 .. MaxCalls
  BY <1>1, <1>2, <1>4
<1> QED BY <1>3, <1>5 DEF Command

\* The other conjuncts of the type invariant.
LEMMA TypesOfVariables ==
  ASSUME IInv PROVE TypeOK
<1>1. \A i \in 1 .. Len(Contents(command_queue)) : Contents(command_queue)[i] \in Command
  BY TypesOfQueue
<1>2. PlaceTypes /\ FlagTypes /\ ClientTypes /\ NumberTypes /\ SwitchTypes
  BY DEF IInv, Types
<1>3. \A e \in Executor : pc[e] \in Inside \cup Outside \cup
         (IF e = "VM" THEN {"js", "unlocked"} ELSE {"asleep", "woken", "locking", "unlocking"})
  BY <1>2 DEF PlaceTypes, Place
<1>4. doing \in [Client -> {"idle", "signal", "interrupt", "request", "schedule", "post",
                           "close", "interrupt for event", "request for event"}]
  BY <1>2 DEF ClientTypes, Announcement
<1>5. sem \in 0 .. 1
  BY <1>2 DEF NumberTypes
<1> QED BY <1>1, <1>2, <1>3, <1>4, <1>5 DEF TypeOK, FlagTypes, ClientTypes, NumberTypes, SwitchTypes

\* For every command in the queue there is a permit on its way or taken, so
\* that Get never finds the queue empty (ASSERT at debug.cc:3051).
THEOREM PermitsMatch == Spec => []PermitsMatchCommands
<1>1. IInv => PermitsMatchCommands
  <2> SUFFICES ASSUME IInv PROVE PermitsMatchCommands
    OBVIOUS
  <2>1. TypeOK
    BY TypesOfVariables
  <2>2. Len(Contents(command_queue)) = Used(command_queue)
    BY RingEmpty DEF IInv, QueueInv
  <2>3. Used(command_queue) = command_received + Cardinality(Signalling) + Cardinality(Getting)
    BY DEF IInv, PermitInv
  <2> QED BY <2>1, <2>2, <2>3 DEF PermitsMatchCommands, Signalling, Getting
<1> QED BY <1>1, DebuggerInvariant, PTL

\* Only the thread that holds the V8 lock, with its data in the isolate, is
\* inside the debugger (ASSERTs at debug.h:856-857).
THEOREM OnlyLockHolderInside == Spec => []InsideHoldsLock
<1>1. IInv => InsideHoldsLock
  BY DEF IInv, Types, PlaceTypes, LockInv, InsideHoldsLock, Executor, Inside
<1> QED BY <1>1, DebuggerInvariant, PTL

\* Where there is a helper thread, a command that was announced is never left
\* with nobody to look at it, for any number of clients (debug.cc:2709-2740,
\* 3131-3155).
THEOREM CommandsNoticed == Spec => []CommandsGetProcessed
<1>1. IInv => CommandsGetProcessed
  <2> SUFFICES ASSUME IInv, helper, HasCommands, closes = 0, \A c \in Client : doing[c] = "idle"
               PROVE  WillLook
    BY DEF CommandsGetProcessed, CommandsRequested
  <2>1. Used(command_queue) > 0
    BY RingEmpty, UsedIs DEF IInv, QueueInv, HasCommands, IsRing
  <2>2. ~Announced
    BY DEF Announced, Announcement
  <2> QED BY <2>1, <2>2 DEF IInv, NoticeInv, Noticed
<1> QED BY <1>1, DebuggerInvariant, PTL
=============================================================================
