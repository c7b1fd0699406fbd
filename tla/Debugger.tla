------------------------------ MODULE Debugger ------------------------------
(* How commands reach the debugger (debug.h, debug.cc, execution.cc).         *)
(* Clients queue commands from threads of their own and interrupt JavaScript; *)
(* the VM thread, or the dispatch helper when the VM has let go of the V8     *)
(* lock, enters the debugger, processes what is queued and leaves.  A client  *)
(* may close the debugger at any moment.  Debugger data and stack guard of a  *)
(* thread that is not live are archived.  The embedder has asked for a helper *)
(* thread, or it has not, before clients send; the helper's dispatch handler  *)
(* is v8::Debug::ProcessDebugMessages.  Without a helper a dispatch handler,  *)
(* the message handler and the C listener return; a debugger is entered once, *)
(* not recursively.                                                           *)
EXTENDS CommandQueue, FiniteSets

CONSTANTS Sender,      \* threads that send commands and request breaks
          Closer,      \* threads that open and close the debugger
          NoClient,
          Listening,   \* event_listener_ is set
          MaxCalls,    \* bounds the commands sent and how often it is closed
          MaxEvents    \* bounds event_command_queue_

Client == Sender \cup Closer

ASSUME ClientAssumption == NoClient \notin Client
ASSUME BoundAssumption == Listening \in BOOLEAN /\ MaxCalls \in Nat /\ MaxEvents \in Nat

Executor == {"VM", "Helper"}
Interrupt == {"DEBUGBREAK", "DEBUGCOMMAND", "PREEMPT"}
Pending == {"DEBUGBREAK", "PREEMPT"}

VARIABLES
  command_queue,
  command_received,    \* the permits of the semaphore
  events,              \* the length of event_command_queue_
  message_handler,     \* message_handler_ is set
  helper,              \* there is a message_dispatch_helper_thread_
  debugger_access,     \* the client that holds debugger_access_
  owner,               \* who holds the V8 lock
  live,                \* whose data the isolate holds
  flags,               \* interrupt flags of a thread's stack guard
  pending,             \* pending_interrupts_ of a thread
  entered,             \* the threads whose debugger_entry_ is set
  pc,                  \* where an executor is
  break_event,         \* the event being processed is v8::Break
  auto_continue, running,
  sem, already_signalled,  \* of the MessageDispatchHelperThread
  doing,               \* where a client is
  sent, got, closes

queueVars == <<command_queue, command_received, sent, got>>
handlerVars == <<message_handler, helper, closes>>
lockVars == <<owner, live>>
threadVars == <<flags, pending, entered>>
breakVars == <<break_event, auto_continue, running>>
helperVars == <<sem, already_signalled>>
vars == <<queueVars, events, handlerVars, debugger_access, lockVars, threadVars, pc,
          breakVars, helperVars, doing>>

Command == [kind : {"request", "empty"}, id : 1 .. MaxCalls]

Inside == {"active", "process", "notify", "event", "poll", "wait", "get", "check", "respond",
           "again", "events", "leave", "rerequest", "recheck", "exit"}
Outside == {"clearbreak", "clearcommand", "enter"}

Init ==
  /\ command_queue = EmptyRing(kQueueInitialSize) /\ command_received = 0
  /\ events = 0
  /\ message_handler = TRUE /\ helper \in BOOLEAN /\ closes = 0
  /\ debugger_access = NoClient
  /\ owner = "VM" /\ live = "VM"
  /\ flags = [e \in Executor |-> {}] /\ pending = [e \in Executor |-> {}] /\ entered = {}
  /\ pc = [e \in Executor |-> IF e = "VM" THEN "js" ELSE "asleep"]
  /\ break_event = FALSE /\ auto_continue = FALSE /\ running = FALSE
  /\ sem = 0 /\ already_signalled = FALSE
  /\ doing = [c \in Client |-> "idle"]
  /\ sent = 0 /\ got = 0

InDebugger == live \in entered
Active == message_handler \/ Listening
AccessFree == debugger_access = NoClient
HasCommands == ~IsEmpty(command_queue)

Go(e, from, to) == pc[e] = from /\ pc' = [pc EXCEPT ![e] = to]
Does(c, from, to) == doing[c] = from /\ doing' = [doing EXCEPT ![c] = to]
Request(e, what) == flags' = [flags EXCEPT ![e] = @ \cup what]
Continue(e, what) == flags' = [flags EXCEPT ![e] = @ \ what]

PutCommand(kind) ==
  /\ command_queue' = Put(command_queue, [kind |-> kind, id |-> sent + 1])
  /\ sent' = sent + 1
  /\ UNCHANGED got

---------------------------------------------------------------------------
(* Clients: SendCommand, SetMessageHandler, DebugBreak, DebugBreakForCommand. *)

ProcessCommand(c) ==
  /\ sent + closes < MaxCalls
  /\ Does(c, "idle", "signal")
  /\ PutCommand("request")
  /\ UNCHANGED <<command_received, events, handlerVars, debugger_access, lockVars,
                 threadVars, pc, breakVars, helperVars>>

SignalReceived(c) ==
  /\ Does(c, "signal", "interrupt")
  /\ command_received' = command_received + 1
  /\ UNCHANGED <<command_queue, sent, got, events, handlerVars, debugger_access, lockVars,
                 threadVars, pc, breakVars, helperVars>>

\* The debugger is asked for without a lock, before the interrupt is set.
CheckInDebugger(c, from, to, otherwise) ==
  /\ Does(c, from, IF InDebugger THEN otherwise ELSE to)
  /\ UNCHANGED <<queueVars, events, handlerVars, debugger_access, lockVars, threadVars,
                 pc, breakVars, helperVars>>

DebugCommand(c, from, to) ==
  /\ Does(c, from, to)
  /\ Request(live, {"DEBUGCOMMAND"})
  /\ UNCHANGED <<queueVars, events, handlerVars, debugger_access, lockVars, pending,
                 entered, pc, breakVars, helperVars>>

\* The end of ProcessCommand; SetMessageHandler, if it called it, lets go.
Release(c) == IF debugger_access = c THEN NoClient ELSE debugger_access

\* Without a helper thread, the default, nobody is woken.
CallMessageDispatchHandler(c) ==
  /\ ~helper
  /\ Does(c, "schedule", "idle")
  /\ debugger_access' = Release(c)
  /\ UNCHANGED <<queueVars, events, handlerVars, lockVars, threadVars, pc, breakVars,
                 helperVars>>

Scheduled == already_signalled

Schedule(c) ==
  /\ helper
  /\ Does(c, "schedule", IF Scheduled THEN "idle" ELSE "post")
  /\ already_signalled' = TRUE
  /\ debugger_access' = IF Scheduled THEN Release(c) ELSE debugger_access
  /\ UNCHANGED <<queueVars, events, handlerVars, lockVars, threadVars, pc, breakVars, sem>>

PostHelper(c) ==
  /\ Does(c, "post", "idle")
  /\ sem' = sem + 1
  /\ debugger_access' = Release(c)
  /\ UNCHANGED <<queueVars, events, handlerVars, lockVars, threadVars, pc, breakVars,
                 already_signalled>>

OpenDebugger(c) ==
  /\ doing[c] = "idle" /\ AccessFree /\ ~message_handler
  /\ message_handler' = TRUE
  /\ UNCHANGED <<queueVars, events, helper, closes, debugger_access, lockVars, threadVars,
                 pc, breakVars, helperVars, doing>>

CloseDebugger(c) ==
  /\ sent + closes < MaxCalls /\ message_handler /\ AccessFree
  /\ Does(c, "idle", "close")
  /\ debugger_access' = c /\ message_handler' = FALSE /\ closes' = closes + 1
  /\ UNCHANGED <<queueVars, events, helper, lockVars, threadVars, pc, breakVars,
                 helperVars>>

\* An empty command, if in a break, to make JavaScript run again.
FaultySendEmpty(c) ==
  /\ Does(c, "close", "idle")
  /\ debugger_access' = NoClient
  /\ UNCHANGED queueVars
SendEmpty(c) ==
  /\ Does(c, "close", IF InDebugger THEN "signal" ELSE "idle")
  /\ IF InDebugger THEN PutCommand("empty") /\ UNCHANGED <<command_received, debugger_access>>
     ELSE debugger_access' = NoClient /\ UNCHANGED queueVars

FinishClose(c) ==
  /\ SendEmpty(c)
  /\ UNCHANGED <<events, handlerVars, lockVars, threadVars, pc, breakVars, helperVars>>

DebugBreak(c) ==
  /\ doing[c] = "idle"
  /\ Request(live, {"DEBUGBREAK"})
  /\ UNCHANGED <<queueVars, events, handlerVars, debugger_access, lockVars, pending,
                 entered, pc, breakVars, helperVars, doing>>

EnqueueDebugCommand(c) ==
  /\ events < MaxEvents
  /\ Does(c, "idle", "interrupt for event")
  /\ events' = events + 1
  /\ UNCHANGED <<queueVars, handlerVars, debugger_access, lockVars, threadVars, pc, breakVars,
                 helperVars>>

ClientStep(c) ==
  \/ SignalReceived(c)
  \/ CheckInDebugger(c, "interrupt", "request", "schedule")
  \/ DebugCommand(c, "request", "schedule")
  \/ CallMessageDispatchHandler(c) \/ Schedule(c) \/ PostHelper(c) \/ FinishClose(c)
  \/ CheckInDebugger(c, "interrupt for event", "request for event", "idle")
  \/ DebugCommand(c, "request for event", "idle")

\* The ContextSwitcher interrupts whoever is live.  Only JavaScript notices, so
\* the request is made where it runs.
RequestPreemption ==
  /\ pc[live] \in {"js", "process", "respond", "rerequest"}
  /\ Request(live, {"PREEMPT"})
  /\ UNCHANGED <<queueVars, events, handlerVars, debugger_access, lockVars, pending,
                 entered, pc, breakVars, helperVars, doing>>

---------------------------------------------------------------------------
(* The VM thread outside the debugger.                                        *)

noDebugStep == <<queueVars, events, handlerVars, debugger_access, helperVars, doing>>

\* HandleStackGuardInterrupt and DebugBreakHelper: the debugger's interrupts
\* come first, and which there were is collected before they are cleared.
DebugBreakHelper ==
  /\ flags["VM"] \cap {"DEBUGBREAK", "DEBUGCOMMAND"} # {}
  /\ Go("VM", "js", "clearbreak")
  /\ auto_continue' = ("DEBUGBREAK" \notin flags["VM"])
  /\ break_event' = TRUE
  /\ UNCHANGED <<noDebugStep, lockVars, threadVars, running>>

\* RuntimePreempt outside the debugger lets go of the lock.
Preempt ==
  /\ "PREEMPT" \in flags["VM"]
  /\ Go("VM", "js", "unlocked")
  /\ Continue("VM", {"PREEMPT"}) /\ owner' = "None"
  /\ UNCHANGED <<noDebugStep, live, pending, entered, breakVars>>

\* The helper's stack guard is overwritten with the archived one.
Relock ==
  /\ owner = "None"
  /\ Go("VM", "unlocked", "js")
  /\ owner' = "VM" /\ live' = "VM"
  /\ flags' = [flags EXCEPT !["Helper"] = {}]
  /\ UNCHANGED <<noDebugStep, pending, entered, breakVars>>

\* JavaScript throws and breaks on exceptions are on.
OnException ==
  /\ AccessFree /\ Active
  /\ Go("VM", "js", "enter")
  /\ break_event' = FALSE /\ auto_continue' = FALSE
  /\ UNCHANGED <<noDebugStep, lockVars, threadVars, running>>

ClearDebugBreak ==
  /\ Go("VM", "clearbreak", "clearcommand")
  /\ Continue("VM", {"DEBUGBREAK"})
  /\ UNCHANGED <<noDebugStep, lockVars, pending, entered, breakVars>>

---------------------------------------------------------------------------
(* The dispatch helper thread.                                                *)

\* The wait and the reset of already_signalled_ after it.
HelperWake ==
  /\ sem > 0 /\ sem' = sem - 1
  /\ Go("Helper", "asleep", "woken")
  /\ UNCHANGED <<queueVars, events, handlerVars, debugger_access, lockVars, threadVars,
                 breakVars, already_signalled, doing>>

FaultyResetSignalled == UNCHANGED helperVars
ResetSignalled ==
  /\ already_signalled' = FALSE
  /\ UNCHANGED sem

HelperReset ==
  /\ Go("Helper", "woken", "locking")
  /\ ResetSignalled
  /\ UNCHANGED <<queueVars, events, handlerVars, debugger_access, lockVars, threadVars,
                 breakVars, doing>>

\* The Locker archives the VM's data; the handler calls ProcessDebugMessages.
HelperLock ==
  /\ owner = "None"
  /\ Go("Helper", "locking", "clearcommand")
  /\ owner' = "Helper" /\ live' = "Helper"
  /\ flags' = [flags EXCEPT !["Helper"] = {}]
  /\ pending' = [pending EXCEPT !["Helper"] = {}]
  /\ break_event' = TRUE /\ auto_continue' = TRUE
  /\ UNCHANGED <<noDebugStep, entered, running>>

HelperUnlock ==
  /\ Go("Helper", "unlocking", "asleep")
  /\ owner' = "None"
  /\ flags' = [flags EXCEPT !["Helper"] = {}]
  /\ UNCHANGED <<noDebugStep, live, pending, entered, breakVars>>

---------------------------------------------------------------------------
(* ProcessDebugMesssages, on either thread.                                   *)

ClearDebugCommand(e) ==
  /\ Go(e, "clearcommand", "enter")
  /\ Continue(e, {"DEBUGCOMMAND"})
  /\ UNCHANGED <<noDebugStep, lockVars, pending, entered, breakVars>>

\* EnterDebugger links its entry before anybody asks whether there is a handler.
EnterDebugger(e) ==
  /\ Go(e, "enter", IF break_event THEN "active" ELSE "process")
  /\ entered' = entered \cup {e}
  /\ UNCHANGED <<noDebugStep, lockVars, flags, pending, breakVars>>

\* OnDebugBreak bails out when nobody listens.
EventActive(e) ==
  /\ AccessFree
  /\ Go(e, "active", IF Active THEN "process" ELSE "leave")
  /\ UNCHANGED <<noDebugStep, lockVars, threadVars, breakVars>>

AfterNotify == IF break_event THEN "events" ELSE "leave"

\* A real break clears the pending one; message_handler_ is read without a lock.
ProcessDebugEvent(e) ==
  /\ Go(e, "process", IF message_handler THEN "notify" ELSE AfterNotify)
  /\ pending' = [pending EXCEPT ![e] = IF auto_continue THEN @ ELSE @ \ {"DEBUGBREAK"}]
  /\ UNCHANGED <<noDebugStep, lockVars, flags, entered, breakVars>>

NotifyMessageHandler(e) ==
  /\ Go(e, "notify", IF auto_continue THEN "poll" ELSE "event")
  /\ Continue(e, {"DEBUGCOMMAND"})
  /\ running' = auto_continue
  /\ UNCHANGED <<noDebugStep, lockVars, pending, entered, break_event, auto_continue>>

\* The handler is told of a break that is not for commands only.
SendEventMessage(e) ==
  /\ AccessFree
  /\ Go(e, "event", "wait")
  /\ UNCHANGED <<noDebugStep, lockVars, threadVars, breakVars>>

PollCommands(e) ==
  /\ Go(e, "poll", IF HasCommands THEN "wait" ELSE AfterNotify)
  /\ running' = HasCommands
  /\ UNCHANGED <<noDebugStep, lockVars, threadVars, break_event, auto_continue>>

FaultyWaitForCommand(e) ==
  /\ Go(e, "wait", "get")
  /\ HasCommands \/ command_received > 0
  /\ command_received' = IF HasCommands THEN command_received ELSE command_received - 1
  /\ UNCHANGED <<command_queue, sent, got, events, handlerVars, debugger_access, lockVars,
                 threadVars, breakVars, helperVars, doing>>
WaitForCommand(e) ==
  /\ Go(e, "wait", "get")
  /\ command_received > 0 /\ command_received' = command_received - 1
  /\ UNCHANGED <<command_queue, sent, got, events, handlerVars, debugger_access, lockVars,
                 threadVars, breakVars, helperVars, doing>>

\* What the request does to running is the request's; an empty one fails.
GetCommand(e) ==
  /\ Go(e, "get", "check")
  /\ command_queue' = AfterGet(command_queue) /\ got' = got + 1
  /\ running' \in IF First(command_queue).kind = "empty" THEN {running} ELSE BOOLEAN
  /\ UNCHANGED <<command_received, sent, events, handlerVars, debugger_access, lockVars,
                 threadVars, break_event, auto_continue, helperVars, doing>>

\* With nobody listening the command is disposed of.
CheckActive(e) ==
  /\ AccessFree
  /\ Go(e, "check", IF Active THEN "respond" ELSE AfterNotify)
  /\ running' = (Active /\ running)
  /\ UNCHANGED <<noDebugStep, lockVars, threadVars, break_event, auto_continue>>

Respond(e) ==
  /\ AccessFree
  /\ Go(e, "respond", "again")
  /\ UNCHANGED <<noDebugStep, lockVars, threadVars, breakVars>>

ContinueOrWait(e) ==
  /\ Go(e, "again", IF running /\ ~HasCommands THEN AfterNotify ELSE "wait")
  /\ running' = (HasCommands /\ running)
  /\ UNCHANGED <<noDebugStep, lockVars, threadVars, break_event, auto_continue>>

\* Each command for the event listener is taken in a step of its own.
ProcessEventCommands(e) ==
  /\ Go(e, "events", IF events = 0 THEN "leave" ELSE "events")
  /\ events' = IF events = 0 THEN 0 ELSE events - 1
  /\ UNCHANGED <<queueVars, handlerVars, debugger_access, lockVars, threadVars,
                 breakVars, helperVars, doing>>

\* ~EnterDebugger: a break requested inside must not break in ClearMirrorCache,
\* the JavaScript that runs next.
PostponeBreak(e) ==
  /\ Go(e, "leave", "rerequest")
  /\ pending' = [pending EXCEPT ![e] = @ \cup (flags[e] \cap {"DEBUGBREAK"})]
  /\ Continue(e, {"DEBUGBREAK"})
  /\ UNCHANGED <<noDebugStep, lockVars, entered, breakVars>>

FaultyRequestPending(e) ==
  /\ Request(e, pending[e])
  /\ UNCHANGED pending
RequestPending(e) ==
  /\ Request(e, pending[e])
  /\ pending' = [pending EXCEPT ![e] = {}]

RequestRecorded(e) ==
  /\ Go(e, "rerequest", "recheck")
  /\ RequestPending(e)
  /\ UNCHANGED <<noDebugStep, lockVars, entered, breakVars>>

\* Commands still queued are processed once the debugger has been left.
CheckCommands(e) ==
  /\ Go(e, "recheck", "exit")
  /\ Request(e, IF HasCommands THEN {"DEBUGCOMMAND"} ELSE {})
  /\ UNCHANGED <<noDebugStep, lockVars, pending, entered, breakVars>>

\* The entry is reset last, once debugger_access_ could be taken.
ExitDebugger(e) ==
  /\ AccessFree
  /\ Go(e, "exit", IF e = "VM" THEN "js" ELSE "unlocking")
  /\ entered' = entered \ {e}
  /\ break_event' = FALSE /\ auto_continue' = FALSE
  /\ UNCHANGED <<noDebugStep, lockVars, flags, pending, running>>

\* RuntimePreempt inside, where the debugger runs JavaScript.
PreemptionWhileInDebugger(e) ==
  /\ pc[e] \in {"process", "respond", "rerequest"} /\ "PREEMPT" \in flags[e]
  /\ Continue(e, {"PREEMPT"})
  /\ pending' = [pending EXCEPT ![e] = @ \cup {"PREEMPT"}]
  /\ UNCHANGED <<noDebugStep, lockVars, entered, pc, breakVars>>

ExecutorStep(e) ==
  \/ ClearDebugCommand(e) \/ EnterDebugger(e) \/ EventActive(e) \/ ProcessDebugEvent(e)
  \/ NotifyMessageHandler(e) \/ SendEventMessage(e) \/ PollCommands(e) \/ WaitForCommand(e)
  \/ GetCommand(e) \/ CheckActive(e) \/ Respond(e) \/ ContinueOrWait(e)
  \/ ProcessEventCommands(e) \/ PostponeBreak(e) \/ RequestRecorded(e)
  \/ CheckCommands(e) \/ ExitDebugger(e)
  \/ PreemptionWhileInDebugger(e)

HelperStep == HelperWake \/ HelperReset \/ HelperLock \/ HelperUnlock
VMStep == DebugBreakHelper \/ ClearDebugBreak \/ Preempt \/ Relock

Next ==
  \/ \E c \in Sender : ProcessCommand(c) \/ DebugBreak(c) \/ EnqueueDebugCommand(c)
  \/ \E c \in Closer : OpenDebugger(c) \/ CloseDebugger(c)
  \/ \E c \in Client : ClientStep(c)
  \/ RequestPreemption \/ OnException
  \/ VMStep \/ HelperStep
  \/ \E e \in Executor : ExecutorStep(e)

\* A thread in the middle of a call goes on.
Fairness ==
  /\ \A c \in Client : WF_vars(ClientStep(c))
  /\ WF_vars(VMStep) /\ WF_vars(HelperStep)
  /\ \A e \in Executor : WF_vars(ExecutorStep(e))

Spec == Init /\ [][Next]_vars /\ Fairness

---------------------------------------------------------------------------
(* Properties.                                                               *)

\* The type of every variable (debug.h:765, execution.h:246).
TypeOK ==
  /\ \A i \in 1 .. Len(Contents(command_queue)) : Contents(command_queue)[i] \in Command
  /\ command_received \in Nat /\ sent \in Nat /\ got \in Nat
  /\ events \in 0 .. MaxEvents
  /\ message_handler \in BOOLEAN /\ helper \in BOOLEAN /\ closes \in 0 .. MaxCalls
  /\ debugger_access \in Client \cup {NoClient}
  /\ owner \in Executor \cup {"None"} /\ live \in Executor
  /\ flags \in [Executor -> SUBSET Interrupt] /\ pending \in [Executor -> SUBSET Pending]
  /\ entered \subseteq Executor
  /\ \A e \in Executor : pc[e] \in Inside \cup Outside \cup
       (IF e = "VM" THEN {"js", "unlocked"} ELSE {"asleep", "woken", "locking", "unlocking"})
  /\ break_event \in BOOLEAN /\ auto_continue \in BOOLEAN /\ running \in BOOLEAN
  /\ sem \in 0 .. 1 /\ already_signalled \in BOOLEAN
  /\ doing \in [Client -> {"idle", "signal", "interrupt", "request", "schedule", "post",
                           "close", "interrupt for event", "request for event"}]

\* Every command in the queue has one permit, that a client is about to give,
\* that is in the semaphore or that the debugger has taken: Get never finds
\* the queue empty (ASSERT at debug.cc:3051), and no command is left without
\* somebody to be woken for it.  The variables have their types.
PermitsMatchCommands ==
  /\ TypeOK
  /\ Len(Contents(command_queue)) =
       command_received + Cardinality({c \in Client : doing[c] = "signal"})
                        + Cardinality({e \in Executor : pc[e] = "get"})

\* The queue holds the commands that were sent and not yet taken, in their
\* order, through every wrap and growth of the ring (debug.cc:3057-3080).
CommandsInOrder ==
  LET ids == [i \in 1 .. Len(Contents(command_queue)) |-> Contents(command_queue)[i].id]
  IN  ids = [i \in 1 .. sent - got |-> got + i]

\* Only the thread that holds the V8 lock and whose data is live is inside the
\* debugger, and outside nothing is recorded for later (ASSERTs at
\* debug.h:856-857): a preemption inside never lets another thread enter.
InsideHoldsLock ==
  \A e \in Executor : /\ e \in entered => owner = e /\ live = e
                      /\ e \notin entered => pending[e] = {}

\* Who will look at the queue: a thread in the debugger that has not yet asked
\* for the last time, the VM that is interrupted, or the helper.
WillLook ==
  \/ \E e \in Executor : pc[e] \in (Inside \ {"exit"}) \cup Outside
  \/ "DEBUGCOMMAND" \in flags["VM"]
  \/ sem > 0 \/ pc["Helper"] \in {"woken", "locking"}

\* A command that no client is still announcing is not left in the queue with
\* nobody to process it ("Set the debug command break flag to have the command
\* processed.", debug.cc:2722; "If there are commands in the queue when leaving
\* the debugger request that these commands are processed.", debug.h:919).
CommandsRequested ==
  HasCommands /\ closes = 0 /\ (\A c \in Client : doing[c] = "idle") => WillLook

\* Where there is a helper thread that is true, even of a command that came as
\* the debugger was being left: the client, which was told that somebody is in
\* the debugger and set no flag, has woken the helper (debug.cc:2709-2740,
\* 3131-3155).
CommandsGetProcessed == helper => CommandsRequested

\* Nobody waits for a command from a debugger that was closed: the empty
\* command, or one sent before it, makes JavaScript run again
\* (debug.cc:2649), unless an event listener keeps the debugger active.
ClosedDebuggerLeaves ==
  \A e \in Executor :
    (pc[e] = "wait" /\ ~message_handler /\ ~Listening) ~> (pc[e] # "wait" \/ message_handler)

\* A client command queued by DebugBreakForCommand interrupts the VM, or the
\* VM has yet to look for it ("Break execution of JavaScript (this method can
\* be invoked from a non-VM thread) for further client command execution on a
\* VM thread", include/v8-debug.h:262).
EventCommandsRequested ==
  events > 0 /\ (\A c \in Client : doing[c] = "idle") =>
    \/ "DEBUGCOMMAND" \in flags["VM"]
    \/ \E e \in Executor : pc[e] \in (Inside \ {"leave", "rerequest", "recheck",
                                                 "exit"}) \cup Outside
=============================================================================
