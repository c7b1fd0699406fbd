----------------------------- MODULE DebuggerInv ----------------------------
(* The inductive invariant of Debugger.                                       *)
EXTENDS Debugger

\* A ring of some size with two positions in it.
IsRing(q) ==
  /\ q = [messages |-> q.messages, start |-> q.start, end |-> q.end, size |-> q.size]
  /\ q.messages = [i \in 0 .. q.size - 1 |-> q.messages[i]]
  /\ q.size \in Nat \ {0, 1} /\ q.start \in 0 .. q.size - 1 /\ q.end \in 0 .. q.size - 1

Place(e) ==
  Inside \cup Outside \cup
    (IF e = "VM" THEN {"js", "unlocked"} ELSE {"asleep", "woken", "locking", "unlocking"})
Announcement == {"signal", "interrupt", "request", "schedule", "post"}

PlaceTypes ==
  pc \in [Executor -> Place("VM") \cup Place("Helper")] /\ \A e \in Executor : pc[e] \in Place(e)
FlagTypes ==
  /\ flags \in [Executor -> SUBSET Interrupt] /\ pending \in [Executor -> SUBSET Pending]
  /\ entered \subseteq Executor
ClientTypes ==
  /\ doing \in [Client -> Announcement \cup {"idle", "close", "interrupt for event",
                                             "request for event"}]
  /\ debugger_access \in Client \cup {NoClient}
NumberTypes ==
  /\ command_received \in Nat /\ sent \in Nat /\ got \in Nat
  /\ events \in 0 .. MaxEvents /\ closes \in 0 .. MaxCalls /\ sem \in {0, 1}
SwitchTypes ==
  /\ owner \in Executor \cup {"None"} /\ live \in Executor
  /\ message_handler \in BOOLEAN /\ helper \in BOOLEAN /\ already_signalled \in BOOLEAN
  /\ break_event \in BOOLEAN /\ auto_continue \in BOOLEAN /\ running \in BOOLEAN
Types == PlaceTypes /\ FlagTypes /\ ClientTypes /\ NumberTypes /\ SwitchTypes

\* The queue is what was sent after what was got.
QueueInv ==
  /\ IsRing(command_queue) /\ Used(command_queue) = sent - got
  /\ \A i \in 1 .. Used(command_queue) :
       /\ Contents(command_queue)[i].id = got + i
       /\ Contents(command_queue)[i] \in [kind : {"request", "empty"}, id : Nat]

\* One client closes the debugger at a time, and there is a number for its command.
CloseInv ==
  /\ sent <= MaxCalls
  /\ \A c \in Client : doing[c] = "close" =>
       debugger_access = c /\ closes > 0 /\ sent < MaxCalls
  /\ closes = 0 => message_handler

Signalling == {c \in Client : doing[c] = "signal"}
Getting == {e \in Executor : pc[e] = "get"}
PermitInv ==
  /\ IsFiniteSet(Signalling)
  /\ Used(command_queue) = command_received + Cardinality(Signalling) + Cardinality(Getting)

\* The lock, the data and the debugger's entry follow the control points, and
\* nothing is pending before the debugger is entered and once it was asked for again.
LockInv ==
  /\ owner = "VM" <=> pc["VM"] # "unlocked"
  /\ owner = "Helper" <=> pc["Helper"] \notin {"asleep", "woken", "locking"}
  /\ owner # "None" => live = owner
  /\ \A e \in Executor : /\ e \in entered <=> pc[e] \in Inside
                         /\ e \notin entered \/ pc[e] \in {"recheck", "exit"} => pending[e] = {}

\* already_signalled_ says that the helper is being woken, by one who does it.
Posting == {c \in Client : doing[c] = "post"}
WakeInv ==
  /\ sem = 1 \/ Posting # {} \/ pc["Helper"] = "woken" => already_signalled
  /\ already_signalled => sem = 1 \/ Posting # {} \/ pc["Helper"] = "woken"
  /\ sem = 1 => Posting = {} /\ pc["Helper"] # "woken"
  /\ Posting # {} => pc["Helper"] # "woken"
  /\ \A c, d \in Posting : c = d

\* With a helper a command in the queue is noticed, or a client is still at announcing it.
\* What the helper leaves in the queue when it is past its last look has come
\* since, so that the helper is woken again.
Announced == \E c \in Client : doing[c] \in Announcement
Past == {"events", "leave", "rerequest", "recheck", "exit", "unlocking"}
Noticed ==
  closes = 0 /\ Used(command_queue) > 0 =>
    /\ Announced \/ WillLook
    /\ pc["Helper"] \in Past => Announced \/ sem = 1 \/ "DEBUGCOMMAND" \in flags["VM"]
NoticeInv == helper => Noticed

IInv == /\ Types /\ QueueInv /\ CloseInv /\ PermitInv /\ LockInv /\ WakeInv /\ NoticeInv
=============================================================================
