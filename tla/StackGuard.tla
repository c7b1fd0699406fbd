----------------------------- MODULE StackGuard -----------------------------
(* The StackGuard of an isolate (execution.h, execution.cc): the interrupt   *)
(* flags and the stack limit that generated code compares the stack pointer  *)
(* with.  The two limit pairs (JavaScript and C++) are equal outside the     *)
(* simulator, so one pair is kept.  Every operator maps one value of         *)
(* StackGuard::ThreadLocal to the next; who applies it, and under which      *)
(* lock, is said by the modules that extend this one.                        *)
EXTENDS Integers

CONSTANTS Address,          \* the real stack limits a thread can have
          kInterruptLimit,  \* makes every stack check fail
          kIllegalLimit     \* no limit has been set up

ASSUME LimitsAssumption == /\ kInterruptLimit \notin Address
                           /\ kIllegalLimit \notin Address
                           /\ kInterruptLimit # kIllegalLimit

InterruptFlag == {"INTERRUPT", "DEBUGBREAK", "DEBUGCOMMAND", "PREEMPT", "TERMINATE"}

Limit == Address \cup {kInterruptLimit, kIllegalLimit}

ThreadLocal == [flags : SUBSET InterruptFlag,    \* interrupt_flags_
                postpone : Int,                  \* postpone_interrupts_nesting_
                limit : Limit,                   \* jslimit_, climit_
                real : Address \cup {kIllegalLimit}]

\* ThreadLocal::Clear, and the blank value ArchiveStackGuard leaves behind.
Cleared == [flags |-> {}, postpone |-> 0, limit |-> kIllegalLimit, real |-> kIllegalLimit]

set_interrupt_limits(g) ==
  IF g.postpone > 0 THEN g ELSE [g EXCEPT !.limit = kInterruptLimit]

reset_limits(g) == [g EXCEPT !.limit = g.real]

\* Interrupt, Preempt, TerminateExecution, DebugBreak and DebugCommand.
Request(g, flag) == set_interrupt_limits([g EXCEPT !.flags = @ \cup {flag}])

FaultyEnableInterrupts(g) == g
EnableInterrupts(g) == IF g.flags # {} THEN set_interrupt_limits(g) ELSE g

Continue(g, flag) ==
  LET h == [g EXCEPT !.flags = @ \ {flag}]
  IN  IF h.postpone = 0 /\ h.flags = {} THEN reset_limits(h) ELSE h

\* A limit that does not stand for the real one is left to its meaning.
SetStackLimit(g, a) ==
  [g EXCEPT !.limit = IF @ = g.real THEN a ELSE @, !.real = a]

\* ThreadLocal::Initialize; base is where this thread's stack would end.
Initialize(g, base) ==
  [flags    |-> {},
   postpone |-> 0,
   limit    |-> IF g.real = kIllegalLimit THEN base ELSE g.limit,
   real     |-> IF g.real = kIllegalLimit THEN base ELSE g.real]

\* stored is kIllegalLimit for a thread that has no stored limit.
InitThread(g, base, stored) ==
  LET h == Initialize(g, base)
  IN  IF stored = kIllegalLimit THEN h ELSE SetStackLimit(h, stored)

\* Heap::SetStackLimits copies the limits into the root array that x64 code
\* reads; InitThread does so only when Initialize has set them.
Roots(g) == [limit |-> g.limit, real |-> g.real]

RootsAfterInitThread(roots, g, base) ==
  IF g.real = kIllegalLimit THEN Roots(Initialize(g, base)) ELSE roots
=============================================================================
