-------------------------- MODULE MCProfilerEvents --------------------------
(* The profiler's queues for TLC: the smallest ring a SamplingCircularQueue   *)
(* may have, three chunks, of two records each.                               *)
EXTENDS ProfilerEvents
=============================================================================
