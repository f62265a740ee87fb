--------------------------- MODULE MCThreadStart ---------------------------
(* Instances of ThreadStart: main and idle, and PCBs a to d to create.     *)
(* Four are needed for thread_start to meet a thread it just appended      *)
(* blocked on pid_lock; all have the same time slice, so they may be       *)
(* exchanged for one another.                                              *)
EXTENDS ThreadStart, TLC

CONSTANTS a, b, c, d

MCPriority == [t \in Threads |-> 0]

PcbSymmetry == Permutations({a, b, c, d})
=============================================================================
