------------------------------- MODULE MCSync -------------------------------
(* Small instances of Sync for TLC.                                        *)
EXTENDS Sync

CONSTANTS a, b

(* A slice of one tick for main, none for the others: preemption may come  *)
(* at the first tick or at the second.                                     *)
MCPriority == [t \in Threads |-> IF t \in {Main, a} THEN 1 ELSE 0]
=============================================================================
