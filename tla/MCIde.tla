------------------------------- MODULE MCIde --------------------------------
(* Worker thread a beside main and idle.                                   *)
EXTENDS Ide

CONSTANT a

MCPriority == [t \in Threads |-> IF t = Idle THEN 0 ELSE 1]
=============================================================================
