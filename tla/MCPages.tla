------------------------------ MODULE MCPages -------------------------------
(* An instance of Pages: two kernel threads and two processes; the heap    *)
(* and the stack of a process have different page tables.                  *)
EXTENDS Pages, TLC

CONSTANTS k, l, p, q

ThreadSymmetry == Permutations({k, l})
=============================================================================
