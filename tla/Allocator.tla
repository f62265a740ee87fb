----------------------------- MODULE Allocator ------------------------------
(* What a heap promises: the blocks it has given out occupy disjoint       *)
(* memory, stay where they are, and come back one at a time.               *)
CONSTANT Cells  \* the units of memory

VARIABLE blocks \* the blocks in use, each the set of its cells

Init == blocks = {}

Malloc ==
    \E b \in blocks' :
        /\ b # {} /\ b \subseteq Cells
        /\ \A c \in blocks : b \cap c = {}
        /\ blocks' = blocks \cup {b}

Free == \E b \in blocks : blocks' = blocks \ {b}

Spec == Init /\ [][Malloc \/ Free]_blocks
=============================================================================
