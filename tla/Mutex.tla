------------------------------- MODULE Mutex -------------------------------
(***************************************************************************)
(* What a struct lock promises its users: a recursive mutual exclusion     *)
(* lock.  held[t] is how many times thread t holds it.                     *)
(***************************************************************************)
EXTENDS Naturals

CONSTANT Threads

VARIABLE held

Free == \A t \in Threads : held[t] = 0

Init == held = [t \in Threads |-> 0]

Acquire(t) == /\ Free
              /\ held' = [held EXCEPT ![t] = 1]

Reacquire(t) == /\ held[t] > 0
                /\ held' = [held EXCEPT ![t] = @ + 1]

Release(t) == /\ held[t] > 0
              /\ held' = [held EXCEPT ![t] = @ - 1]

Next == \E t \in Threads : Acquire(t) \/ Reacquire(t) \/ Release(t)

Spec == Init /\ [][Next]_held
=============================================================================
