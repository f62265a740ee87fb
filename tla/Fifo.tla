-------------------------------- MODULE Fifo --------------------------------
(***************************************************************************)
(* What an ioqueue promises: a queue of at most Capacity characters, read  *)
(* in the order they were written.  out is the last character read.        *)
(***************************************************************************)
EXTENDS Naturals, Sequences

CONSTANTS Chars, Capacity, NoChar

VARIABLES queue, out

Init == queue = <<>> /\ out = NoChar

Put(c) == /\ Len(queue) < Capacity
          /\ queue' = Append(queue, c)
          /\ UNCHANGED out

Get == /\ queue # <<>>
       /\ queue' = Tail(queue)
       /\ out' = Head(queue)

Next == Get \/ \E c \in Chars : Put(c)

Spec == Init /\ [][Next]_<<queue, out>>
=============================================================================
