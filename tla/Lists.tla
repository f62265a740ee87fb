------------------------------- MODULE Lists --------------------------------
(***************************************************************************)
(* kernel/list.c on its links: a record of two functions, prev and next,   *)
(* from the elements of a list, its head and its tail to elements or NULL. *)
(* Each operator is a section with interrupts disabled.                    *)
(***************************************************************************)
EXTENDS Naturals, FiniteSets

CONSTANTS ListHead, ListTail, NULL

list_init(elems) ==
    LET nodes == elems \cup {ListHead, ListTail} IN
    [prev |-> [n \in nodes |-> IF n = ListTail THEN ListHead ELSE NULL],
     next |-> [n \in nodes |-> IF n = ListHead THEN ListTail ELSE NULL]]

(* Mutant: the element before is not led to the new one.                   *)
list_insert_before_unlinked(links, before, elem) ==
    [prev |-> [links.prev EXCEPT ![elem] = links.prev[before], ![before] = elem],
     next |-> [links.next EXCEPT ![elem] = before]]

list_insert_before(links, before, elem) ==
    [prev |-> [links.prev EXCEPT ![elem] = links.prev[before], ![before] = elem],
     next |-> [links.next EXCEPT ![elem] = before, ![links.prev[before]] = elem]]

list_remove(links, pelem) ==
    [prev |-> [links.prev EXCEPT ![links.next[pelem]] = links.prev[pelem]],
     next |-> [links.next EXCEPT ![links.prev[pelem]] = links.next[pelem]]]

(* For comparison: links is a list of exactly the elements elems, and its  *)
(* prev links run through it backwards.                                    *)
IsList(links, elems) ==
    LET n       == Cardinality(elems)
        step(x) == IF x = NULL THEN NULL ELSE links.next[x]
        nth[k \in 0..n + 1] == IF k = 0 THEN ListHead ELSE step(nth[k - 1])
    IN /\ {nth[k] : k \in 1..n} = elems
       /\ nth[n + 1] = ListTail
       /\ \A k \in 1..n + 1 : links.prev[nth[k]] = nth[k - 1]
=============================================================================
