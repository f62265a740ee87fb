------------------------------- MODULE Bitmap -------------------------------
(***************************************************************************)
(* lib/kernel/bitmap.c: a bitmap of len bits is the set of its bits that   *)
(* are 1.  bitmap_scan may test one bit after the last, so the set may     *)
(* have bit len too, which belongs to other memory.                        *)
(***************************************************************************)
EXTENDS Integers, FiniteSets, FiniteSetsExt

(* The ASSERT in bitmap_scan that a byte has a free bit.                   *)
Full(bits, len) == 0..len - 1 \subseteq bits

(* Mutant: a bit that is set does not end the run of free bits.            *)
bitmap_scan_sparse(bits, len, cnt) ==
    LET start == Min(0..len - 1 \ bits)
        count[i \in start..len] ==
            IF i = start THEN 1
            ELSE IF i \in bits THEN count[i - 1] ELSE count[i - 1] + 1
        ends == {i \in start..len : count[i] = cnt}
    IN  IF cnt = 1 THEN start
        ELSE IF ends = {} THEN -1 ELSE Min(ends) - cnt + 1

(* bitmap_scan of a bitmap that is not full, for cnt free bits in a row.   *)
(* bit_left counts the first free bit too, so the loop goes on to the bit  *)
(* after the last one.                                                     *)
bitmap_scan(bits, len, cnt) ==
    LET start == Min(0..len - 1 \ bits)
        count[i \in start..len] ==
            IF i = start THEN 1 ELSE IF i \in bits THEN 0 ELSE count[i - 1] + 1
        ends == {i \in start..len : count[i] = cnt}
    IN  IF cnt = 1 THEN start
        ELSE IF ends = {} THEN -1 ELSE Min(ends) - cnt + 1

bitmap_set(bits, run, value) == IF value = 1 THEN bits \cup run ELSE bits \ run
=============================================================================
