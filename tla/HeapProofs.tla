----------------------------- MODULE HeapProofs -----------------------------
(***************************************************************************)
(* Proofs about Heap, for any numbers of pages and frames, any page size   *)
(* and any sizes of blocks: bitmap_scan is a first fit, what the heap      *)
(* keeps about its memory always agrees, and it implements Allocator.      *)
(*                                                                         *)
(* First what the loops compute (bitmap_scan, palloc, the list_remove of a *)
(* whole arena), each by looking at the least counterexample.  Then the    *)
(* inductive invariant HInv, with one lemma per way through sys_malloc and *)
(* sys_free, which also says what happens to the blocks in use.  Last the  *)
(* properties, from HInv.                                                  *)
(***************************************************************************)
EXTENDS Heap, FiniteSetTheorems, WellFoundedInduction, TLAPS

-----------------------------------------------------------------------------
(* Every non-empty set of naturals has a least element.  Induction over a  *)
(* count is done with it: the least counterexample cannot exist.           *)
LEMMA Least ==
    ASSUME NEW T \in SUBSET Nat, T # {}
    PROVE  \E x \in T : \A y \in T : x <= y
<1> DEFINE R == OpToRel(<, Nat)
<1>1. IsWellFoundedOn(R, Nat)
  BY NatLessThanWellFounded, Zenon
<1>2. \A x, y \in Nat : <<x, y>> \in R <=> x < y
  BY Zenon DEF OpToRel
<1> HIDE DEF R
<1>3. PICK x \in T : \A y \in T : ~(<<y, x>> \in R)
  BY <1>1, WFMin, Zenon
<1>4. ASSUME NEW y \in T PROVE x <= y
  <2>1. x \in Nat /\ y \in Nat /\ ~(<<y, x>> \in R)
    BY <1>3, Zenon
  <2>2. ~(y < x)
    BY <1>2, <2>1, Zenon
  <2> QED BY <2>1, <2>2
<1> QED BY <1>4, Zenon

(* What Min returns.                                                       *)
LEMMA MinLemma ==
    ASSUME NEW T \in SUBSET Nat, T # {}
    PROVE  Min(T) \in T /\ \A y \in T : Min(T) <= y
BY Least, Zenon DEF Min

(* Of the bits from start to i the last one that is 1, or start - 1.       *)
IsLast(bits, start, i, m) ==
    /\ m \in start - 1..i
    /\ m = start - 1 \/ m \in bits
    /\ \A j \in m + 1..i : j \notin bits

(* There is such a bit.                                                    *)
LEMMA LastExists ==
    ASSUME NEW bits, NEW start \in Nat, NEW i \in Nat, start <= i
    PROVE  \E m \in start - 1..i : IsLast(bits, start, i, m)
<1> DEFINE T == {k \in Nat : k <= i - start + 1 /\ (i - k = start - 1 \/ i - k \in bits)}
<1>1. i - start + 1 \in T
  OBVIOUS
<1>2. PICK k \in T : \A y \in T : k <= y
  BY <1>1, Least, Zenon
<1>3. ASSUME NEW j \in i - k + 1..i PROVE j \notin bits
  BY <1>2
<1>4. IsLast(bits, start, i, i - k)
  BY <1>3 DEF IsLast
<1> QED BY <1>4

(* There is only one.                                                      *)
LEMMA LastUnique ==
    ASSUME NEW bits, NEW start \in Nat, NEW i \in Nat, start <= i,
           NEW m, NEW k, IsLast(bits, start, i, m), IsLast(bits, start, i, k)
    PROVE  m = k
BY DEF IsLast

(* The run of free bits that ends at bit i, as the loop of bitmap_scan     *)
(* counts it.                                                              *)
Counts(bits, start, len, f) ==
    f = [i \in start..len |->
            IF i = start THEN 1 ELSE IF i \in bits THEN 0 ELSE f[i - 1] + 1]

(* The function that the loop of bitmap_scan computes exists.              *)
LEMMA CountsExists ==
    ASSUME NEW bits, NEW start \in Nat, NEW len \in Nat, start <= len, start \notin bits
    PROVE  \E f : Counts(bits, start, len, f)
<1> DEFINE L(i) == CHOOSE m \in start - 1..i : IsLast(bits, start, i, m)
           f == [i \in start..len |-> i - L(i)]
<1>1. ASSUME NEW i \in start..len PROVE L(i) \in start - 1..i /\ IsLast(bits, start, i, L(i))
  <2>1. i \in Nat /\ start <= i
    OBVIOUS
  <2>2. \E m \in start - 1..i : IsLast(bits, start, i, m)
    BY <2>1, LastExists, Zenon
  <2> QED BY <2>2, Zenon
<1> HIDE DEF L
<1>2. ASSUME NEW i \in start..len
      PROVE  f[i] = IF i = start THEN 1 ELSE IF i \in bits THEN 0 ELSE f[i - 1] + 1
  <2>1. CASE i = start
    BY <2>1, <1>1 DEF IsLast
  <2>2. CASE i # start /\ i \in bits
    BY <2>2, <1>1 DEF IsLast
  <2>3. CASE i # start /\ i \notin bits
    <3>1. IsLast(bits, start, i - 1, L(i - 1)) /\ IsLast(bits, start, i, L(i))
      BY <2>3, <1>1
    <3>2. IsLast(bits, start, i, L(i - 1))
      BY <3>1, <2>3 DEF IsLast
    <3>3. L(i - 1) = L(i)
      BY <3>1, <3>2, LastUnique
    <3>4. L(i) \in Int
      BY <1>1
    <3> QED BY <3>3, <3>4, <2>3
  <2> QED BY <2>1, <2>2, <2>3, Zenon
<1>3. f = [i \in start..len |-> IF i = start THEN 1 ELSE IF i \in bits THEN 0 ELSE f[i - 1] + 1]
  BY <1>2, Zenon
<1> QED BY <1>3, Zenon DEF Counts

SinceLast(bits, start, i, f) ==
    \E m \in start - 1..i : IsLast(bits, start, i, m) /\ f[i] = i - m

(* Its count at bit i is the distance from the last 1.                     *)
LEMMA CountsValue ==
    ASSUME NEW bits, NEW start \in Nat, NEW len \in Nat, start \notin bits,
           NEW f, Counts(bits, start, len, f),
           NEW i \in start..len
    PROVE  SinceLast(bits, start, i, f)
<1> USE DEF SinceLast
<1> DEFINE Good(j) == SinceLast(bits, start, j, f)
           T == {j \in start..len : ~Good(j)}
<1>1. SUFFICES ASSUME T # {} PROVE FALSE
  BY Zenon
<1>2. PICK j \in T : \A y \in T : j <= y
  <2>1. T \in SUBSET Nat
    OBVIOUS
  <2> HIDE DEF T
  <2> QED BY <1>1, <2>1, Least, Zenon
<1>3. f[j] = IF j = start THEN 1 ELSE IF j \in bits THEN 0 ELSE f[j - 1] + 1
  BY Zenon DEF Counts
<1>4. CASE j = start
  <2>1. IsLast(bits, start, j, start - 1)
    BY <1>4 DEF IsLast
  <2> QED BY <2>1, <1>3, <1>4
<1>5. CASE j # start /\ j \in bits
  <2>1. IsLast(bits, start, j, j)
    BY <1>5 DEF IsLast
  <2> QED BY <2>1, <1>3, <1>5
<1>6. CASE j # start /\ j \notin bits
  <2>1. PICK m \in start - 1..j - 1 : IsLast(bits, start, j - 1, m) /\ f[j - 1] = j - 1 - m
    BY <1>6, <1>2
  <2>2. IsLast(bits, start, j, m)
    BY <2>1, <1>6 DEF IsLast
  <2> QED BY <2>1, <2>2, <1>3, <1>6
<1> QED BY <1>4, <1>5, <1>6, Zenon

(* What bitmap_scan returns, given the counts f of its loop.               *)
ScanOf(f, start, len, n) ==
    IF n = 1 THEN start
    ELSE IF {i \in start..len : f[i] = n} = {} THEN -1
    ELSE Min({i \in start..len : f[i] = n}) - n + 1

CountedFrom(start, bits, len, n) ==
    /\ start \notin bits
    /\ \A j \in 0..len - 1 : j < start => j \in bits
    /\ \E f : /\ Counts(bits, start, len, f)
              /\ bitmap_scan(bits, len, n) = ScanOf(f, start, len, n)

(* bitmap_scan starts at the first 0 and counts from there.                *)
LEMMA ScanCounts ==
    ASSUME NEW bits, NEW len \in Nat, NEW n, ~Full(bits, len)
    PROVE  \E start \in 0..len - 1 : CountedFrom(start, bits, len, n)
<1> USE DEF CountedFrom
<1> DEFINE start == Min(0..len - 1 \ bits)
           count == CHOOSE f : f = [i \in start..len |->
                        IF i = start THEN 1 ELSE IF i \in bits THEN 0 ELSE f[i - 1] + 1]
<1>1. 0..len - 1 \ bits \in SUBSET Nat /\ 0..len - 1 \ bits # {}
  BY DEF Full
<1>2. start \in 0..len - 1 \ bits /\ \A y \in 0..len - 1 \ bits : start <= y
  BY <1>1, MinLemma, Zenon
<1>3. bitmap_scan(bits, len, n) = ScanOf(count, start, len, n)
  BY Zenon DEF bitmap_scan, ScanOf
<1> HIDE DEF start
<1>4. start \in 0..len - 1 /\ start \notin bits /\ \A j \in 0..len - 1 : j < start => j \in bits
  BY <1>2
<1>5. start \in Nat /\ start <= len
  BY <1>4
<1>6. \E f : Counts(bits, start, len, f)
  BY <1>4, <1>5, CountsExists, Zenon
<1>7. Counts(bits, start, len, count)
  BY <1>6, Zenon DEF Counts
<1> HIDE DEF count
<1> QED BY <1>3, <1>4, <1>7, Zenon

(* bitmap_scan finds the lowest run of n free bits, and reports -1 only    *)
(* when there is none.                                                     *)
Runs(bits, len, n) == {p \in 0..len - 1 : p..p + n - 1 \subseteq 0..len \ bits}

LEMMA ScanLemma ==
    ASSUME NEW bits, NEW len \in Nat, NEW n \in Nat \ {0}, ~Full(bits, len)
    PROVE  bitmap_scan(bits, len, n) = IF Runs(bits, len, n) = {} THEN -1 ELSE Min(Runs(bits, len, n))
<1> USE DEF Runs
<1> DEFINE runs == Runs(bits, len, n)
<1>1. PICK start \in 0..len - 1 :
          /\ start \notin bits
          /\ \A j \in 0..len - 1 : j < start => j \in bits
          /\ \E f : /\ Counts(bits, start, len, f)
                    /\ bitmap_scan(bits, len, n) = ScanOf(f, start, len, n)
  BY ScanCounts DEF CountedFrom
<1>2. PICK f : /\ Counts(bits, start, len, f)
               /\ bitmap_scan(bits, len, n) = ScanOf(f, start, len, n)
  BY <1>1, Zenon
<1> DEFINE ends == {i \in start..len : f[i] = n}
<1>3. runs \in SUBSET Nat /\ ends \in SUBSET Nat
  BY <1>1
<1>4. ASSUME NEW x \in runs, \A p \in runs : x <= p
      PROVE  runs # {} /\ Min(runs) = x
  <2>1. runs # {}
    BY Zenon
  <2> HIDE DEF runs
  <2>2. Min(runs) \in runs /\ \A p \in runs : Min(runs) <= p
    BY <2>1, <1>3, MinLemma, Zenon
  <2>3. x \in Nat /\ Min(runs) \in Nat /\ x <= Min(runs) /\ Min(runs) <= x
    BY <2>2, <1>3, <1>4, Zenon
  <2> QED BY <2>1, <2>3
<1>5. CASE n = 1
  <2>1. start \in runs /\ \A p \in runs : start <= p
    BY <1>1, <1>5
  <2> QED BY <2>1, <1>2, <1>4, <1>5, Zenon DEF ScanOf
<1>6. CASE n # 1
  \* Where the count reaches n a run ends ...
  <2>1. ASSUME NEW i \in ends
        PROVE  i - n + 1 \in runs
    <3>1. PICK m \in start - 1..i : IsLast(bits, start, i, m) /\ f[i] = i - m
      BY <1>1, <1>2, CountsValue DEF SinceLast
    <3>2. m = i - n
      BY <3>1
    <3> QED BY <3>1, <3>2, <1>1, <1>6 DEF IsLast
  \* ... and no run begins before the first such place.
  <2>2. ASSUME NEW p \in runs
        PROVE  \E i \in ends : i - n + 1 <= p
    <3> DEFINE e == p + n - 1
    <3>1. start <= p /\ e \in start..len /\ \A j \in p..e : j \notin bits
      BY <1>1
    <3>2. PICK m \in start - 1..e : IsLast(bits, start, e, m)
      <4>1. start \in Nat /\ e \in Nat /\ start <= e
        BY <3>1
      <4> HIDE DEF e
      <4> QED BY <4>1, LastExists, Zenon
    <3>3. m < p
      BY <3>1, <3>2, <1>1 DEF IsLast
    <3>4. m + n \in start..len /\ m + n <= e
      BY <3>1, <3>2, <3>3, <1>1, <1>6
    <3>5. PICK k \in start - 1..m + n : IsLast(bits, start, m + n, k) /\ f[m + n] = m + n - k
      BY <3>4, <1>1, <1>2, CountsValue DEF SinceLast
    <3>6. IsLast(bits, start, m + n, m)
      BY <3>2, <3>4 DEF IsLast
    <3>7. m = k
      BY <3>4, <3>5, <3>6, <1>1, LastUnique
    <3> QED BY <3>3, <3>4, <3>5, <3>7
  <2>3. CASE ends = {}
    <3>1. runs = {}
      BY <2>2, <2>3, Zenon
    <3> QED BY <3>1, <2>3, <1>2, <1>6, Zenon DEF ScanOf
  <2>4. CASE ends # {}
    <3> DEFINE e == Min(ends)
    <3>1. e \in ends /\ \A i \in ends : e <= i
      <4> HIDE DEF ends
      <4> QED BY <2>4, <1>3, MinLemma, Zenon
    <3> HIDE DEF e
    <3>2. e - n + 1 \in runs
      BY <2>1, <3>1, Zenon
    <3>3. ASSUME NEW p \in runs PROVE e - n + 1 <= p
      <4>1. PICK i \in ends : i - n + 1 <= p
        BY <2>2, Zenon
      <4>2. e \in Nat /\ i \in Nat /\ p \in Nat /\ e <= i
        BY <3>1, <1>3, Zenon
      <4> QED BY <4>1, <4>2
    <3>4. runs # {} /\ Min(runs) = e - n + 1
      BY <3>2, <3>3, <1>4, Zenon
    <3>5. bitmap_scan(bits, len, n) = e - n + 1
      BY <1>2, <1>6, <2>4, Zenon DEF e, ScanOf
    <3> QED BY <3>4, <3>5, Zenon
  <2> QED BY <2>3, <2>4, Zenon
<1> QED BY <1>5, <1>6, Zenon

(* ScanFirstFit, of bitmap_scan on the bitmap of the kernel's virtual      *)
(* pages, is a fact about every bitmap.                                    *)
LEMMA ScanFirstFitHolds == ScanFirstFit
<1> SUFFICES ASSUME NEW n \in 1..MaxPages, ~Full(vbits, NPages)
             PROVE  LET runs == {p \in Frames : MappedPages(p, n) \subseteq Pages \ vbits}
                    IN  bitmap_scan(vbits, NPages, n) = IF runs = {} THEN -1 ELSE Min(runs)
  BY Zenon DEF ScanFirstFit
<1>1. n \in Nat \ {0} /\ NPages \in Nat
  BY HeapAssumption
<1> QED BY <1>1, ScanLemma DEF Runs, Frames, Pages, MappedPages

-----------------------------------------------------------------------------
(* Blocks of an arena: as many as fit, inside the page, apart.             *)
LEMMA ArenaFits ==
    ASSUME NEW d \in Sizes
    PROVE  /\ d \in Nat \ {0}
           /\ blocks_per_arena(d) \in 1..PageUnits - 1
           /\ blocks_per_arena(d) * d <= PageUnits - 1
<1>1. d \in Nat /\ 1 <= d /\ d <= PageUnits - 1 /\ PageUnits \in Nat
  BY HeapAssumption
<1> DEFINE b == (PageUnits - 1) \div d
<1>2. b \in Int /\ b * d <= PageUnits - 1 /\ PageUnits - 1 < b * d + d
  BY <1>1
<1> HIDE DEF b
<1>3. b >= 1
  <2>1. SUFFICES ASSUME b <= 0 PROVE FALSE
    BY <1>2
  <2>2. b * d <= 0
    BY <2>1, <1>1, <1>2
  <2> QED BY <2>2, <1>1, <1>2
<1>4. b <= b * d
  BY <1>1, <1>2, <1>3
<1> QED BY <1>1, <1>2, <1>3, <1>4 DEF b, blocks_per_arena

(* Two blocks of an arena share no unit.                                   *)
LEMMA BlocksApart ==
    ASSUME NEW d \in Nat \ {0}, NEW i \in Nat, NEW j \in Nat, i < j,
           NEW k \in 0..d - 1, NEW m \in 0..d - 1
    PROVE  arena2block(d, i) + k # arena2block(d, j) + m
<1>1. i * d + d = (i + 1) * d /\ i * d \in Nat /\ j * d \in Nat /\ (i + 1) * d \in Nat
  OBVIOUS
<1>2. (i + 1) * d <= j * d
  <2>1. PICK c \in Nat : j = i + 1 + c
    <3>1. j - i - 1 \in Nat /\ j = i + 1 + (j - i - 1)
      OBVIOUS
    <3> QED BY <3>1, Zenon
  <2>2. j * d = (i + 1) * d + c * d /\ c * d \in Nat
    BY <2>1
  <2> QED BY <2>2, <1>1
<1> QED BY <1>1, <1>2 DEF arena2block

(* A block lies in the page of its arena, after the header.                *)
LEMMA BlockInPage ==
    ASSUME NEW d \in Sizes, NEW i \in 0..blocks_per_arena(d) - 1, NEW k \in 0..d - 1
    PROVE  arena2block(d, i) + k \in 1..PageUnits - 1
<1> DEFINE n == blocks_per_arena(d)
<1>1. d \in Nat \ {0} /\ n \in Nat /\ n * d <= PageUnits - 1 /\ PageUnits \in Nat
  BY ArenaFits, HeapAssumption
<1> HIDE DEF n
<1>2. i * d + d = (i + 1) * d /\ i * d \in Nat /\ n * d \in Nat /\ (i + 1) * d \in Nat
  BY <1>1
<1>3. (i + 1) * d <= n * d
  <2>1. PICK c \in Nat : n = i + 1 + c
    <3>1. n - i - 1 \in Nat /\ n = i + 1 + (n - i - 1)
      BY <1>1 DEF n
    <3> QED BY <3>1, Zenon
  <2>2. n * d = (i + 1) * d + c * d /\ c * d \in Nat
    BY <2>1, <1>1
  <2> QED BY <2>2, <1>2
<1> QED BY <1>1, <1>2, <1>3 DEF arena2block

-----------------------------------------------------------------------------
(* A list without the blocks of arena p: the other blocks are left, each   *)
(* as often as before.                                                     *)
Elems(l) == {l[k] : k \in 1..Len(l)}
Once(l) == \A i, j \in 1..Len(l) : l[i] = l[j] => i = j

Keeps(l, p, n, f) ==
    f = [k \in 0..n |->
            IF k = 0 THEN <<>>
            ELSE IF l[k][1] = p THEN f[k - 1] ELSE Append(f[k - 1], l[k])]

(* The function that defines without exists.                               *)
LEMMA KeepsExists ==
    ASSUME NEW l, NEW p, NEW n \in Nat
    PROVE  \E f : Keeps(l, p, n, f)
<1> DEFINE T == {m \in Nat : ~\E f : Keeps(l, p, m, f)}
<1>1. SUFFICES ASSUME T # {} PROVE FALSE
  BY Zenon
<1>2. PICK m \in T : \A y \in T : m <= y
  BY <1>1, Least, Zenon
<1>3. CASE m = 0
  <2>1. Keeps(l, p, m, [k \in 0..0 |-> <<>>])
    BY <1>3 DEF Keeps
  <2> QED BY <2>1, Zenon
<1>4. CASE m # 0
  <2>1. m - 1 \in Nat /\ m - 1 \notin T
    BY <1>2, <1>4
  <2>2. PICK f : Keeps(l, p, m - 1, f)
    BY <2>1, Zenon
  <2> DEFINE last == IF l[m][1] = p THEN f[m - 1] ELSE Append(f[m - 1], l[m])
             g == [k \in 0..m |-> IF k = m THEN last ELSE f[k]]
  <2>3. ASSUME NEW k \in 0..m
        PROVE  g[k] = IF k = 0 THEN <<>>
                      ELSE IF l[k][1] = p THEN g[k - 1] ELSE Append(g[k - 1], l[k])
    <3>1. CASE k = m
      <4>1. g[m - 1] = f[m - 1] /\ g[k] = last
        BY <3>1, <1>4
      <4> QED BY <4>1, <3>1, <1>4, Zenon
    <3>2. CASE k # m
      <4>1. g[k] = f[k] /\ k \in 0..m - 1 /\ (k # 0 => g[k - 1] = f[k - 1])
        BY <3>2
      <4> HIDE DEF g
      <4>2. f[k] = IF k = 0 THEN <<>>
                   ELSE IF l[k][1] = p THEN f[k - 1] ELSE Append(f[k - 1], l[k])
        BY <4>1, <2>2, Zenon DEF Keeps
      <4> QED BY <4>1, <4>2, Zenon
    <3> QED BY <3>1, <3>2, Zenon
  <2>4. g = [k \in 0..m |-> g[k]]
    BY Zenon
  <2> HIDE DEF g
  <2>5. Keeps(l, p, m, g)
    BY <2>3, <2>4, Zenon DEF Keeps
  <2> QED BY <2>5, Zenon
<1> QED BY <1>3, <1>4, Zenon

Added(r, S, s, x) ==
    /\ r \in Seq(S)
    /\ Elems(r) = Elems(s) \cup {x}
    /\ Once(s) /\ x \notin Elems(s) => Once(r)

(* list_append of a block that is not in the list.                         *)
LEMMA AppendOnce ==
    ASSUME NEW S, NEW s \in Seq(S), NEW x \in S
    PROVE  Added(Append(s, x), S, s, x)
<1> DEFINE r == Append(s, x)
<1>1. /\ r \in Seq(S) /\ Len(r) = Len(s) + 1 /\ Len(s) \in Nat
      /\ r[Len(s) + 1] = x /\ \A k \in 1..Len(s) : r[k] = s[k]
  OBVIOUS
<1> HIDE DEF r
<1>2. Elems(r) = Elems(s) \cup {x}
  <2>1. ASSUME NEW y \in Elems(r) PROVE y \in Elems(s) \cup {x}
    BY <1>1 DEF Elems
  <2>2. ASSUME NEW y \in Elems(s) \cup {x} PROVE y \in Elems(r)
    <3>1. CASE y = x
      <4>1. Len(s) + 1 \in 1..Len(r)
        BY <1>1
      <4> QED BY <4>1, <3>1, <1>1, Zenon DEF Elems
    <3>2. CASE y \in Elems(s)
      <4>1. PICK k \in 1..Len(s) : y = s[k]
        BY <3>2, Zenon DEF Elems
      <4>2. k \in 1..Len(r) /\ y = r[k]
        BY <4>1, <1>1
      <4> QED BY <4>2, Zenon DEF Elems
    <3> QED BY <3>1, <3>2, Zenon
  <2> QED BY <2>1, <2>2, Zenon
<1>3. ASSUME Once(s), x \notin Elems(s) PROVE Once(r)
  <2> SUFFICES ASSUME NEW i \in 1..Len(r), NEW j \in 1..Len(r), r[i] = r[j] PROVE i = j
    BY Zenon DEF Once
  <2>1. ASSUME NEW k \in 1..Len(s) PROVE r[k] # x
    BY <1>1, <1>3, Zenon DEF Elems
  <2>2. \A k \in 1..Len(r) : k \in 1..Len(s) \/ k = Len(s) + 1
    BY <1>1
  <2> QED BY <2>1, <2>2, <1>1, <1>3, Zenon DEF Once
<1> QED BY <1>1, <1>2, <1>3, Zenon DEF Added, r

KeptOf(r, S, l, p, n) ==
    /\ r \in Seq(S)
    /\ Elems(r) = {l[k] : k \in {j \in 1..n : l[j][1] # p}}
    /\ Once(r)

(* What is left of the first n elements.                                   *)
LEMMA KeepsValue ==
    ASSUME NEW S, NEW l \in Seq(S), Once(l), NEW p,
           NEW f, Keeps(l, p, Len(l), f), NEW n \in 0..Len(l)
    PROVE  KeptOf(f[n], S, l, p, n)
<1> USE DEF KeptOf
<1> DEFINE Good(m) == KeptOf(f[m], S, l, p, m)
           T == {m \in 0..Len(l) : ~Good(m)}
<1>1. SUFFICES ASSUME T # {} PROVE FALSE
  BY Zenon
<1>2. PICK m \in T : \A y \in T : m <= y
  <2>1. T \in SUBSET Nat
    OBVIOUS
  <2> HIDE DEF T
  <2> QED BY <1>1, <2>1, Least, Zenon
<1>3. f[m] = IF m = 0 THEN <<>>
             ELSE IF l[m][1] = p THEN f[m - 1] ELSE Append(f[m - 1], l[m])
  BY Zenon DEF Keeps
<1>4. m # 0
  <2>1. SUFFICES ASSUME m = 0 PROVE Good(m)
    BY Zenon
  <2>2. f[m] = <<>>
    BY <1>3, <2>1, Zenon
  <2> QED BY <2>1, <2>2 DEF Elems, Once
<1>5. m \in 1..Len(l) /\ m - 1 \in 0..Len(l) /\ l[m] \in S
  BY <1>4
<1>6. Good(m - 1)
  <2>1. m - 1 \notin T
    <3> HIDE DEF T
    <3> QED BY <1>2, <1>5
  <2> HIDE DEF Good
  <2> QED BY <2>1, <1>5, Zenon
<1>7. CASE l[m][1] = p
  <2>1. {j \in 1..m : l[j][1] # p} = {j \in 1..m - 1 : l[j][1] # p}
    BY <1>7, <1>5
  <2>2. f[m] = f[m - 1]
    BY <1>3, <1>4, <1>7, Zenon
  <2>3. Good(m)
    BY <2>1, <2>2, <1>6, Zenon
  <2> QED BY <2>3, Zenon
<1>8. CASE l[m][1] # p
  <2>1. f[m] = Append(f[m - 1], l[m])
    BY <1>3, <1>4, <1>8, Zenon
  <2>2. l[m] \notin Elems(f[m - 1])
    BY <1>5, <1>6 DEF Once
  <2>3. {l[k] : k \in {j \in 1..m : l[j][1] # p}}
            = {l[k] : k \in {j \in 1..m - 1 : l[j][1] # p}} \cup {l[m]}
    <3>1. {j \in 1..m : l[j][1] # p} = {j \in 1..m - 1 : l[j][1] # p} \cup {m}
      BY <1>5, <1>8
    <3> QED BY <3>1, Zenon
  <2>4. /\ Append(f[m - 1], l[m]) \in Seq(S)
        /\ Elems(Append(f[m - 1], l[m])) = Elems(f[m - 1]) \cup {l[m]}
        /\ Once(Append(f[m - 1], l[m]))
    BY <2>2, <1>5, <1>6, AppendOnce DEF Added
  <2>5. Good(m)
    BY <2>1, <2>3, <2>4, <1>6, Zenon
  <2> QED BY <2>5
<1> QED BY <1>7, <1>8, Zenon

LeftOf(r, l, p, S) == r \in Seq(S) /\ Elems(r) = {b \in Elems(l) : b[1] # p} /\ Once(r)

(* What is left of the list.                                               *)
LEMMA WithoutLemma ==
    ASSUME NEW S, NEW l \in Seq(S), Once(l), NEW p
    PROVE  LeftOf(without(l, p), l, p, S)
<1> DEFINE kept == CHOOSE f : f = [k \in 0..Len(l) |->
                      IF k = 0 THEN <<>>
                      ELSE IF l[k][1] = p THEN f[k - 1] ELSE Append(f[k - 1], l[k])]
<1>1. without(l, p) = kept[Len(l)]
  BY Zenon DEF without
<1>2. \E f : Keeps(l, p, Len(l), f)
  <2>1. Len(l) \in Nat
    OBVIOUS
  <2> QED BY <2>1, KeepsExists, Zenon
<1>3. Keeps(l, p, Len(l), kept)
  BY <1>2, Zenon DEF Keeps
<1> HIDE DEF kept
<1>4. Len(l) \in 0..Len(l)
  OBVIOUS
<1>5. /\ kept[Len(l)] \in Seq(S)
      /\ Elems(kept[Len(l)]) = {l[k] : k \in {j \in 1..Len(l) : l[j][1] # p}}
      /\ Once(kept[Len(l)])
  BY <1>3, <1>4, KeepsValue, Zenon DEF KeptOf
<1>6. {l[k] : k \in {j \in 1..Len(l) : l[j][1] # p}} = {b \in Elems(l) : b[1] # p}
  BY Zenon DEF Elems
<1> QED BY <1>1, <1>5, <1>6, Zenon DEF LeftOf

-----------------------------------------------------------------------------
(* palloc finds as many different frames as are free.                      *)
Below(F, f) == {g \in F : g < f}

(* For every k less than the size of a set there is an element with        *)
(* exactly k elements below it.                                            *)
LEMMA RankExists ==
    ASSUME NEW N \in Nat, NEW F \in SUBSET (0..N - 1), NEW k \in Nat, k < Cardinality(F)
    PROVE  \E f \in F : Cardinality(Below(F, f)) = k
<1>1. IsFiniteSet(F) /\ Cardinality(F) \in Nat
  <2>1. IsFiniteSet(0..N - 1)
    BY FS_Interval
  <2> QED BY <2>1, FS_Subset, FS_CardinalityType, Zenon
<1>2. F \in SUBSET Nat /\ \A g \in F : g \in Int
  OBVIOUS
<1> DEFINE Ranked(m) == \E f \in F : Cardinality(Below(F, f)) = m
           T == {m \in Nat : m < Cardinality(F) /\ ~Ranked(m)}
<1> HIDE DEF Ranked
<1>3. SUFFICES ASSUME T # {} PROVE FALSE
  BY Zenon DEF Ranked
<1>4. PICK m \in T : \A y \in T : m <= y
  BY <1>3, Least, Zenon
<1>5. /\ m \in Nat /\ m < Cardinality(F) /\ ~Ranked(m)
      /\ \A j \in Nat : j < m => Ranked(j)
  BY <1>1, <1>4
<1> HIDE DEF T
<1>6. CASE m = 0
  <2>1. F # {}
    BY <1>1, <1>5, <1>6, FS_EmptySet, Zenon
  <2>2. PICK f \in F : \A g \in F : f <= g
    BY <2>1, <1>2, Least, Zenon
  <2>3. Below(F, f) = {}
    <3>1. \A g \in F : ~(g < f)
      BY <2>2, <1>2
    <3> QED BY <3>1, Zenon DEF Below
  <2>4. Cardinality(Below(F, f)) = 0
    BY <2>3, FS_EmptySet, Zenon
  <2> QED BY <2>4, <1>5, <1>6, Zenon DEF Ranked
<1>7. CASE m # 0
  <2>1. m - 1 \in Nat /\ Ranked(m - 1)
    BY <1>5, <1>7
  <2>2. PICK e \in F : Cardinality(Below(F, e)) = m - 1
    BY <2>1, Zenon DEF Ranked
  <2> DEFINE A == {g \in F : g > e}
  <2>3. IsFiniteSet(Below(F, e)) /\ e \notin Below(F, e)
    <3>1. Below(F, e) \in SUBSET F /\ e \notin Below(F, e)
      BY <1>2 DEF Below
    <3> QED BY <3>1, <1>1, FS_Subset, Zenon
  <2>4. Cardinality(Below(F, e) \cup {e}) = m
    <3>1. Cardinality(Below(F, e) \cup {e}) = Cardinality(Below(F, e)) + 1
      BY <2>3, FS_AddElement, Zenon
    <3> QED BY <3>1, <2>1, <2>2, <1>5
  <2>5. A # {}
    <3>1. SUFFICES ASSUME A = {} PROVE FALSE
      BY Zenon
    <3>2. \A g \in F : g < e \/ g = e
      BY <3>1, <1>2
    <3>3. F = Below(F, e) \cup {e}
      BY <3>2, Zenon DEF Below
    <3> QED BY <3>3, <2>4, <1>5, Zenon
  <2>6. A \in SUBSET Nat
    BY <1>2, Zenon
  <2>7. PICK f \in A : \A g \in A : f <= g
    <3> HIDE DEF A
    <3> QED BY <2>5, <2>6, Least, Zenon
  <2>8. Below(F, f) = Below(F, e) \cup {e}
    <3>1. \A g \in F : g < f <=> g < e \/ g = e
      BY <2>7, <1>2
    <3> QED BY <3>1, Zenon DEF Below
  <2> QED BY <2>4, <2>7, <2>8, <1>5, Zenon DEF Ranked
<1> QED BY <1>6, <1>7, Zenon

FreshFrames(n) ==
    /\ \A k \in 0..n - 1 : palloc(k) \in Frames \ pbits
    /\ \A j, k \in 0..n - 1 : palloc(j) = palloc(k) => j = k

(* palloc, called n times, returns n different free frames.                *)
LEMMA PallocLemma ==
    ASSUME TypeOK, NEW n \in Nat, Cardinality(Frames \ pbits) >= n
    PROVE  FreshFrames(n)
<1> USE DEF FreshFrames
<1> DEFINE F == Frames \ pbits
           R(f) == Cardinality(Below(F, f))
<1>1. ASSUME NEW k \in 0..n - 1
      PROVE  palloc(k) \in F /\ R(palloc(k)) = k
  <2>1. k \in Nat /\ k < Cardinality(F) /\ NPages \in Nat /\ F \in SUBSET (0..NPages - 1)
    <3>1. F \in SUBSET (0..NPages - 1) /\ NPages \in Nat
      BY HeapAssumption, Zenon DEF Frames
    <3> HIDE DEF F
    <3>2. IsFiniteSet(0..NPages - 1)
      BY <3>1, FS_Interval
    <3>3. IsFiniteSet(F)
      BY <3>1, <3>2, FS_Subset, Zenon
    <3>4. Cardinality(F) \in Nat
      BY <3>3, FS_CardinalityType, Zenon
    <3> QED BY <3>1, <3>4 DEF F
  <2>2. \E f \in F : Cardinality(Below(F, f)) = k
    <3> HIDE DEF F
    <3> QED BY <2>1, RankExists, Zenon
  <2> QED BY <2>2, Zenon DEF palloc, Below
<1> HIDE DEF F, R
<1>2. \A j, k \in 0..n - 1 : palloc(j) = palloc(k) => j = k
  BY <1>1, Zenon
<1> QED BY <1>1, <1>2, Zenon DEF F

-----------------------------------------------------------------------------
(* The inductive invariant.  The blocks of an arena that are not in use.   *)
FreeIdx(p) == {i \in 0..blocks_per_arena(arena[p].size) - 1 : <<p, i>> \notin live}

Unused(d) == {b \in Pages \X (0..blocks_per_arena(d) - 1) : arena[b[1]].size = d /\ b \notin live}

(* A block in use is one of its arena; a large arena is one block, whose   *)
(* pages are in the pool.                                                  *)
LiveAt(b) ==
    /\ arena[b[1]].size = 0 => /\ b[2] = 0
                               /\ arena[b[1]].cnt \in 1..MaxPages
                               /\ b[1] + arena[b[1]].cnt <= NPages + 1
    /\ arena[b[1]].size # 0 => b[2] < blocks_per_arena(arena[b[1]].size)

LiveInv == \A b \in live : LiveAt(b)

(* An arena of small blocks has one in use, and counts its free ones.      *)
ArenaAt(p) ==
    arena[p].size # 0 => /\ \E b \in live : b[1] = p
                         /\ arena[p].cnt = Cardinality(FreeIdx(p))

ArenaInv == \A p \in Pages : ArenaAt(p)

(* The free list of a size has each free block of that size once.          *)
ListAt(d) == Once(free_list[d]) /\ Elems(free_list[d]) = Unused(d)

ListInv == \A d \in Sizes : ListAt(d)

(* A page is mapped when it is behind a block in use, and then its bit is  *)
(* set; different arenas have different pages.                             *)
PageInv ==
    /\ \A q \in Pages : pte[q] # NoFrame <=> \E b \in live : q \in PagesOf(b)
    /\ \A b, c \in live : b[1] # c[1] => PagesOf(b) \cap PagesOf(c) = {}
    /\ \A q \in Pages : pte[q] # NoFrame => q \in vbits
    /\ \A q \in Frames : q \in vbits => pte[q] # NoFrame

(* The frames in use are those of the mapped pages, one each.              *)
FrameInv ==
    /\ \A f \in Frames : f \in pbits <=> \E q \in Pages : pte[q] = f
    /\ \A q, r \in Mapped : pte[q] = pte[r] => q = r

HInv == TypeOK /\ NoAssertFails /\ LiveInv /\ ArenaInv /\ ListInv /\ PageInv /\ FrameInv

BlockType(b) ==
    /\ b = <<b[1], b[2]>> /\ b[1] \in Pages /\ b[2] \in Nat
    /\ b[1] \in Int
    /\ arena[b[1]].size \in Sizes \cup {0} /\ arena[b[1]].cnt \in Nat

(* The type of a block in use and of its header.                           *)
LEMMA LiveType ==
    ASSUME HInv, NEW b \in live
    PROVE  BlockType(b)
<1>1. b \in Pages \X (0..PageUnits - 1)
  BY Zenon DEF HInv, TypeOK, Blocks
<1>2. PageUnits \in Nat /\ NPages \in Nat
  BY HeapAssumption, Zenon
<1>3. b = <<b[1], b[2]>> /\ b[1] \in Pages /\ b[2] \in 0..PageUnits - 1
  BY <1>1
<1>4. arena[b[1]] \in [size : Sizes \cup {0}, cnt : 0..PageUnits + MaxPages]
  BY <1>3, Zenon DEF HInv, TypeOK
<1> QED BY <1>2, <1>3, <1>4 DEF BlockType, Pages

(* Size 0 is that of the header of a large block alone.                    *)
LEMMA SizeNotZero == 0 \notin Sizes
BY HeapAssumption

(* The pages of a block in use are mapped pages of the pool, and the page  *)
(* of its header is one of them.                                           *)
LEMMA PagesOfLemma ==
    ASSUME HInv, NEW b \in live
    PROVE  /\ b[1] \in PagesOf(b)
           /\ PagesOf(b) \subseteq Pages
           /\ \A q \in PagesOf(b) : pte[q] # NoFrame /\ q \in vbits
<1>1. /\ b[1] \in Pages /\ b[1] \in Int
      /\ arena[b[1]].size = 0 => /\ arena[b[1]].cnt \in 1..MaxPages
                                 /\ b[1] + arena[b[1]].cnt <= NPages + 1
  BY LiveType, Zenon DEF BlockType, HInv, LiveInv, LiveAt
<1>2. NPages \in Nat /\ MaxPages \in Nat
  BY HeapAssumption, Zenon
<1>3. b[1] \in PagesOf(b) /\ PagesOf(b) \subseteq Pages
  <2>1. CASE arena[b[1]].size = 0
    <3>1. PagesOf(b) = MappedPages(b[1], arena[b[1]].cnt)
      BY <2>1, Zenon DEF PagesOf
    <3> QED BY <3>1, <2>1, <1>1, <1>2 DEF MappedPages, Pages
  <2>2. CASE arena[b[1]].size # 0
    BY <2>2, <1>1, Zenon DEF PagesOf
  <2> QED BY <2>1, <2>2, Zenon
<1>4. \A q \in PagesOf(b) : pte[q] # NoFrame /\ q \in vbits
  BY <1>3, Zenon DEF HInv, PageInv
<1> QED BY <1>3, <1>4, Zenon

(* bitmap_scan of the virtual pages: it never fails for one page, and the  *)
(* pages it finds are free, unmapped and behind no block in use.           *)
LEMMA ScanOne ==
    ASSUME ~Full(vbits, NPages)
    PROVE  bitmap_scan(vbits, NPages, 1) # -1
<1>1. NPages \in Nat /\ 1 \in 1..MaxPages
  BY HeapAssumption
<1> DEFINE runs == {p \in Frames : MappedPages(p, 1) \subseteq Pages \ vbits}
<1>2. bitmap_scan(vbits, NPages, 1) = IF runs = {} THEN -1 ELSE Min(runs)
  BY <1>1, ScanFirstFitHolds, Zenon DEF ScanFirstFit
<1>3. PICK p \in 0..NPages - 1 : p \notin vbits
  BY Zenon DEF Full
<1>4. p \in runs
  BY <1>1, <1>3 DEF Frames, Pages, MappedPages
<1>5. runs \in SUBSET Nat /\ runs # {}
  BY <1>4 DEF Frames
<1> HIDE DEF runs
<1>6. Min(runs) \in Nat
  BY <1>5, MinLemma, Zenon
<1>7. bitmap_scan(vbits, NPages, 1) = Min(runs)
  BY <1>2, <1>5, Zenon
<1> QED BY <1>6, <1>7

Found(p, n) == ~Full(vbits, NPages) /\ p = bitmap_scan(vbits, NPages, n) /\ p # -1

FreePages(p, n) ==
    /\ p \in Frames /\ p \in Pages /\ p \in Int /\ p + n <= NPages + 1
    /\ p \in MappedPages(p, n) /\ MappedPages(p, n) \subseteq Pages
    /\ \A q \in MappedPages(p, n) : q \notin vbits /\ pte[q] = NoFrame
    /\ ~Repeated(p, n)
    /\ \A b \in live : PagesOf(b) \cap MappedPages(p, n) = {} /\ b[1] # p

(* The pages that bitmap_scan finds.                                       *)
LEMMA ScanFree ==
    ASSUME HInv, NEW n \in 1..MaxPages, NEW p, Found(p, n)
    PROVE  FreePages(p, n)
<1>1. NPages \in Nat /\ n \in Nat \ {0}
  BY HeapAssumption
<1> DEFINE runs == {r \in Frames : MappedPages(r, n) \subseteq Pages \ vbits}
<1>2. p = IF runs = {} THEN -1 ELSE Min(runs)
  BY ScanFirstFitHolds, Zenon DEF ScanFirstFit, Found
<1>3. runs \in SUBSET Nat
  BY DEF Frames
<1>4. p \in runs
  <2> HIDE DEF runs
  <2> QED BY <1>2, <1>3, MinLemma, Zenon DEF Found
<1>5. p \in Frames /\ MappedPages(p, n) \subseteq Pages \ vbits
  BY <1>4, Zenon
<1> HIDE DEF runs
<1>6. /\ p \in Pages /\ p \in Int /\ p + n <= NPages + 1
      /\ p \in MappedPages(p, n) /\ MappedPages(p, n) \subseteq Pages
  <2>1. p \in Pages /\ p \in Int /\ p \in MappedPages(p, n)
    BY <1>1, <1>5 DEF Frames, Pages, MappedPages
  <2>2. p + n - 1 \in MappedPages(p, n)
    BY <1>1, <2>1 DEF MappedPages
  <2>3. p + n - 1 \in Pages
    BY <2>2, <1>5, Zenon
  <2> QED BY <2>1, <2>3, <1>1, <1>5 DEF Pages
<1>7. \A q \in MappedPages(p, n) : q \notin vbits /\ pte[q] = NoFrame
  BY <1>5, Zenon DEF HInv, PageInv
<1>8. ~Repeated(p, n)
  BY <1>7, Zenon DEF Repeated
<1>9. ASSUME NEW b \in live
      PROVE  PagesOf(b) \cap MappedPages(p, n) = {} /\ b[1] # p
  <2>1. b[1] \in PagesOf(b) /\ \A q \in PagesOf(b) : q \in vbits
    BY PagesOfLemma, Zenon
  <2> QED BY <2>1, <1>6, <1>7, Zenon
<1> QED BY <1>5, <1>6, <1>7, <1>8, <1>9, Zenon DEF FreePages

(* malloc_page keeps the frames in use exact, and changes no other page.   *)
MapType ==
    /\ vbits \in SUBSET Pages /\ pbits \in SUBSET Frames
    /\ pte \in [Pages -> Frames \cup {NoFrame}]
    /\ tlb \in [Pages -> Frames \cup {NoFrame}]

Mapping(p, n) == Found(p, n) /\ ~Fails(n) /\ malloc_page(p, n)

FramesMapped(p, n) ==
    /\ MapType' /\ FrameInv'
    /\ \A q \in Pages : pte'[q] = NoFrame <=> pte[q] = NoFrame /\ q \notin MappedPages(p, n)
    /\ \A q \in Pages : pte[q] # NoFrame => pte'[q] = pte[q]

LEMMA MapFrames ==
    ASSUME HInv, NEW n \in 1..MaxPages, NEW p, Mapping(p, n)
    PROVE  FramesMapped(p, n)
<1> DEFINE run == MappedPages(p, n)
<1>1. /\ p \in Int /\ run \subseteq Pages
      /\ \A q \in run : pte[q] = NoFrame
  BY ScanFree, Zenon DEF Mapping, FreePages
<1>2. n \in Nat /\ NPages \in Nat /\ run = p..p + n - 1
  BY HeapAssumption DEF MappedPages
<1>3. Cardinality(Frames \ pbits) >= n
  <2>1. IsFiniteSet(Frames)
    BY <1>2, FS_Interval DEF Frames
  <2>2. IsFiniteSet(Frames \ pbits)
    BY <2>1, FS_Subset, Zenon
  <2>3. Cardinality(Frames \ pbits) \in Nat
    BY <2>2, FS_CardinalityType, Zenon
  <2> QED BY <2>3, <1>2 DEF Mapping, Found, Fails
<1>4. /\ \A k \in 0..n - 1 : palloc(k) \in Frames \ pbits
      /\ \A j, k \in 0..n - 1 : palloc(j) = palloc(k) => j = k
  BY <1>2, <1>3, PallocLemma, Zenon DEF HInv, FreshFrames
<1> HIDE DEF run
<1>5. ASSUME NEW q \in run
      PROVE  q - p \in 0..n - 1 /\ palloc(q - p) \in Frames \ pbits
  <2>1. q - p \in 0..n - 1
    BY <1>1, <1>2
  <2> QED BY <2>1, <1>4, Zenon
<1>6. /\ pte' = [q \in Pages |-> IF q \in run THEN palloc(q - p) ELSE pte[q]]
      /\ tlb' = [q \in Pages |-> IF q \in run THEN NoFrame ELSE tlb[q]]
      /\ vbits' = vbits \cup run
      /\ pbits' = pbits \cup {palloc(k) : k \in 0..n - 1}
  BY Zenon DEF Mapping, malloc_page, run
<1>7. MapType'
  <2>1. /\ pte \in [Pages -> Frames \cup {NoFrame}] /\ tlb \in [Pages -> Frames \cup {NoFrame}]
        /\ vbits \in SUBSET Pages /\ pbits \in SUBSET Frames
    BY Zenon DEF HInv, TypeOK
  <2>2. pte' \in [Pages -> Frames \cup {NoFrame}] /\ tlb' \in [Pages -> Frames \cup {NoFrame}]
    BY <2>1, <1>5, <1>6, Zenon
  <2>3. vbits' \in SUBSET Pages /\ pbits' \in SUBSET Frames
    BY <2>1, <1>1, <1>4, <1>6, Zenon
  <2> QED BY <2>2, <2>3, Zenon DEF MapType, Pages, Frames, NoFrame
<1>8. /\ \A q \in Pages : q \in run => pte'[q] = palloc(q - p)
      /\ \A q \in Pages : q \notin run => pte'[q] = pte[q]
  BY <1>6, Zenon
<1>9. \A f \in Frames : f # NoFrame
  BY <1>2 DEF Frames, NoFrame
<1>10. \A q \in Pages : pte'[q] = NoFrame <=> pte[q] = NoFrame /\ q \notin run
  BY <1>5, <1>8, <1>9, Zenon
<1>11. \A q \in Pages : pte[q] # NoFrame => pte'[q] = pte[q]
  BY <1>1, <1>8, Zenon
<1>12. ASSUME NEW f \in Frames
       PROVE  f \in pbits' <=> \E q \in Pages : pte'[q] = f
  <2>1. f \in pbits <=> \E q \in Pages : pte[q] = f
    BY Zenon DEF HInv, FrameInv
  <2>2. CASE f \in pbits
    BY <2>1, <2>2, <1>6, <1>9, <1>11, Zenon
  <2>3. CASE f \notin pbits
    <3>1. ASSUME f \in pbits' PROVE \E q \in Pages : pte'[q] = f
      <4>1. PICK k \in 0..n - 1 : f = palloc(k)
        BY <3>1, <2>3, <1>6, Zenon
      <4>2. p + k \in run /\ (p + k) - p = k
        BY <1>1, <1>2
      <4> QED BY <4>1, <4>2, <1>1, <1>8, Zenon
    <3>2. ASSUME NEW q \in Pages, pte'[q] = f PROVE f \in pbits'
      <4>1. q \in run
        BY <3>2, <2>1, <2>3, <1>8, Zenon
      <4>2. f = palloc(q - p) /\ q - p \in 0..n - 1
        BY <4>1, <3>2, <1>5, <1>8, Zenon
      <4> QED BY <4>2, <1>6, Zenon
    <3> QED BY <3>1, <3>2, Zenon
  <2> QED BY <2>2, <2>3, Zenon
<1>13. ASSUME NEW q \in Pages, NEW r \in Pages, pte'[q] = pte'[r], pte'[q] # NoFrame
       PROVE  q = r
  <2>1. \A s \in Pages : pte[s] \in Frames \cup {NoFrame}
    BY Zenon DEF HInv, TypeOK
  <2>2. \A s \in Pages : pte[s] # NoFrame => pte[s] \in pbits
    BY <2>1, Zenon DEF HInv, FrameInv
  <2>3. CASE q \in run /\ r \in run
    <3>1. palloc(q - p) = palloc(r - p) /\ q - p \in 0..n - 1 /\ r - p \in 0..n - 1
      BY <2>3, <1>5, <1>8, <1>13, Zenon
    <3>2. q - p = r - p
      BY <3>1, <1>4, Zenon
    <3> QED BY <3>2, <2>3, <1>1, <1>2
  <2>4. CASE q \in run /\ r \notin run
    BY <2>2, <2>4, <1>5, <1>8, <1>13, Zenon
  <2>5. CASE q \notin run /\ r \in run
    BY <2>2, <2>5, <1>5, <1>8, <1>13
  <2>6. CASE q \notin run /\ r \notin run
    BY <2>6, <1>8, <1>13 DEF HInv, FrameInv, Mapped
  <2> QED BY <2>3, <2>4, <2>5, <2>6, Zenon
<1>14. FrameInv'
  BY <1>12, <1>13, Zenon DEF FrameInv, Mapped
<1> QED BY <1>7, <1>10, <1>11, <1>14, Zenon DEF FramesMapped, run

(* mfree_page of the pages of a block in use, likewise.                    *)
Unmapping(b, p, n) == PagesOf(b) = MappedPages(p, n) /\ mfree_page(p, n)

FramesUnmapped(b) ==
    /\ MapType' /\ FrameInv'
    /\ \A q \in Pages : q \in PagesOf(b) => pte'[q] = NoFrame
    /\ \A q \in Pages : q \notin PagesOf(b) => pte'[q] = pte[q]
    /\ vbits' = vbits \ PagesOf(b)

LEMMA UnmapFrames ==
    ASSUME HInv, NEW b \in live, NEW p, NEW n, Unmapping(b, p, n)
    PROVE  FramesUnmapped(b)
<1> DEFINE run == PagesOf(b)
<1>1. run \subseteq Pages /\ \A q \in run : pte[q] # NoFrame
  BY PagesOfLemma, Zenon
<1>2. /\ pte' = [q \in Pages |-> IF q \in run THEN NoFrame ELSE pte[q]]
      /\ tlb' = [q \in Pages |-> IF q \in run THEN pte[q] ELSE tlb[q]]
      /\ vbits' = vbits \ run
      /\ pbits' = pbits \ {pte[q] : q \in run}
  BY Zenon DEF Unmapping, mfree_page
<1> HIDE DEF run
<1>3. MapType'
  BY <1>2, Zenon DEF HInv, TypeOK, MapType, Pages, Frames, NoFrame
<1>4. /\ \A q \in Pages : q \in run => pte'[q] = NoFrame
      /\ \A q \in Pages : q \notin run => pte'[q] = pte[q]
  BY <1>2, Zenon
<1>5. \A f \in Frames : f # NoFrame
  BY HeapAssumption DEF Frames, NoFrame
<1>6. \A q, r \in Pages : pte[q] # NoFrame /\ pte[q] = pte[r] => q = r
  BY Zenon DEF HInv, FrameInv, Mapped
<1>7. ASSUME NEW f \in Frames
      PROVE  f \in pbits' <=> \E q \in Pages : pte'[q] = f
  <2>1. f \in pbits <=> \E q \in Pages : pte[q] = f
    BY Zenon DEF HInv, FrameInv
  <2>2. ASSUME f \in pbits' PROVE \E q \in Pages : pte'[q] = f
    <3>1. PICK q \in Pages : pte[q] = f
      BY <2>1, <2>2, <1>2, Zenon
    <3>2. q \notin run
      BY <3>1, <2>2, <1>2, Zenon
    <3> QED BY <3>1, <3>2, <1>4, Zenon
  <2>3. ASSUME NEW q \in Pages, pte'[q] = f PROVE f \in pbits'
    <3>1. q \notin run /\ pte[q] = f
      BY <2>3, <1>4, <1>5, Zenon
    <3>2. \A r \in run : pte[r] # f
      BY <3>1, <1>1, <1>6, Zenon
    <3> QED BY <3>1, <3>2, <2>1, <1>2, Zenon
  <2> QED BY <2>2, <2>3, Zenon
<1>8. ASSUME NEW q \in Pages, NEW r \in Pages, pte'[q] = pte'[r], pte'[q] # NoFrame
      PROVE  q = r
  BY <1>4, <1>6, <1>8, Zenon
<1>9. FrameInv'
  BY <1>7, <1>8, Zenon DEF FrameInv, Mapped
<1> QED BY <1>2, <1>3, <1>4, <1>9, Zenon DEF FramesUnmapped, run

(* PageInv when a block of a new arena is given out, and when an arena is  *)
(* given back with its last block.                                         *)
Gains(b, p, n) ==
    /\ b[1] = p /\ live' = live \cup {b}
    /\ PagesOf(b)' = MappedPages(p, n)
    /\ \A c \in live : PagesOf(c)' = PagesOf(c)

Loses(b) == live' = live \ {b} /\ \A c \in live' : c[1] # b[1] /\ PagesOf(c)' = PagesOf(c)

(* A new arena is mapped for block b.                                      *)
LEMMA MapPages ==
    ASSUME HInv, NEW n \in 1..MaxPages, NEW p, Mapping(p, n), NEW b, Gains(b, p, n)
    PROVE  PageInv'
<1> USE DEF Gains
<1> DEFINE run == MappedPages(p, n)
<1>1. /\ run \subseteq Pages
      /\ \A c \in live : PagesOf(c) \cap run = {} /\ c[1] # p
  BY ScanFree, Zenon DEF Mapping, FreePages
<1>2. \A q \in Pages : pte'[q] = NoFrame <=> pte[q] = NoFrame /\ q \notin run
  BY MapFrames, Zenon DEF FramesMapped
<1>3. vbits' = vbits \cup run
  BY Zenon DEF Mapping, malloc_page
<1> HIDE DEF run
<1>4. \A q \in Pages : pte'[q] # NoFrame <=> \E c \in live' : q \in PagesOf(c)'
  <2> SUFFICES ASSUME NEW q \in Pages
               PROVE  pte'[q] # NoFrame <=> \E c \in live' : q \in PagesOf(c)'
    BY Zenon
  <2>1. pte[q] # NoFrame <=> \E c \in live : q \in PagesOf(c)
    BY Zenon DEF HInv, PageInv
  <2>2. (\E c \in live' : q \in PagesOf(c)') <=> q \in run \/ \E c \in live : q \in PagesOf(c)
    BY Zenon DEF run
  <2> QED BY <2>1, <2>2, <1>2, Zenon
<1>5. \A c, e \in live' : c[1] # e[1] => PagesOf(c)' \cap PagesOf(e)' = {}
  <2> SUFFICES ASSUME NEW c \in live', NEW e \in live', c[1] # e[1]
               PROVE  PagesOf(c)' \cap PagesOf(e)' = {}
    BY Zenon
  <2>1. CASE c \in live /\ e \in live
    <3>1. PagesOf(c) \cap PagesOf(e) = {}
      BY <2>1, Zenon DEF HInv, PageInv
    <3> QED BY <3>1, <2>1, Zenon
  <2>2. CASE c \in live /\ e = b
    <3>1. PagesOf(c)' = PagesOf(c) /\ PagesOf(e)' = run /\ PagesOf(c) \cap run = {}
      BY <2>2, <1>1, Zenon DEF run
    <3> QED BY <3>1, Zenon
  <2>3. CASE e \in live /\ c = b
    <3>1. PagesOf(e)' = PagesOf(e) /\ PagesOf(c)' = run /\ PagesOf(e) \cap run = {}
      BY <2>3, <1>1, Zenon DEF run
    <3> QED BY <3>1, Zenon
  <2> QED BY <2>1, <2>2, <2>3, Zenon
<1>6. /\ \A q \in Pages : pte'[q] # NoFrame => q \in vbits'
      /\ \A q \in Frames : q \in vbits' => pte'[q] # NoFrame
  <2>1. Frames \subseteq Pages
    BY HeapAssumption DEF Frames, Pages
  <2> QED BY <2>1, <1>2, <1>3, Zenon DEF HInv, PageInv
<1> QED BY <1>4, <1>5, <1>6, Zenon DEF PageInv

(* The arena of block b is given back.                                     *)
LEMMA UnmapPages ==
    ASSUME HInv, NEW b \in live, NEW p, NEW n, Unmapping(b, p, n), Loses(b)
    PROVE  PageInv'
<1> USE DEF Loses
<1> DEFINE run == PagesOf(b)
<1>1. /\ \A q \in Pages : q \in run => pte'[q] = NoFrame
      /\ \A q \in Pages : q \notin run => pte'[q] = pte[q]
      /\ vbits' = vbits \ run
  BY UnmapFrames, Zenon DEF FramesUnmapped
<1>2. \A c \in live' : PagesOf(c) \cap run = {}
  BY Zenon DEF HInv, PageInv
<1>3. \A q \in Pages : pte'[q] # NoFrame <=> \E c \in live' : q \in PagesOf(c)'
  <2> SUFFICES ASSUME NEW q \in Pages
               PROVE  pte'[q] # NoFrame <=> \E c \in live' : q \in PagesOf(c)'
    BY Zenon
  <2>1. pte[q] # NoFrame <=> \E c \in live : q \in PagesOf(c)
    BY Zenon DEF HInv, PageInv
  <2>2. (\E c \in live' : q \in PagesOf(c)') <=> q \notin run /\ \E c \in live : q \in PagesOf(c)
    BY <1>2, Zenon
  <2> QED BY <2>1, <2>2, <1>1, Zenon
<1>4. \A c, e \in live' : c[1] # e[1] => PagesOf(c)' \cap PagesOf(e)' = {}
  BY Zenon DEF HInv, PageInv
<1>5. /\ \A q \in Pages : pte'[q] # NoFrame => q \in vbits'
      /\ \A q \in Frames : q \in vbits' => pte'[q] # NoFrame
  <2>1. Frames \subseteq Pages
    BY HeapAssumption DEF Frames, Pages
  <2> QED BY <2>1, <1>1, Zenon DEF HInv, PageInv
<1> QED BY <1>3, <1>4, <1>5, Zenon DEF PageInv

TailOf(r, S, s) ==
    /\ Head(s) \in Elems(s)
    /\ r \in Seq(S)
    /\ Elems(r) = Elems(s) \ {Head(s)}
    /\ Once(r)

(* list_pop of a list that is not empty.                                   *)
LEMMA TailOnce ==
    ASSUME NEW S, NEW s \in Seq(S), s # <<>>, Once(s)
    PROVE  TailOf(Tail(s), S, s)
<1> USE DEF TailOf
<1> DEFINE r == Tail(s)
<1>1. /\ r \in Seq(S) /\ Len(s) \in Nat /\ Len(s) >= 1 /\ Len(r) = Len(s) - 1
      /\ Head(s) = s[1] /\ \A k \in 1..Len(r) : r[k] = s[k + 1]
  OBVIOUS
<1> HIDE DEF r
<1>2. Head(s) \in Elems(s)
  <2>1. 1 \in 1..Len(s)
    BY <1>1
  <2> QED BY <2>1, <1>1, Zenon DEF Elems
<1>3. ASSUME NEW y \in Elems(r) PROVE y \in Elems(s) \ {Head(s)}
  <2>1. PICK k \in 1..Len(r) : y = r[k]
    BY <1>3, Zenon DEF Elems
  <2>2. k + 1 \in 1..Len(s) /\ 1 \in 1..Len(s) /\ k + 1 # 1 /\ y = s[k + 1]
    BY <2>1, <1>1
  <2> QED BY <2>2, <1>1, Zenon DEF Elems, Once
<1>4. ASSUME NEW y \in Elems(s) \ {Head(s)} PROVE y \in Elems(r)
  <2>1. PICK k \in 1..Len(s) : y = s[k]
    BY <1>4, Zenon DEF Elems
  <2>2. k # 1 /\ k - 1 \in 1..Len(r)
    BY <2>1, <1>1, <1>4
  <2>3. r[k - 1] = y
    BY <2>1, <2>2, <1>1
  <2> QED BY <2>2, <2>3, Zenon DEF Elems
<1>5. Once(r)
  BY <1>1 DEF Once
<1> QED BY <1>1, <1>2, <1>3, <1>4, <1>5, Zenon DEF r

(* A function on 1..n is a sequence.                                       *)
LEMMA SeqOfFunction ==
    ASSUME NEW S, NEW n \in Nat \ {0}, NEW f \in [1..n -> S]
    PROVE  f \in Seq(S) /\ Len(f) = n /\ f # <<>>
OBVIOUS

(* The blocks of an arena that are free are finitely many.                 *)
FreeIdxType(p) ==
    /\ arena[p].size \in Sizes
    /\ FreeIdx(p) \subseteq 0..blocks_per_arena(arena[p].size) - 1
    /\ IsFiniteSet(FreeIdx(p)) /\ Cardinality(FreeIdx(p)) \in Nat

LEMMA FreeIdxFinite ==
    ASSUME HInv, NEW p \in Pages, arena[p].size # 0
    PROVE  FreeIdxType(p)
<1>1. arena[p].size \in Sizes
  BY Zenon DEF HInv, TypeOK
<1>2. blocks_per_arena(arena[p].size) \in Nat
  BY <1>1, ArenaFits, HeapAssumption
<1>3. FreeIdx(p) \in SUBSET (0..blocks_per_arena(arena[p].size) - 1)
  BY Zenon DEF FreeIdx
<1>4. IsFiniteSet(0..blocks_per_arena(arena[p].size) - 1)
  BY <1>2, FS_Interval
<1>5. IsFiniteSet(FreeIdx(p))
  BY <1>3, <1>4, FS_Subset, Zenon
<1> QED BY <1>1, <1>3, <1>5, FS_CardinalityType, Zenon DEF FreeIdxType

(* The arenas other than p, and their blocks, when a step leaves them.     *)
Aside(p, q) ==
    /\ q # p /\ arena'[q] = arena[q]
    /\ \A c : c[1] # p => (c \in live' <=> c \in live)

LEMMA OtherArena ==
    ASSUME HInv, NEW p, NEW q \in Pages, Aside(p, q)
    PROVE  ArenaAt(q)'
<1> USE DEF Aside
<1> SUFFICES ASSUME arena'[q].size # 0
             PROVE  /\ \E b \in live' : b[1] = q
                    /\ arena'[q].cnt = Cardinality(FreeIdx(q)')
  BY Zenon DEF ArenaAt
<1>1. (\E b \in live : b[1] = q) /\ arena[q].cnt = Cardinality(FreeIdx(q))
  BY Zenon DEF HInv, ArenaInv, ArenaAt
<1>2. FreeIdx(q)' = FreeIdx(q)
  <2>1. \A i : <<q, i>> \in live' <=> <<q, i>> \in live
    <3> SUFFICES ASSUME NEW i PROVE <<q, i>> \in live' <=> <<q, i>> \in live
      BY Zenon
    <3>1. <<q, i>>[1] = q
      BY Zenon
    <3> QED BY <3>1, Zenon
  <2> QED BY <2>1, Zenon DEF FreeIdx
<1> QED BY <1>1, <1>2, Zenon

-----------------------------------------------------------------------------
(* What a step does to the blocks in use: the others stay where they are.  *)
Kept(c) ==
    /\ arena'[c[1]].size = arena[c[1]].size
    /\ arena[c[1]].size = 0 => arena'[c[1]].cnt = arena[c[1]].cnt
    /\ \A q \in PagesOf(c) : pte'[q] = pte[q]

Given(b) == b \notin live /\ live' = live \cup {b} /\ \A c \in live : Kept(c)

Freed(b) == b \in live /\ live' = live \ {b} /\ \A c \in live' : Kept(c)

(* A block that stays keeps its pages.                                     *)
LEMMA KeptPages ==
    ASSUME NEW c, Kept(c)
    PROVE  PagesOf(c)' = PagesOf(c)
BY Zenon DEF Kept, PagesOf, MappedPages

(* A block that stays is one of its arena.                                 *)
LEMMA KeptLive ==
    ASSUME HInv, NEW c \in live, Kept(c)
    PROVE  LiveAt(c)'
BY Zenon DEF HInv, LiveInv, LiveAt, Kept, blocks_per_arena

(* sys_malloc from a free list that is not empty.                          *)
Giving(b, d) ==
    /\ free_list[d] # <<>> /\ b = Head(free_list[d])
    /\ Give(d, free_list[d], arena)
    /\ UNCHANGED <<vbits, pbits, pte, tlb>>

(* It keeps HInv and gives the first block of the list out.                *)
LEMMA GiveStep ==
    ASSUME HInv, NEW d \in Sizes, NEW b, Giving(b, d)
    PROVE  HInv' /\ Given(b)
<1> DEFINE l == free_list[d]
<1>same. UNCHANGED <<vbits, pbits, pte, tlb>>
  BY Zenon DEF Giving
<1>1. l \in Seq(Blocks) /\ Once(l) /\ Elems(l) = Unused(d)
  BY Zenon DEF HInv, TypeOK, ListInv, ListAt
<1>2. /\ b \in Elems(l) /\ Tail(l) \in Seq(Blocks)
      /\ Elems(Tail(l)) = Elems(l) \ {b} /\ Once(Tail(l))
  BY <1>1, TailOnce, Zenon DEF Giving, TailOf
<1>3. b \in Pages \X (0..blocks_per_arena(d) - 1) /\ arena[b[1]].size = d /\ b \notin live
  BY <1>1, <1>2, Zenon DEF Unused
<1>4. PICK p \in Pages, i \in 0..blocks_per_arena(d) - 1 : b = <<p, i>>
  BY <1>3
<1>page. b[1] = p /\ b[2] = i /\ arena[p].size = d
  BY <1>3, <1>4, Zenon
<1>5. /\ free_list' = [free_list EXCEPT ![d] = Tail(l)]
      /\ arena' = [arena EXCEPT ![p].cnt = @ - 1]
      /\ live' = live \cup {b} /\ panic' = panic
  BY <1>page, Zenon DEF Giving, Give
<1> HIDE DEF l
<1>6. d # 0 /\ d \in Nat /\ blocks_per_arena(d) \in 1..PageUnits - 1 /\ PageUnits \in Nat /\ MaxPages \in Nat
  BY ArenaFits, HeapAssumption, Zenon
<1>7. /\ arena \in [Pages -> [size : Sizes \cup {0}, cnt : 0..PageUnits + MaxPages]]
      /\ free_list \in [Sizes -> Seq(Blocks)]
  BY Zenon DEF HInv, TypeOK
<1>8. \A q \in Pages : /\ arena'[q].size = arena[q].size
                       /\ q # p => arena'[q] = arena[q]
  BY <1>5, <1>7
<1>9. arena'[p].cnt = arena[p].cnt - 1 /\ arena'[p].size = d
  BY <1>5, <1>7, <1>page
\* The counter of the arena.
<1>10. FreeIdx(p)' = FreeIdx(p) \ {i} /\ i \in FreeIdx(p)
  <2>1. \A j : <<p, j>> \in live' <=> <<p, j>> \in live \/ j = i
    BY <1>5, <1>4, Zenon
  <2>2. <<p, i>> \notin live
    BY <1>3, <1>4, Zenon
  <2> QED BY <2>1, <2>2, <1>9, <1>page DEF FreeIdx, blocks_per_arena
<1>11. /\ IsFiniteSet(FreeIdx(p)) /\ Cardinality(FreeIdx(p)) \in Nat
       /\ arena[p].cnt = Cardinality(FreeIdx(p)) /\ \E c \in live : c[1] = p
  <2>1. arena[p].size # 0
    BY <1>6, <1>page, Zenon
  <2> QED BY <2>1, <1>4, FreeIdxFinite, Zenon DEF FreeIdxType, HInv, ArenaInv, ArenaAt
<1>12. Cardinality(FreeIdx(p)') = arena[p].cnt - 1 /\ arena[p].cnt - 1 \in Nat
  <2>1. /\ Cardinality(FreeIdx(p) \ {i}) = Cardinality(FreeIdx(p)) - 1
        /\ IsFiniteSet(FreeIdx(p) \ {i})
    BY <1>10, <1>11, FS_RemoveElement, Zenon
  <2>2. Cardinality(FreeIdx(p) \ {i}) \in Nat
    BY <2>1, FS_CardinalityType, Zenon
  <2> QED BY <2>1, <2>2, <1>10, <1>11, Zenon
<1>13. TypeOK'
  <2>1. arena[p] \in [size : Sizes \cup {0}, cnt : 0..PageUnits + MaxPages]
    BY <1>4, <1>7, Zenon
  <2>2. arena[p].cnt - 1 \in 0..PageUnits + MaxPages
    BY <2>1, <1>6, <1>12
  <2>3. arena' \in [Pages -> [size : Sizes \cup {0}, cnt : 0..PageUnits + MaxPages]]
    BY <2>2, <1>5, <1>7, Zenon
  <2>4. free_list' \in [Sizes -> Seq(Blocks)]
    BY <1>2, <1>5, <1>7
  <2>5. b \in Blocks
    BY <1>4, <1>6 DEF Blocks
  <2> QED BY <2>3, <2>4, <2>5, <1>5, <1>same DEF HInv, TypeOK
<1>14. ASSUME NEW c \in live PROVE Kept(c)
  <2>1. c[1] \in Pages
    BY LiveType, Zenon DEF BlockType, HInv
  <2>2. c[1] = p => arena[c[1]].size # 0
    BY <1>6, <1>page, Zenon
  <2> QED BY <2>1, <2>2, <1>8, <1>same DEF Kept
<1>15. Given(b)
  BY <1>5, <1>3, <1>14 DEF Given
<1>16. LiveInv'
  <2> SUFFICES ASSUME NEW c \in live' PROVE LiveAt(c)'
    BY Zenon DEF LiveInv
  <2>1. CASE c \in live
    BY <2>1, <1>14, KeptLive, Zenon
  <2>2. CASE c = b
    BY <2>2, <1>6, <1>9, <1>page DEF LiveAt, blocks_per_arena
  <2> QED BY <2>1, <2>2, <1>5
<1>17. ArenaInv'
  <2> SUFFICES ASSUME NEW q \in Pages PROVE ArenaAt(q)'
    BY Zenon DEF ArenaInv, Pages
  <2>1. CASE q = p
    BY <2>1, <1>5, <1>9, <1>11, <1>12, Zenon DEF ArenaAt
  <2>2. CASE q # p
    <3>1. Aside(p, q)
      BY <2>2, <1>5, <1>8, <1>page, Zenon DEF Aside
    <3> QED BY <3>1, OtherArena, Zenon
  <2> QED BY <2>1, <2>2, Zenon
<1>18. ListInv'
  <2> SUFFICES ASSUME NEW e \in Sizes
               PROVE  Once(free_list'[e]) /\ Elems(free_list'[e]) = Unused(e)'
    BY Zenon DEF ListInv, ListAt, Once, Elems
  <2>1. \A c \in Pages \X (0..blocks_per_arena(e) - 1) : arena'[c[1]].size = arena[c[1]].size
    BY <1>8, Zenon
  <2>2. Unused(e)' = Unused(e) \ {b}
    <3>1. Unused(e)' = {c \in Pages \X (0..blocks_per_arena(e) - 1) : arena'[c[1]].size = e /\ c \notin live'}
      BY Zenon DEF Unused, Pages, blocks_per_arena
    <3> QED BY <3>1, <2>1, <1>5, Zenon DEF Unused
  <2>3. CASE e = d
    BY <2>2, <2>3, <1>1, <1>2, <1>5, <1>7, Zenon DEF l
  <2>4. CASE e # d
    <3>1. b \notin Unused(e)
      BY <2>4, <1>3, Zenon DEF Unused
    <3>2. free_list'[e] = free_list[e]
      BY <2>4, <1>5, <1>7
    <3> QED BY <3>1, <3>2, <2>2, Zenon DEF HInv, ListInv, ListAt
  <2> QED BY <2>3, <2>4, Zenon
<1>19. PageInv'
  <2>1. \A c \in live : PagesOf(c)' = PagesOf(c)
    BY <1>14, KeptPages, Zenon
  <2>2. PICK c0 \in live : c0[1] = p
    BY <1>11, Zenon
  <2>3. PagesOf(b)' = {p} /\ PagesOf(c0) = {p}
    BY <2>2, <1>6, <1>9, <1>page, Zenon DEF PagesOf
  <2>4. \A q \in Pages : pte'[q] # NoFrame <=> \E c \in live' : q \in PagesOf(c)'
    <3> SUFFICES ASSUME NEW q \in Pages
                 PROVE  pte[q] # NoFrame <=> \E c \in live' : q \in PagesOf(c)'
      BY <1>same, Zenon
    <3>1. pte[q] # NoFrame <=> \E c \in live : q \in PagesOf(c)
      BY Zenon DEF HInv, PageInv
    <3> QED BY <3>1, <2>1, <2>2, <2>3, <1>5, Zenon
  <2>5. \A c, e \in live : c[1] # e[1] => PagesOf(c) \cap PagesOf(e) = {}
    BY Zenon DEF HInv, PageInv
  <2>6. \A c \in live : c[1] # p => PagesOf(c) \cap {p} = {}
    BY <2>2, <2>3, <2>5, Zenon
  <2>7. \A c, e \in live' : c[1] # e[1] => PagesOf(c)' \cap PagesOf(e)' = {}
    <3> SUFFICES ASSUME NEW c \in live', NEW e \in live', c[1] # e[1]
                 PROVE  PagesOf(c)' \cap PagesOf(e)' = {}
      BY Zenon
    <3>1. CASE c \in live /\ e \in live
      BY <3>1, <2>1, <2>5, Zenon
    <3>2. CASE c \in live /\ e = b
      BY <3>2, <2>1, <2>3, <2>6, <1>page
    <3>3. CASE c = b /\ e \in live
      BY <3>3, <2>1, <2>3, <2>6, <1>page
    <3> QED BY <3>1, <3>2, <3>3, <1>5, Zenon
  <2> QED BY <2>4, <2>7, <1>same, Zenon DEF HInv, PageInv
<1>20. FrameInv' /\ NoAssertFails'
  BY <1>5, <1>same, Zenon DEF HInv, FrameInv, Mapped, NoAssertFails
<1> QED BY <1>13, <1>15, <1>16, <1>17, <1>18, <1>19, <1>20 DEF HInv

(* What the two kinds of new arena have in common: a page that was free    *)
(* becomes the header of the arena of a new block.                         *)
Opening(p, n, h) ==
    /\ h.size \in Sizes \cup {0}
    /\ h.size = 0 => h.cnt = n
    /\ h.size # 0 => n = 1
    /\ arena'[p] = h /\ \A q \in Pages : q # p => arena'[q] = arena[q]
    /\ live' = live \cup {<<p, 0>>}

Opened(p) ==
    /\ Given(<<p, 0>>) /\ LiveInv' /\ PageInv' /\ FrameInv'
    /\ p \in Pages /\ arena[p].size = 0
    /\ \A c \in live : c[1] # p

(* What holds afterwards.                                                  *)
LEMMA NewArena ==
    ASSUME HInv, NEW n \in 1..MaxPages, NEW p, Mapping(p, n), NEW h, Opening(p, n, h)
    PROVE  Opened(p)
<1> USE DEF Opening
<1>1. /\ p \in Pages /\ p \in Int /\ p + n <= NPages + 1
      /\ \A c \in live : c[1] # p
      /\ MappedPages(p, n) \subseteq Pages
  BY ScanFree DEF Mapping, FreePages
<1>2. arena[p].size = 0
  BY <1>1, Zenon DEF HInv, ArenaInv, ArenaAt
<1>3. <<p, 0>> \notin live
  BY <1>1, Zenon
<1>4. ASSUME NEW c \in live PROVE Kept(c)
  <2>1. c[1] \in Pages /\ c[1] # p
    BY <1>1, LiveType, Zenon DEF BlockType, HInv
  <2>2. PagesOf(c) \subseteq Pages /\ \A q \in PagesOf(c) : pte[q] # NoFrame
    BY PagesOfLemma, Zenon
  <2>3. \A q \in Pages : pte[q] # NoFrame => pte'[q] = pte[q]
    BY MapFrames, Zenon DEF FramesMapped
  <2> QED BY <2>1, <2>2, <2>3, Zenon DEF Kept
<1>5. Given(<<p, 0>>)
  BY <1>3, <1>4, Zenon DEF Given
<1>6. LiveInv'
  <2> SUFFICES ASSUME NEW c \in live' PROVE LiveAt(c)'
    BY Zenon DEF LiveInv
  <2>1. CASE c \in live
    BY <2>1, <1>4, KeptLive, Zenon
  <2>2. CASE c = <<p, 0>>
    <3>1. c[1] = p /\ c[2] = 0
      BY <2>2, Zenon
    <3>2. h.size # 0 => blocks_per_arena(h.size) \in 1..PageUnits - 1
      BY ArenaFits, Zenon
    <3>3. PageUnits \in Nat
      BY HeapAssumption, Zenon
    <3> QED BY <3>1, <3>2, <3>3, <1>1 DEF LiveAt, blocks_per_arena
  <2> QED BY <2>1, <2>2, Zenon
<1>7. PageInv'
  <2>1. \A c \in live : PagesOf(c)' = PagesOf(c)
    BY <1>4, KeptPages, Zenon
  <2>2. PagesOf(<<p, 0>>)' = MappedPages(p, n)
    <3>1. h.size # 0 => MappedPages(p, n) = {p}
      BY <1>1 DEF MappedPages
    <3>2. <<p, 0>>[1] = p
      BY Zenon
    <3> QED BY <3>1, <3>2, Zenon DEF PagesOf, MappedPages
  <2>3. <<p, 0>>[1] = p
    OBVIOUS
  <2>4. Gains(<<p, 0>>, p, n)
    BY <2>1, <2>2, <2>3, Zenon DEF Gains
  <2> QED BY <2>4, MapPages, Zenon
<1>8. FrameInv'
  BY MapFrames, Zenon DEF FramesMapped
<1> QED BY <1>1, <1>2, <1>5, <1>6, <1>7, <1>8 DEF Opened

(* sys_malloc of more than 1024 bytes that finds pages.                    *)
Enlarging(p, n) ==
    /\ Mapping(p, n)
    /\ arena' = [arena EXCEPT ![p] = [size |-> 0, cnt |-> n]]
    /\ live' = live \cup {<<p, 0>>}
    /\ UNCHANGED <<free_list, panic>>

LEMMA LargeStep ==
    ASSUME HInv, NEW n \in 1..MaxPages, NEW p, Enlarging(p, n)
    PROVE  HInv' /\ Given(<<p, 0>>)
<1> DEFINE h == [size |-> 0, cnt |-> n]
<1>1. PageUnits \in Nat \ {0} /\ MaxPages \in Nat
  BY HeapAssumption, Zenon
<1>2. h \in [size : Sizes \cup {0}, cnt : 0..PageUnits + MaxPages] /\ h.size = 0 /\ h.cnt = n
  BY <1>1
<1> HIDE DEF h
<1>3. arena'[p] = h /\ \A q \in Pages : q # p => arena'[q] = arena[q]
  <2>1. p \in Pages
    BY ScanFree, Zenon DEF Enlarging, Mapping, FreePages
  <2> QED BY <2>1, Zenon DEF HInv, TypeOK, Enlarging, h
<1>4. /\ Given(<<p, 0>>) /\ LiveInv' /\ PageInv' /\ FrameInv'
      /\ p \in Pages /\ arena[p].size = 0
      /\ \A c \in live : c[1] # p
  <2>1. Opening(p, n, h)
    BY <1>2, <1>3, Zenon DEF Opening, Enlarging
  <2> QED BY <2>1, NewArena, Zenon DEF Enlarging, Opened
<1>5. TypeOK'
  <2>1. MapType'
    BY MapFrames, Zenon DEF FramesMapped, Enlarging
  <2>2. arena' \in [Pages -> [size : Sizes \cup {0}, cnt : 0..PageUnits + MaxPages]]
    BY <1>2, Zenon DEF HInv, TypeOK, Enlarging, h
  <2>3. <<p, 0>> \in Blocks
    BY <1>1, <1>4 DEF Blocks
  <2> QED BY <2>1, <2>2, <2>3, Zenon DEF HInv, TypeOK, MapType, Enlarging, Pages, Frames, NoFrame, Blocks
<1>6. ArenaInv'
  <2> SUFFICES ASSUME NEW q \in Pages PROVE ArenaAt(q)'
    BY Zenon DEF ArenaInv, Pages
  <2>1. CASE q = p
    BY <2>1, <1>2, <1>3, Zenon DEF ArenaAt
  <2>2. CASE q # p
    <3>1. Aside(p, q)
      BY <2>2, <1>3 DEF Aside, Enlarging
    <3> QED BY <3>1, OtherArena, Zenon
  <2> QED BY <2>1, <2>2, Zenon
<1>7. ListInv'
  <2> SUFFICES ASSUME NEW e \in Sizes
               PROVE  Once(free_list[e]) /\ Elems(free_list[e]) = Unused(e)'
    BY Zenon DEF ListInv, ListAt, Once, Elems, Enlarging
  <2>1. Unused(e)' = {c \in Pages \X (0..blocks_per_arena(e) - 1) : arena'[c[1]].size = e /\ c \notin live'}
    BY Zenon DEF Unused, Pages, blocks_per_arena
  <2>2. e # 0
    BY SizeNotZero, Zenon
  <2>3. ASSUME NEW c \in Pages \X (0..blocks_per_arena(e) - 1)
        PROVE  arena'[c[1]].size = e /\ c \notin live' <=> arena[c[1]].size = e /\ c \notin live
    <3>1. CASE c[1] = p
      BY <3>1, <2>2, <1>2, <1>3, <1>4, Zenon
    <3>2. CASE c[1] # p
      BY <3>2, <1>3 DEF Enlarging
    <3> QED BY <3>1, <3>2, Zenon
  <2>4. Unused(e)' = Unused(e)
    BY <2>1, <2>3, Zenon DEF Unused
  <2> QED BY <2>4, Zenon DEF HInv, ListInv, ListAt
<1> QED BY <1>4, <1>5, <1>6, <1>7, Zenon DEF HInv, NoAssertFails, Enlarging

(* sys_malloc of a block when the free list is empty: a new arena.         *)
Splitting(d, p) ==
    /\ free_list[d] = <<>> /\ Mapping(p, 1)
    /\ Give(d, [i \in 1..blocks_per_arena(d) |-> <<p, i - 1>>],
            [arena EXCEPT ![p] = [size |-> d, cnt |-> blocks_per_arena(d)]])

LEMMA SplitStep ==
    ASSUME HInv, NEW d \in Sizes, NEW p, Splitting(d, p)
    PROVE  HInv' /\ Given(<<p, 0>>)
<1> DEFINE n == blocks_per_arena(d)
<1>1. /\ PageUnits \in Nat \ {0} /\ MaxPages \in Nat \ {0} /\ 1 \in 1..MaxPages
      /\ n \in 1..PageUnits - 1 /\ n \in Nat /\ d \in Nat \ {0}
  BY ArenaFits, HeapAssumption
<1>2. p \in Pages /\ Mapping(p, 1)
  BY <1>1, ScanFree, Zenon DEF Splitting, Mapping, FreePages
<1> HIDE DEF n
<1>l. PICK l : l = [i \in 1..n |-> <<p, i - 1>>]
  BY Zenon
<1>h. PICK h : h = [arena EXCEPT ![p] = [size |-> d, cnt |-> n]]
  BY Zenon
<1>3. l \in Seq(Blocks) /\ Len(l) = n /\ l # <<>> /\ \A i \in 1..n : l[i] = <<p, i - 1>>
  <2>1. ASSUME NEW i \in 1..n PROVE <<p, i - 1>> \in Blocks
    BY <1>1, <1>2 DEF Blocks
  <2>2. l \in [1..n -> Blocks]
    BY <2>1, <1>l, Zenon
  <2>3. n \in Nat \ {0}
    BY <1>1
  <2>4. l \in Seq(Blocks) /\ Len(l) = n /\ l # <<>>
    <3>1. \A f \in [1..n -> Blocks] : f \in Seq(Blocks) /\ Len(f) = n /\ f # <<>>
      BY <2>3, SeqOfFunction, Zenon
    <3> QED BY <3>1, <2>2, Zenon
  <2>5. \A i \in 1..n : l[i] = <<p, i - 1>>
    BY <1>l, Zenon
  <2> QED BY <2>4, <2>5, Zenon
<1>4. Head(l) = <<p, 0>> /\ Head(l)[1] = p
  <2>1. Head(l) = l[1] /\ l[1] = <<p, 1 - 1>> /\ 1 - 1 = 0
    BY <1>1, <1>3
  <2> QED BY <2>1
<1>5. /\ free_list' = [free_list EXCEPT ![d] = Tail(l)]
      /\ arena' = [h EXCEPT ![p].cnt = @ - 1]
      /\ live' = live \cup {<<p, 0>>} /\ panic' = panic
  BY <1>4, <1>l, <1>h, Zenon DEF Splitting, Give, n
<1> DEFINE g == [size |-> d, cnt |-> n - 1]
<1>6. /\ g \in [size : Sizes \cup {0}, cnt : 0..PageUnits + MaxPages]
      /\ g.size = d /\ g.cnt = n - 1
  BY <1>1
<1>7. arena \in [Pages -> [size : Sizes \cup {0}, cnt : 0..PageUnits + MaxPages]]
  BY Zenon DEF HInv, TypeOK
<1>8. arena' = [arena EXCEPT ![p] = g]
  <2>1. h[p] = [size |-> d, cnt |-> n] /\ \A q \in Pages : q # p => h[q] = arena[q]
    BY <1>2, <1>7, <1>h, Zenon
  <2>2. h = [q \in Pages |-> h[q]]
    BY <1>7, <1>h, Zenon
  <2>3. arena' = [q \in Pages |-> IF q = p THEN [h[p] EXCEPT !.cnt = @ - 1] ELSE h[q]]
    BY <2>2, <1>5, Zenon
  <2>4. [h[p] EXCEPT !.cnt = @ - 1] = g
    BY <2>1
  <2> HIDE DEF g
  <2> QED BY <2>1, <2>3, <2>4, <1>7, Zenon
<1> HIDE DEF g
<1>9. arena'[p] = g /\ \A q \in Pages : q # p => arena'[q] = arena[q]
  BY <1>2, <1>7, <1>8, Zenon
<1>10. /\ Given(<<p, 0>>) /\ LiveInv' /\ PageInv' /\ FrameInv'
       /\ arena[p].size = 0 /\ \A c \in live : c[1] # p
  <2>1. Opening(p, 1, g)
    BY <1>1, <1>5, <1>6, <1>9, Zenon DEF Opening
  <2> QED BY <2>1, <1>1, <1>2, NewArena, Zenon DEF Opened
<1>11. l \in Seq(Blocks) /\ Once(l) /\ Elems(l) = {<<p, i>> : i \in 0..n - 1}
  <2>1. Once(l)
    <3> SUFFICES ASSUME NEW i \in 1..n, NEW j \in 1..n, l[i] = l[j] PROVE i = j
      BY <1>3, Zenon DEF Once
    <3>1. <<p, i - 1>> = <<p, j - 1>>
      BY <1>3, Zenon
    <3> QED BY <3>1
  <2>2. ASSUME NEW x \in Elems(l) PROVE x \in {<<p, i>> : i \in 0..n - 1}
    <3>1. PICK k \in 1..n : x = <<p, k - 1>>
      BY <1>3, Zenon DEF Elems
    <3>2. k - 1 \in 0..n - 1
      BY <1>1
    <3> QED BY <3>1, <3>2, Zenon
  <2>3. ASSUME NEW i \in 0..n - 1 PROVE <<p, i>> \in Elems(l)
    <3>1. i + 1 \in 1..n /\ (i + 1) - 1 = i
      BY <1>1
    <3>2. l[i + 1] = <<p, i>>
      BY <3>1, <1>3, Zenon
    <3> QED BY <3>1, <3>2, <1>3, Zenon DEF Elems
  <2> QED BY <2>1, <2>2, <2>3, <1>3, Zenon
<1>12. /\ Tail(l) \in Seq(Blocks) /\ Once(Tail(l))
       /\ Elems(Tail(l)) = {<<p, i>> : i \in 1..n - 1}
  <2>1. /\ Tail(l) \in Seq(Blocks) /\ Once(Tail(l))
        /\ Elems(Tail(l)) = Elems(l) \ {<<p, 0>>}
    BY <1>3, <1>4, <1>11, TailOnce, Zenon DEF TailOf
  <2>2. {<<p, i>> : i \in 0..n - 1} \ {<<p, 0>>} = {<<p, i>> : i \in 1..n - 1}
    BY <1>1
  <2> QED BY <2>1, <2>2, <1>11, Zenon
<1>13. TypeOK'
  <2>1. MapType'
    BY <1>1, <1>2, MapFrames, Zenon DEF FramesMapped
  <2>2. arena' \in [Pages -> [size : Sizes \cup {0}, cnt : 0..PageUnits + MaxPages]]
    BY <1>6, <1>7, <1>8, Zenon
  <2>3. <<p, 0>> \in Blocks
    BY <1>1, <1>2 DEF Blocks
  <2>4. free_list' \in [Sizes -> Seq(Blocks)]
    BY <1>5, <1>12, Zenon DEF HInv, TypeOK
  <2> QED BY <2>1, <2>2, <2>3, <2>4, <1>5, Zenon DEF HInv, TypeOK, MapType, Pages, Frames, NoFrame, Blocks
<1>14. ArenaInv'
  <2> SUFFICES ASSUME NEW q \in Pages PROVE ArenaAt(q)'
    BY Zenon DEF ArenaInv, Pages
  <2>1. CASE q = p
    <3>1. \A i : <<p, i>> \in live' <=> i = 0
      BY <1>5, <1>10, Zenon
    <3>2. FreeIdx(p)' = 1..n - 1
      BY <3>1, <1>1, <1>6, <1>9 DEF FreeIdx, n, blocks_per_arena
    <3>3. Cardinality(1..n - 1) = n - 1
      BY <1>1, FS_Interval
    <3>4. <<p, 0>> \in live' /\ <<p, 0>>[1] = p
      BY <1>5, Zenon
    <3> QED BY <3>2, <3>3, <3>4, <2>1, <1>6, <1>9 DEF ArenaAt
  <2>2. CASE q # p
    <3>1. Aside(p, q)
      BY <2>2, <1>5, <1>9 DEF Aside
    <3> QED BY <3>1, OtherArena, Zenon
  <2> QED BY <2>1, <2>2, Zenon
<1>15. ListInv'
  <2> SUFFICES ASSUME NEW e \in Sizes
               PROVE  Once(free_list'[e]) /\ Elems(free_list'[e]) = Unused(e)'
    BY Zenon DEF ListInv, ListAt, Once, Elems
  <2>1. Unused(e)' = {c \in Pages \X (0..blocks_per_arena(e) - 1) : arena'[c[1]].size = e /\ c \notin live'}
    BY Zenon DEF Unused, Pages, blocks_per_arena
  <2>2. e # 0
    BY SizeNotZero, Zenon
  <2>3. Once(free_list[e]) /\ Elems(free_list[e]) = Unused(e)
    BY Zenon DEF HInv, ListInv, ListAt
  <2>4. CASE e # d
    <3>1. ASSUME NEW c \in Pages \X (0..blocks_per_arena(e) - 1)
          PROVE  arena'[c[1]].size = e /\ c \notin live' <=> arena[c[1]].size = e /\ c \notin live
      <4>1. CASE c[1] = p
        BY <4>1, <2>2, <2>4, <1>6, <1>9, <1>10, Zenon
      <4>2. CASE c[1] # p
        <5>1. c # <<p, 0>> /\ c[1] \in Pages
          BY <4>2
        <5> QED BY <5>1, <4>2, <1>5, <1>9, Zenon
      <4> QED BY <4>1, <4>2, Zenon
    <3>2. Unused(e)' = Unused(e)
      BY <2>1, <3>1, Zenon DEF Unused
    <3>3. free_list'[e] = free_list[e]
      BY <2>4, <1>5, Zenon DEF HInv, TypeOK
    <3> QED BY <3>2, <3>3, <2>3, Zenon
  <2>5. CASE e = d
    <3>1. free_list'[e] = Tail(l)
      BY <2>5, <1>5, Zenon DEF HInv, TypeOK
    <3>2. \A c \in Pages \X (0..n - 1) : ~(arena[c[1]].size = d /\ c \notin live)
      BY <2>3, <2>5 DEF Splitting, Unused, Elems, n
    <3>3. ASSUME NEW c \in Unused(e)' PROVE c \in {<<p, i>> : i \in 1..n - 1}
      <4>1. c \in Pages \X (0..n - 1) /\ arena'[c[1]].size = d /\ c \notin live'
        BY <2>1, <2>5, Zenon DEF n
      <4>2. c[1] = p
        BY <4>1, <3>2, <1>5, <1>9, Zenon
      <4>3. c = <<p, c[2]>> /\ c[2] \in 0..n - 1 /\ c[2] # 0
        BY <4>1, <4>2, <1>5
      <4> QED BY <4>3, <1>1
    <3>4. ASSUME NEW i \in 1..n - 1 PROVE <<p, i>> \in Unused(e)'
      <4>1. <<p, i>> \in Pages \X (0..n - 1) /\ <<p, i>>[1] = p
        BY <1>1, <1>2
      <4>2. <<p, i>> \notin live'
        BY <1>5, <1>10
      <4>3. arena'[p].size = e
        BY <1>6, <1>9, <2>5, Zenon
      <4> QED BY <4>1, <4>2, <4>3, <2>1, <2>5, Zenon DEF n
    <3>5. Unused(e)' = {<<p, i>> : i \in 1..n - 1}
      BY <3>3, <3>4, Zenon
    <3> QED BY <3>1, <3>5, <1>12, Zenon
  <2> QED BY <2>4, <2>5, Zenon
<1> QED BY <1>5, <1>10, <1>13, <1>14, <1>15, Zenon DEF HInv, NoAssertFails

(* sys_free of a large block.                                              *)
FreeingLarge(b, p) ==
    /\ p = b[1] /\ arena[p].size = 0
    /\ live' = live \ {b}
    /\ mfree_page(p, arena[p].cnt)
    /\ arena' = [arena EXCEPT ![p].cnt = 0]
    /\ UNCHANGED <<free_list, panic>>

LEMMA FreeLargeStep ==
    ASSUME HInv, NEW b \in live, NEW p, FreeingLarge(b, p)
    PROVE  HInv' /\ Freed(b)
<1>page. p = b[1] /\ arena[p].size = 0
  BY Zenon DEF FreeingLarge
<1>live. live' = live \ {b}
  BY Zenon DEF FreeingLarge
<1>same. UNCHANGED <<free_list, panic>>
  BY Zenon DEF FreeingLarge
<1>1. p \in Pages /\ b = <<p, b[2]>>
  BY <1>page, LiveType, Zenon DEF BlockType, HInv
<1>2. \A c \in live : c[1] = p => c = b
  <2>1. \A c \in live : c[1] = p => c[2] = 0
    BY <1>page, Zenon DEF HInv, LiveInv, LiveAt
  <2>2. \A c \in live : c = <<c[1], c[2]>>
    BY LiveType, Zenon DEF BlockType, HInv
  <2> QED BY <2>1, <2>2, <1>page, Zenon
<1>3. arena \in [Pages -> [size : Sizes \cup {0}, cnt : 0..PageUnits + MaxPages]]
  BY Zenon DEF HInv, TypeOK
<1>4. /\ arena' \in [Pages -> [size : Sizes \cup {0}, cnt : 0..PageUnits + MaxPages]]
      /\ arena'[p].size = 0
      /\ \A q \in Pages : q # p => arena'[q] = arena[q]
  BY <1>1, <1>3, <1>page, HeapAssumption DEF FreeingLarge
<1>5. PICK n : n = arena[p].cnt
  BY Zenon
<1>6. Unmapping(b, p, n)
  BY <1>5, <1>page, Zenon DEF Unmapping, FreeingLarge, PagesOf
<1>7. ASSUME NEW c \in live' PROVE c[1] # p /\ Kept(c)
  <2>1. c \in live /\ c[1] # p /\ c[1] \in Pages
    BY <1>2, <1>live, LiveType, Zenon DEF BlockType, HInv
  <2>2. PagesOf(c) \subseteq Pages /\ PagesOf(c) \cap PagesOf(b) = {}
    BY <2>1, <1>page, PagesOfLemma, Zenon DEF HInv, PageInv
  <2>3. \A q \in Pages : q \notin PagesOf(b) => pte'[q] = pte[q]
    BY <1>6, UnmapFrames, Zenon DEF FramesUnmapped
  <2> QED BY <2>1, <2>2, <2>3, <1>4 DEF Kept
<1>8. Freed(b)
  BY <1>7, <1>live, Zenon DEF Freed
<1>9. TypeOK'
  <2>1. MapType'
    BY <1>6, UnmapFrames, Zenon DEF FramesUnmapped
  <2> QED BY <2>1, <1>4, <1>live, <1>same DEF HInv, TypeOK, MapType, Pages, Frames, NoFrame, Blocks
<1>10. LiveInv'
  <2> SUFFICES ASSUME NEW c \in live' PROVE LiveAt(c)'
    BY Zenon DEF LiveInv
  <2> QED BY <1>7, <1>live, KeptLive, Zenon
<1>11. ArenaInv'
  <2> SUFFICES ASSUME NEW q \in Pages PROVE ArenaAt(q)'
    BY Zenon DEF ArenaInv, Pages
  <2>1. CASE q = p
    BY <2>1, <1>4, Zenon DEF ArenaAt
  <2>2. CASE q # p
    <3>1. Aside(p, q)
      BY <2>2, <1>4, <1>live, <1>page, Zenon DEF Aside
    <3> QED BY <3>1, OtherArena, Zenon
  <2> QED BY <2>1, <2>2, Zenon
<1>12. ListInv'
  <2> SUFFICES ASSUME NEW e \in Sizes
               PROVE  Once(free_list[e]) /\ Elems(free_list[e]) = Unused(e)'
    BY <1>same, Zenon DEF ListInv, ListAt, Once, Elems
  <2>1. Unused(e)' = {c \in Pages \X (0..blocks_per_arena(e) - 1) : arena'[c[1]].size = e /\ c \notin live'}
    BY Zenon DEF Unused, Pages, blocks_per_arena
  <2>2. e # 0
    BY SizeNotZero, Zenon
  <2>3. ASSUME NEW c \in Pages \X (0..blocks_per_arena(e) - 1)
        PROVE  arena'[c[1]].size = e /\ c \notin live' <=> arena[c[1]].size = e /\ c \notin live
    <3>1. CASE c[1] = p
      BY <3>1, <2>2, <1>4, <1>page, Zenon
    <3>2. CASE c[1] # p
      BY <3>2, <1>4, <1>live, <1>page, Zenon
    <3> QED BY <3>1, <3>2, Zenon
  <2>4. Unused(e)' = Unused(e)
    BY <2>1, <2>3, Zenon DEF Unused
  <2> QED BY <2>4, Zenon DEF HInv, ListInv, ListAt
<1>13. PageInv'
  <2>1. Loses(b)
    BY <1>7, <1>live, <1>page, KeptPages, Zenon DEF Loses
  <2> QED BY <2>1, <1>6, UnmapPages, Zenon
<1>14. FrameInv'
  BY <1>6, UnmapFrames, Zenon DEF FramesUnmapped
<1> QED BY <1>same, <1>8, <1>9, <1>10, <1>11, <1>12, <1>13, <1>14 DEF HInv, NoAssertFails

(* The counter of an arena when one of its blocks is freed.                *)
Counted(b, p, d) ==
    /\ p \in Pages /\ d \in Sizes /\ b[2] \in 0..blocks_per_arena(d) - 1 /\ b = <<p, b[2]>>
    /\ blocks_per_arena(d) \in 1..PageUnits - 1
    /\ arena[p].cnt \in Nat
    /\ Cardinality(FreeIdx(p) \cup {b[2]}) = arena[p].cnt + 1
    /\ arena[p].cnt + 1 <= blocks_per_arena(d)
    /\ arena[p].cnt + 1 = blocks_per_arena(d) <=> \A c \in live : c[1] = p => c = b

(* It is one more than before, and reaches the blocks of the arena with    *)
(* the last block in use.                                                  *)
LEMMA FreedCount ==
    ASSUME HInv, NEW b \in live, NEW p, p = b[1], NEW d, d = arena[p].size, d # 0
    PROVE  Counted(b, p, d)
<1>1. /\ p \in Pages /\ b = <<p, b[2]>> /\ b[2] \in Nat /\ d \in Sizes
      /\ b[2] < blocks_per_arena(d)
  BY LiveType, Zenon DEF BlockType, HInv, LiveInv, LiveAt
<1>2. blocks_per_arena(d) \in 1..PageUnits - 1 /\ PageUnits \in Nat
  BY <1>1, ArenaFits, HeapAssumption, Zenon
<1> DEFINE n == blocks_per_arena(d)
           F == FreeIdx(p)
           G == F \cup {b[2]}
<1>3. /\ F \subseteq 0..n - 1 /\ IsFiniteSet(F) /\ Cardinality(F) \in Nat
      /\ arena[p].cnt = Cardinality(F)
  BY <1>1, FreeIdxFinite, Zenon DEF FreeIdxType, HInv, ArenaInv, ArenaAt
<1>4. F = {i \in 0..n - 1 : <<p, i>> \notin live}
  BY Zenon DEF FreeIdx
<1>5. b[2] \in 0..n - 1 /\ b[2] \notin F
  BY <1>1, <1>2, <1>4
<1> HIDE DEF F, n
<1>6. Cardinality(G) = Cardinality(F) + 1
  BY <1>3, <1>5, FS_AddElement, Zenon
<1>7. IsFiniteSet(0..n - 1) /\ Cardinality(0..n - 1) = n
  <2>1. 0 \in Int /\ n - 1 \in Int /\ ~(0 > n - 1) /\ n - 1 - 0 + 1 = n
    BY <1>2 DEF n
  <2> QED BY <2>1, FS_Interval, Zenon
<1>8. G \in SUBSET (0..n - 1)
  BY <1>3, <1>5, Zenon
<1> HIDE DEF G
<1>9. Cardinality(G) <= n /\ (Cardinality(G) = n => G = 0..n - 1)
  BY <1>7, <1>8, FS_Subset, Zenon
<1>10. G = 0..n - 1 <=> \A c \in live : c[1] = p => c = b
  <2>1. ASSUME G = 0..n - 1, NEW c \in live, c[1] = p PROVE c = b
    <3>1. c = <<p, c[2]>> /\ c[2] \in Nat /\ c[2] < n
      BY <2>1, <1>1, LiveType, Zenon DEF BlockType, HInv, LiveInv, LiveAt, n
    <3>2. c[2] \in 0..n - 1 /\ c[2] \notin F
      BY <3>1, <2>1, <1>2, <1>4 DEF n
    <3>3. c[2] = b[2]
      BY <3>2, <2>1, Zenon DEF G
    <3> QED BY <3>1, <3>3, <1>1, Zenon
  <2>2. ASSUME \A c \in live : c[1] = p => c = b, NEW i \in 0..n - 1 PROVE i \in G
    <3>1. CASE <<p, i>> \in live
      <4>1. <<p, i>> = b
        BY <3>1, <2>2, Zenon
      <4> QED BY <4>1, <1>1 DEF G
    <3>2. CASE <<p, i>> \notin live
      BY <3>2, <1>4, Zenon DEF G
    <3> QED BY <3>1, <3>2, Zenon
  <2> QED BY <2>1, <2>2, <1>8, Zenon
<1> QED BY <1>1, <1>2, <1>3, <1>5, <1>6, <1>7, <1>9, <1>10, Zenon DEF n, F, G, Counted

(* sys_free of the last block in use of an arena: the blocks of the arena  *)
(* are all found in the free list, and the page is given back.             *)
Releasing(b, p, d) ==
    /\ p = b[1] /\ d = arena[p].size /\ d # 0
    /\ live' = live \ {b}
    /\ arena[p].cnt + 1 = blocks_per_arena(d)
    /\ ReleaseArena(p, d, Append(free_list[d], b))

LEMMA ReleaseStep ==
    ASSUME HInv, NEW b \in live, NEW p, NEW d, Releasing(b, p, d)
    PROVE  HInv' /\ Freed(b)
<1>page. p = b[1]
  BY Zenon DEF Releasing
<1>size. d = arena[p].size /\ d # 0
  BY Zenon DEF Releasing
<1>live. live' = live \ {b}
  BY Zenon DEF Releasing
<1>0. Counted(b, p, d)
  BY FreedCount, Zenon DEF Releasing
<1>1. /\ p \in Pages /\ d \in Sizes /\ b[2] \in 0..blocks_per_arena(d) - 1 /\ b = <<p, b[2]>>
      /\ blocks_per_arena(d) \in 1..PageUnits - 1 /\ PageUnits \in Nat
      /\ \A c \in live : c[1] = p => c = b
  BY <1>0, HeapAssumption, Zenon DEF Counted, Releasing
<1>2. /\ free_list[d] \in Seq(Blocks) /\ Once(free_list[d]) /\ Elems(free_list[d]) = Unused(d)
      /\ b \in Blocks /\ b \notin Unused(d)
  BY <1>1, Zenon DEF HInv, TypeOK, ListInv, ListAt, Unused
<1>l. PICK l : l = Append(free_list[d], b) /\ ReleaseArena(p, d, l)
  BY Zenon DEF Releasing
<1>3. l \in Seq(Blocks) /\ Elems(l) = Unused(d) \cup {b} /\ Once(l)
  BY <1>2, <1>l, AppendOnce DEF Added
<1>4. ~\E i \in 0..blocks_per_arena(d) - 1 : \A k \in 1..Len(l) : l[k] # <<p, i>>
  <2> SUFFICES ASSUME NEW i \in 0..blocks_per_arena(d) - 1
               PROVE  \E k \in 1..Len(l) : l[k] = <<p, i>>
    BY Zenon
  <2>1. <<p, i>> \in Elems(l)
    <3>1. <<p, i>> \in Pages \X (0..blocks_per_arena(d) - 1) /\ <<p, i>>[1] = p
      BY <1>1, Zenon
    <3>2. <<p, i>> \in live => <<p, i>> = b
      BY <3>1, <1>1, Zenon
    <3> QED BY <3>1, <3>2, <1>3, <1>size, Zenon DEF Unused
  <2> QED BY <2>1, Zenon DEF Elems
<1>5. /\ free_list' = [free_list EXCEPT ![d] = without(l, p)]
      /\ mfree_page(p, 1)
      /\ arena' = [arena EXCEPT ![p] = [size |-> 0, cnt |-> 0]]
      /\ panic' = panic
  BY <1>4, <1>l, Zenon DEF ReleaseArena
<1>6. arena \in [Pages -> [size : Sizes \cup {0}, cnt : 0..PageUnits + MaxPages]]
  BY Zenon DEF HInv, TypeOK
<1>7. /\ arena' \in [Pages -> [size : Sizes \cup {0}, cnt : 0..PageUnits + MaxPages]]
      /\ arena'[p].size = 0
      /\ \A q \in Pages : q # p => arena'[q] = arena[q]
  <2>1. [size |-> 0, cnt |-> 0] \in [size : Sizes \cup {0}, cnt : 0..PageUnits + MaxPages]
    BY HeapAssumption
  <2> QED BY <2>1, <1>1, <1>5, <1>6
<1>8. Unmapping(b, p, 1)
  BY <1>1, <1>5, <1>page, <1>size, HeapAssumption DEF Unmapping, PagesOf, MappedPages, Pages
<1>9. ASSUME NEW c \in live' PROVE c[1] # p /\ Kept(c)
  <2>1. c \in live /\ c[1] # p /\ c[1] \in Pages
    BY <1>1, <1>live, LiveType, Zenon DEF BlockType, HInv
  <2>2. PagesOf(c) \subseteq Pages /\ PagesOf(c) \cap PagesOf(b) = {}
    BY <2>1, <1>page, PagesOfLemma, Zenon DEF HInv, PageInv
  <2>3. \A q \in Pages : q \notin PagesOf(b) => pte'[q] = pte[q]
    BY <1>8, UnmapFrames, Zenon DEF FramesUnmapped
  <2> QED BY <2>1, <2>2, <2>3, <1>7, Zenon DEF Kept
<1>10. Freed(b)
  BY <1>9, <1>live, Zenon DEF Freed
<1>11. /\ without(l, p) \in Seq(Blocks) /\ Once(without(l, p))
       /\ Elems(without(l, p)) = {c \in Elems(l) : c[1] # p}
  <2>1. LeftOf(without(l, p), l, p, Blocks)
    BY <1>3, WithoutLemma, Zenon
  <2> QED BY <2>1, Zenon DEF LeftOf
<1>12. TypeOK'
  <2>1. MapType'
    BY <1>8, UnmapFrames, Zenon DEF FramesUnmapped
  <2>2. free_list' \in [Sizes -> Seq(Blocks)]
    BY <1>5, <1>11, Zenon DEF HInv, TypeOK
  <2> QED BY <2>1, <2>2, <1>5, <1>7, <1>live DEF HInv, TypeOK, MapType, Pages, Frames, NoFrame, Blocks
<1>13. LiveInv'
  <2> SUFFICES ASSUME NEW c \in live' PROVE LiveAt(c)'
    BY Zenon DEF LiveInv
  <2> QED BY <1>9, <1>live, KeptLive, Zenon
<1>14. ArenaInv'
  <2> SUFFICES ASSUME NEW q \in Pages PROVE ArenaAt(q)'
    BY Zenon DEF ArenaInv, Pages
  <2>1. CASE q = p
    BY <2>1, <1>7, Zenon DEF ArenaAt
  <2>2. CASE q # p
    <3>1. Aside(p, q)
      BY <2>2, <1>7, <1>live, <1>page, Zenon DEF Aside
    <3> QED BY <3>1, OtherArena, Zenon
  <2> QED BY <2>1, <2>2, Zenon
<1>15. ListInv'
  <2> SUFFICES ASSUME NEW e \in Sizes
               PROVE  Once(free_list'[e]) /\ Elems(free_list'[e]) = Unused(e)'
    BY Zenon DEF ListInv, ListAt, Once, Elems
  <2>1. Unused(e)' = {c \in Pages \X (0..blocks_per_arena(e) - 1) : arena'[c[1]].size = e /\ c \notin live'}
    BY Zenon DEF Unused, Pages, blocks_per_arena
  <2>2. e # 0
    BY SizeNotZero, Zenon
  <2>3. ASSUME NEW c \in Pages \X (0..blocks_per_arena(e) - 1)
        PROVE  arena'[c[1]].size = e /\ c \notin live' <=>
                   arena[c[1]].size = e /\ c \notin live /\ c[1] # p
    <3>1. CASE c[1] = p
      BY <3>1, <2>2, <1>7, Zenon
    <3>2. CASE c[1] # p
      BY <3>2, <1>7, <1>live, <1>page, Zenon
    <3> QED BY <3>1, <3>2, Zenon
  <2>4. Unused(e)' = {c \in Unused(e) : c[1] # p}
    BY <2>1, <2>3, Zenon DEF Unused
  <2>5. CASE e = d
    <3>1. free_list'[e] = without(l, p)
      BY <2>5, <1>5, Zenon DEF HInv, TypeOK
    <3>2. {c \in Elems(l) : c[1] # p} = {c \in Unused(e) : c[1] # p}
      BY <2>5, <1>3, <1>page, Zenon
    <3> QED BY <3>1, <3>2, <2>4, <1>11, Zenon
  <2>6. CASE e # d
    <3>1. free_list'[e] = free_list[e]
      BY <2>6, <1>5, Zenon DEF HInv, TypeOK
    <3>2. Unused(e)' = Unused(e)
      BY <2>4, <2>6, <1>size, Zenon DEF Unused
    <3> QED BY <3>1, <3>2, Zenon DEF HInv, ListInv, ListAt
  <2> QED BY <2>5, <2>6, Zenon
<1>16. PageInv'
  <2>1. Loses(b)
    BY <1>9, <1>live, <1>page, KeptPages, Zenon DEF Loses
  <2> QED BY <2>1, <1>8, UnmapPages, Zenon
<1>17. FrameInv'
  BY <1>8, UnmapFrames, Zenon DEF FramesUnmapped
<1> QED BY <1>5, <1>10, <1>12, <1>13, <1>14, <1>15, <1>16, <1>17 DEF HInv, NoAssertFails

(* sys_free of a block of an arena that still has one in use.              *)
Putting(b, p, d) ==
    /\ p = b[1] /\ d = arena[p].size /\ d # 0
    /\ live' = live \ {b}
    /\ arena[p].cnt + 1 # blocks_per_arena(d)
    /\ free_list' = [free_list EXCEPT ![d] = Append(free_list[d], b)]
    /\ arena' = [arena EXCEPT ![p].cnt = @ + 1]
    /\ UNCHANGED <<vbits, pbits, pte, tlb, panic>>

LEMMA PutStep ==
    ASSUME HInv, NEW b \in live, NEW p, NEW d, Putting(b, p, d)
    PROVE  HInv' /\ Freed(b)
<1>page. p = b[1]
  BY Zenon DEF Putting
<1>size. d = arena[p].size /\ d # 0
  BY Zenon DEF Putting
<1>live. live' = live \ {b}
  BY Zenon DEF Putting
<1>same. UNCHANGED <<vbits, pbits, pte, tlb, panic>>
  BY Zenon DEF Putting
<1>0. Counted(b, p, d)
  BY FreedCount, Zenon DEF Putting
<1>1. /\ p \in Pages /\ d \in Sizes /\ b[2] \in 0..blocks_per_arena(d) - 1 /\ b = <<p, b[2]>>
      /\ blocks_per_arena(d) \in 1..PageUnits - 1 /\ PageUnits \in Nat /\ MaxPages \in Nat
      /\ arena[p].cnt \in Nat /\ arena[p].cnt + 1 <= blocks_per_arena(d)
      /\ Cardinality(FreeIdx(p) \cup {b[2]}) = arena[p].cnt + 1
  BY <1>0, HeapAssumption, Zenon DEF Counted
<1>2. PICK c0 \in live : c0[1] = p /\ c0 # b
  BY <1>0, Zenon DEF Counted, Putting
<1>3. /\ free_list[d] \in Seq(Blocks) /\ Once(free_list[d]) /\ Elems(free_list[d]) = Unused(d)
      /\ b \in Blocks /\ b \notin Unused(d)
  BY <1>1, Zenon DEF HInv, TypeOK, ListInv, ListAt, Unused
<1>l. PICK l : l = Append(free_list[d], b)
  BY Zenon
<1>4. l \in Seq(Blocks) /\ Elems(l) = Unused(d) \cup {b} /\ Once(l)
  BY <1>3, <1>l, AppendOnce DEF Added
<1>5. free_list' = [free_list EXCEPT ![d] = l]
  BY <1>l, Zenon DEF Putting
<1>6. arena \in [Pages -> [size : Sizes \cup {0}, cnt : 0..PageUnits + MaxPages]]
  BY Zenon DEF HInv, TypeOK
<1>7. /\ arena' \in [Pages -> [size : Sizes \cup {0}, cnt : 0..PageUnits + MaxPages]]
      /\ arena'[p].size = d /\ arena'[p].cnt = arena[p].cnt + 1
      /\ \A q \in Pages : arena'[q].size = arena[q].size
      /\ \A q \in Pages : q # p => arena'[q] = arena[q]
  BY <1>1, <1>6 DEF Putting
<1>8. ASSUME NEW c \in live PROVE Kept(c)
  <2>1. c[1] \in Pages
    BY LiveType, Zenon DEF BlockType, HInv
  <2> QED BY <2>1, <1>7, <1>size, <1>same, Zenon DEF Kept
<1>9. Freed(b)
  BY <1>8, <1>live, Zenon DEF Freed
<1>10. TypeOK'
  <2>1. free_list' \in [Sizes -> Seq(Blocks)]
    BY <1>4, <1>5, Zenon DEF HInv, TypeOK
  <2> QED BY <2>1, <1>7, <1>live, <1>same, Zenon DEF HInv, TypeOK
<1>11. LiveInv'
  <2> SUFFICES ASSUME NEW c \in live' PROVE LiveAt(c)'
    BY Zenon DEF LiveInv
  <2> QED BY <1>8, <1>live, KeptLive, Zenon
<1>12. ArenaInv'
  <2> SUFFICES ASSUME NEW q \in Pages PROVE ArenaAt(q)'
    BY Zenon DEF ArenaInv, Pages
  <2>1. CASE q = p
    <3>1. \A i : <<p, i>> \in live' <=> <<p, i>> \in live /\ i # b[2]
      BY <1>1, <1>live
    <3>2. FreeIdx(p)' = FreeIdx(p) \cup {b[2]}
      BY <3>1, <1>1, <1>7, Zenon DEF FreeIdx, blocks_per_arena
    <3>3. c0 \in live' /\ c0[1] = q
      BY <2>1, <1>2, <1>live, Zenon
    <3> QED BY <3>2, <3>3, <2>1, <1>1, <1>7, Zenon DEF ArenaAt
  <2>2. CASE q # p
    <3>1. Aside(p, q)
      BY <2>2, <1>7, <1>live, <1>page, Zenon DEF Aside
    <3> QED BY <3>1, OtherArena, Zenon
  <2> QED BY <2>1, <2>2, Zenon
<1>13. ListInv'
  <2> SUFFICES ASSUME NEW e \in Sizes
               PROVE  Once(free_list'[e]) /\ Elems(free_list'[e]) = Unused(e)'
    BY Zenon DEF ListInv, ListAt, Once, Elems
  <2>1. Unused(e)' = {c \in Pages \X (0..blocks_per_arena(e) - 1) : arena'[c[1]].size = e /\ c \notin live'}
    BY Zenon DEF Unused, Pages, blocks_per_arena
  <2>2. \A c \in Pages \X (0..blocks_per_arena(e) - 1) : arena'[c[1]].size = arena[c[1]].size
    BY <1>7, Zenon
  <2>3. CASE e = d
    <3>1. Unused(e)' = Unused(e) \cup {b}
      BY <2>1, <2>2, <2>3, <1>1, <1>live, <1>7, <1>size DEF Unused
    <3>2. free_list'[e] = l
      BY <2>3, <1>5, Zenon DEF HInv, TypeOK
    <3> QED BY <3>1, <3>2, <2>3, <1>4, Zenon
  <2>4. CASE e # d
    <3>1. Unused(e)' = Unused(e)
      BY <2>1, <2>2, <2>4, <1>1, <1>7, <1>live DEF Unused
    <3>2. free_list'[e] = free_list[e]
      BY <2>4, <1>5, Zenon DEF HInv, TypeOK
    <3> QED BY <3>1, <3>2, Zenon DEF HInv, ListInv, ListAt
  <2> QED BY <2>3, <2>4, Zenon
<1>14. PageInv'
  <2>1. \A c \in live : PagesOf(c)' = PagesOf(c)
    BY <1>8, KeptPages, Zenon
  <2>2. PagesOf(b) = {p} /\ PagesOf(c0) = {p} /\ c0 \in live'
    BY <1>2, <1>live, <1>page, <1>size, Zenon DEF PagesOf
  <2>3. \A q \in Pages : pte'[q] # NoFrame <=> \E c \in live' : q \in PagesOf(c)'
    <3> SUFFICES ASSUME NEW q \in Pages
                 PROVE  pte[q] # NoFrame <=> \E c \in live' : q \in PagesOf(c)'
      BY <1>same, Zenon
    <3>1. pte[q] # NoFrame <=> \E c \in live : q \in PagesOf(c)
      BY Zenon DEF HInv, PageInv
    <3>2. (\E c \in live : q \in PagesOf(c)) <=> \E c \in live' : q \in PagesOf(c)
      BY <2>2, <1>live, Zenon
    <3> QED BY <3>1, <3>2, <2>1, <1>live, Zenon
  <2>4. \A c, e \in live' : c[1] # e[1] => PagesOf(c)' \cap PagesOf(e)' = {}
    BY <2>1, <1>live DEF HInv, PageInv
  <2> QED BY <2>3, <2>4, <1>same, Zenon DEF HInv, PageInv
<1>15. FrameInv'
  BY <1>same, Zenon DEF HInv, FrameInv, Mapped
<1> QED BY <1>9, <1>10, <1>11, <1>12, <1>13, <1>14, <1>15, <1>same DEF HInv, NoAssertFails

-----------------------------------------------------------------------------
Quiet == live' = live /\ \A c \in live : Kept(c)

Effect == (\E b : Given(b)) \/ (\E b : Freed(b)) \/ Quiet

(* A step that changes at most the TLB and panic.                          *)
LEMMA QuietStep ==
    ASSUME HInv, UNCHANGED <<vbits, pbits, pte, arena, free_list, live>>,
           tlb' \in [Pages -> Frames \cup {NoFrame}],
           panic' \in {"no", "full", "stale"}
    PROVE  HInv' /\ Effect
<1>1. TypeOK' /\ NoAssertFails'
  BY Zenon DEF HInv, TypeOK, NoAssertFails
<1>2. LiveInv' /\ ArenaInv' /\ ListInv'
  BY DEF HInv, LiveInv, LiveAt, ArenaInv, ArenaAt, ListInv, ListAt, FreeIdx, Unused
<1>3. PageInv' /\ FrameInv'
  BY DEF HInv, PageInv, FrameInv, PagesOf, Mapped
<1>4. Quiet
  BY Zenon DEF Quiet, Kept
<1> QED BY <1>1, <1>2, <1>3, <1>4 DEF HInv, Effect

(* A call that ends in a PANIC or in a page fault.                         *)
LEMMA StopStep ==
    ASSUME HInv, NEW why \in {"full", "stale"}, Stop(why)
    PROVE  HInv' /\ Effect
<1>1. /\ UNCHANGED <<vbits, pbits, pte, arena, free_list, live>>
      /\ tlb' \in [Pages -> Frames \cup {NoFrame}]
      /\ panic' \in {"no", "full", "stale"}
  BY Zenon DEF Stop, HInv, TypeOK
<1> QED BY <1>1, QuietStep, Zenon

(* sys_malloc of a small block, whichever way it goes.                     *)
LEMMA MallocStep ==
    ASSUME HInv, NEW d \in Sizes, sys_malloc(d)
    PROVE  HInv' /\ Effect
<1>1. PICK p : p = bitmap_scan(vbits, NPages, 1)
  BY Zenon
<1>2. \/ /\ free_list[d] # <<>>
         /\ Give(d, free_list[d], arena)
         /\ UNCHANGED <<vbits, pbits, pte, tlb>>
      \/ /\ free_list[d] = <<>>
         /\ IF Fails(1) THEN Stop("full")
            ELSE IF Repeated(p, 1) THEN Stop("assert")
            ELSE IF Stale(p, 1) THEN Stop("stale")
            ELSE /\ malloc_page(p, 1)
                 /\ Give(d, [i \in 1..blocks_per_arena(d) |-> <<p, i - 1>>],
                         [arena EXCEPT ![p] = [size |-> d, cnt |-> blocks_per_arena(d)]])
  BY <1>1, Zenon DEF sys_malloc
<1>5. CASE free_list[d] # <<>>
  <2>1. PICK b : b = Head(free_list[d])
    BY Zenon
  <2>2. Giving(b, d)
    BY <2>1, <1>2, <1>5, Zenon DEF Giving
  <2>3. HInv' /\ Given(b)
    BY <2>2, GiveStep, Zenon
  <2> QED BY <2>3, Zenon DEF Effect
<1>6. CASE free_list[d] = <<>> /\ Fails(1)
  BY <1>2, <1>6, StopStep, Zenon
<1>7. CASE free_list[d] = <<>> /\ ~Fails(1)
  <2>1. ~Full(vbits, NPages)
    BY <1>7, Zenon DEF Fails
  <2>2. 1 \in 1..MaxPages
    BY HeapAssumption
  <2>3. p # -1
    BY <2>1, <1>1, ScanOne, Zenon
  <2>f. Found(p, 1)
    BY <2>1, <2>3, <1>1, Zenon DEF Found
  <2>4. ~Repeated(p, 1)
    BY <2>2, <2>f, ScanFree, Zenon DEF FreePages
  <2>5. CASE Stale(p, 1)
    BY <2>4, <2>5, <1>2, <1>7, StopStep, Zenon
  <2>6. CASE ~Stale(p, 1)
    <3>1. Splitting(d, p)
      BY <2>f, <2>4, <2>6, <1>2, <1>7, Zenon DEF Splitting, Mapping
    <3>2. HInv' /\ Given(<<p, 0>>)
      BY <3>1, SplitStep, Zenon
    <3> QED BY <3>2, Zenon DEF Effect
  <2> QED BY <2>5, <2>6, Zenon
<1> QED BY <1>5, <1>6, <1>7, Zenon

(* sys_malloc of a large block, whichever way it goes.                     *)
LEMMA MallocLargeStep ==
    ASSUME HInv, NEW n \in 1..MaxPages, sys_malloc_large(n)
    PROVE  HInv' /\ Effect
<1>1. PICK p : p = bitmap_scan(vbits, NPages, n)
  BY Zenon
<1>2. \/ Fails(n) /\ Stop("full")
      \/ ~Fails(n) /\ p = -1 /\ UNCHANGED vars
      \/ /\ ~Fails(n)
         /\ p # -1
         /\ IF Repeated(p, n) THEN Stop("assert")
            ELSE IF Stale(p, n) THEN Stop("stale")
            ELSE /\ malloc_page(p, n)
                 /\ arena' = [arena EXCEPT ![p] = [size |-> 0, cnt |-> n]]
                 /\ live' = live \cup {<<p, 0>>}
                 /\ UNCHANGED <<free_list, panic>>
  BY <1>1, Zenon DEF sys_malloc_large
<1>3. CASE Fails(n)
  BY <1>2, <1>3, StopStep, Zenon
<1>4. CASE ~Fails(n) /\ p = -1
  <2>1. /\ UNCHANGED <<vbits, pbits, pte, arena, free_list, live>>
        /\ tlb' \in [Pages -> Frames \cup {NoFrame}]
        /\ panic' \in {"no", "full", "stale"}
    BY <1>2, <1>4, Zenon DEF vars, HInv, TypeOK, NoAssertFails
  <2> QED BY <2>1, QuietStep, Zenon
<1>5. CASE ~Fails(n) /\ p # -1
  <2>1. ~Full(vbits, NPages)
    BY <1>5, Zenon DEF Fails
  <2>f. Found(p, n)
    BY <2>1, <1>1, <1>5, Zenon DEF Found
  <2>2. ~Repeated(p, n)
    BY <2>f, ScanFree, Zenon DEF FreePages
  <2>3. CASE Stale(p, n)
    BY <2>2, <2>3, <1>2, <1>5, StopStep, Zenon
  <2>4. CASE ~Stale(p, n)
    <3>1. Enlarging(p, n)
      BY <2>f, <2>2, <2>4, <1>2, <1>5, Zenon DEF Enlarging, Mapping
    <3>2. HInv' /\ Given(<<p, 0>>)
      BY <3>1, LargeStep, Zenon
    <3> QED BY <3>2, Zenon DEF Effect
  <2> QED BY <2>3, <2>4, Zenon
<1> QED BY <1>3, <1>4, <1>5, Zenon

(* sys_free of a block in use.                                             *)
LEMMA FreeStep ==
    ASSUME HInv, NEW b \in live, sys_free(b)
    PROVE  HInv' /\ Effect
<1>1. PICK p : p = b[1]
  BY Zenon
<1>2. PICK d : d = arena[p].size
  BY Zenon
<1>3. PICK l : l = Append(free_list[d], b)
  BY Zenon
<1>4. /\ live' = live \ {b}
      /\ \/ /\ d = 0
            /\ mfree_page(p, arena[p].cnt)
            /\ arena' = [arena EXCEPT ![p].cnt = 0]
            /\ UNCHANGED <<free_list, panic>>
         \/ /\ d # 0
            /\ arena[p].cnt + 1 = blocks_per_arena(d)
            /\ ReleaseArena(p, d, l)
         \/ /\ d # 0
            /\ arena[p].cnt + 1 # blocks_per_arena(d)
            /\ free_list' = [free_list EXCEPT ![d] = Append(free_list[d], b)]
            /\ arena' = [arena EXCEPT ![p].cnt = @ + 1]
            /\ UNCHANGED <<vbits, pbits, pte, tlb, panic>>
  BY <1>1, <1>2, <1>3, Zenon DEF sys_free
<1>5. HInv' /\ Freed(b)
  <2>1. CASE d = 0
    <3>1. FreeingLarge(b, p)
      BY <2>1, <1>1, <1>2, <1>4, Zenon DEF FreeingLarge
    <3> QED BY <3>1, FreeLargeStep, Zenon
  <2>2. CASE d # 0 /\ arena[p].cnt + 1 = blocks_per_arena(d)
    <3>1. Releasing(b, p, d)
      BY <2>2, <1>1, <1>2, <1>3, <1>4, Zenon DEF Releasing
    <3> QED BY <3>1, ReleaseStep, Zenon
  <2>3. CASE d # 0 /\ arena[p].cnt + 1 # blocks_per_arena(d)
    <3>1. Putting(b, p, d)
      BY <2>3, <1>1, <1>2, <1>4, Zenon DEF Putting
    <3> QED BY <3>1, PutStep
  <2> QED BY <2>1, <2>2, <2>3, Zenon
<1> QED BY <1>5, Zenon DEF Effect

(* Every step keeps HInv, and gives out a block, takes one back or does    *)
(* neither.                                                                *)
LEMMA NextStep ==
    ASSUME HInv, [Next]_vars
    PROVE  HInv' /\ Effect
<1>1. ASSUME NEW d \in Sizes, sys_malloc(d) PROVE HInv' /\ Effect
  BY <1>1, MallocStep, Zenon
<1>2. ASSUME NEW n \in 1..MaxPages, sys_malloc_large(n) PROVE HInv' /\ Effect
  BY <1>2, MallocLargeStep, Zenon
<1>3. ASSUME NEW b \in live, sys_free(b) PROVE HInv' /\ Effect
  BY <1>3, FreeStep, Zenon
<1>4. ASSUME page_dir_activate \/ UNCHANGED vars PROVE HInv' /\ Effect
  <2>1. /\ UNCHANGED <<vbits, pbits, pte, arena, free_list, live>>
        /\ tlb' \in [Pages -> Frames \cup {NoFrame}]
        /\ panic' \in {"no", "full", "stale"}
    BY <1>4, Zenon DEF page_dir_activate, vars, HInv, TypeOK, NoAssertFails
  <2> QED BY <2>1, QuietStep, Zenon
<1> QED BY <1>1, <1>2, <1>3, <1>4, Zenon DEF Next

(* The heap as mem_pool_init leaves it.                                    *)
LEMMA InitHInv ==
    ASSUME Init
    PROVE  HInv
<1>1. NPages \in Nat \ {0} /\ PageUnits \in Nat /\ MaxPages \in Nat
  BY HeapAssumption, Zenon
<1>2. TypeOK /\ NoAssertFails
  BY <1>1 DEF Init, TypeOK, NoAssertFails, Pages, Frames, NoFrame
<1>3. LiveInv /\ ArenaInv
  BY Zenon DEF Init, LiveInv, LiveAt, ArenaInv, ArenaAt
<1>4. ListInv
  BY SizeNotZero DEF Init, ListInv, ListAt, Once, Elems, Unused
<1>5. PageInv /\ FrameInv
  BY <1>1 DEF Init, PageInv, FrameInv, Mapped, Pages, Frames, NoFrame
<1> QED BY <1>2, <1>3, <1>4, <1>5, Zenon DEF HInv

-----------------------------------------------------------------------------
(* From the inductive invariant to the properties.                         *)
LEMMA BijectionCount ==
    ASSUME NEW S, IsFiniteSet(S), NEW T, NEW f \in [S -> T],
           \A x, y \in S : f[x] = f[y] => x = y,
           \A t \in T : \E x \in S : f[x] = t
    PROVE  Cardinality(T) = Cardinality(S)
<1>1. f \in Bijection(S, T)
  BY Zenon DEF Bijection, Injection, Surjection, IsInjective
<1>2. ExistsBijection(S, T)
  BY <1>1, Zenon DEF ExistsBijection
<1> QED BY <1>2, FS_Bijection, Zenon

(* The free lists are exact.                                               *)
LEMMA ExactLists ==
    ASSUME HInv
    PROVE  FreeListExact
<1> SUFFICES ASSUME NEW d \in Sizes
             PROVE  LET l == free_list[d]
                        arenas == {p \in Mapped : arena[p].size = d}
                        unused == (arenas \X (0..blocks_per_arena(d) - 1)) \ live
                    IN  /\ {l[k] : k \in 1..Len(l)} = unused
                        /\ Len(l) = Cardinality(unused)
                        /\ \A p \in arenas :
                            /\ arena[p].cnt = Cardinality({b \in unused : b[1] = p})
                            /\ arena[p].cnt < blocks_per_arena(d)
  BY Zenon DEF FreeListExact
<1> DEFINE l == free_list[d]
           arenas == {p \in Mapped : arena[p].size = d}
           unused == (arenas \X (0..blocks_per_arena(d) - 1)) \ live
<1>1. d # 0
  BY SizeNotZero, Zenon
<1>2. ASSUME NEW p \in Pages, arena[p].size = d
      PROVE  /\ p \in Mapped
             /\ \E b \in live : b[1] = p
             /\ arena[p].cnt = Cardinality(FreeIdx(p))
  <2>1. PICK b \in live : b[1] = p
    BY <1>1, <1>2, Zenon DEF HInv, ArenaInv, ArenaAt
  <2>2. pte[p] # NoFrame
    BY <2>1, PagesOfLemma, Zenon
  <2> QED BY <2>1, <2>2, <1>1, <1>2, Zenon DEF Mapped, HInv, ArenaInv, ArenaAt
<1>3. arenas = {p \in Pages : arena[p].size = d}
  BY <1>2, Zenon DEF Mapped
<1>4. unused = Unused(d)
  BY <1>3, Zenon DEF Unused
<1> HIDE DEF arenas, unused
<1>5. l \in Seq(Blocks) /\ Once(l) /\ Elems(l) = unused
  BY <1>4, Zenon DEF HInv, TypeOK, ListInv, ListAt
<1>6. {l[k] : k \in 1..Len(l)} = unused
  BY <1>5, Zenon DEF Elems
<1>7. Len(l) = Cardinality(unused)
  <2>1. Len(l) \in Nat /\ l \in [1..Len(l) -> unused]
    BY <1>5, <1>6
  <2>2. \A x, y \in 1..Len(l) : l[x] = l[y] => x = y
    BY <1>5, Zenon DEF Once
  <2>3. \A t \in unused : \E x \in 1..Len(l) : l[x] = t
    BY <1>6, Zenon
  <2>4. IsFiniteSet(1..Len(l)) /\ Cardinality(1..Len(l)) = Len(l)
    <3>1. \A n \in Nat : IsFiniteSet(1..n) /\ Cardinality(1..n) = n
      BY FS_Interval
    <3> QED BY <3>1, <2>1, Zenon
  <2> HIDE DEF l
  <2>5. Cardinality(unused) = Cardinality(1..Len(l))
    BY <2>1, <2>2, <2>3, <2>4, BijectionCount
  <2> QED BY <2>4, <2>5, Zenon
<1>8. ASSUME NEW p \in arenas
      PROVE  /\ arena[p].cnt = Cardinality({b \in unused : b[1] = p})
             /\ arena[p].cnt < blocks_per_arena(d)
  <2>1. p \in Pages /\ arena[p].size = d
    BY <1>3, Zenon
  <2>2. PICK b \in live : b[1] = p
    BY <2>1, <1>2, Zenon
  <2>3. arena[p].cnt = Cardinality(FreeIdx(p))
    BY <2>1, <1>2, Zenon
  <2>4. Counted(b, p, d)
    BY <2>1, <2>2, <1>1, FreedCount, Zenon
  <2>5. arena[p].cnt < blocks_per_arena(d)
    BY <2>4, HeapAssumption DEF Counted
  <2> DEFINE T == {c \in unused : c[1] = p}
             f == [i \in FreeIdx(p) |-> <<p, i>>]
  <2>6. FreeIdx(p) = {i \in 0..blocks_per_arena(d) - 1 : <<p, i>> \notin live}
    BY <2>1, Zenon DEF FreeIdx
  <2>7. IsFiniteSet(FreeIdx(p))
    BY <2>1, <1>1, FreeIdxFinite, Zenon DEF FreeIdxType, HInv
  <2>8. \A i \in FreeIdx(p) : <<p, i>> \in T
    BY <2>1, <2>6, <1>4, Zenon DEF Unused
  <2>9. \A c \in T : c[2] \in FreeIdx(p) /\ c = <<p, c[2]>>
    BY <2>6, <1>4 DEF Unused
  <2> HIDE DEF T
  <2>10. /\ f \in [FreeIdx(p) -> T]
         /\ \A i \in FreeIdx(p) : f[i] = <<p, i>>
    BY <2>8, Zenon
  <2> HIDE DEF f
  <2>11. \A x, y \in FreeIdx(p) : f[x] = f[y] => x = y
    BY <2>10
  <2>12. \A t \in T : \E x \in FreeIdx(p) : f[x] = t
    BY <2>9, <2>10
  <2>13. Cardinality(T) = Cardinality(FreeIdx(p))
    BY <2>7, <2>10, <2>11, <2>12, BijectionCount
  <2> QED BY <2>3, <2>5, <2>13, Zenon DEF T
<1> QED BY <1>6, <1>7, <1>8, Zenon DEF arenas, unused

(* The page table and the bitmaps are exact.                               *)
LEMMA ExactPages ==
    ASSUME HInv
    PROVE  PagesExact
<1>1. Mapped \subseteq vbits /\ vbits \ {NPages} \subseteq Mapped
  <2>1. Pages \ {NPages} = Frames /\ Frames \subseteq Pages
    BY HeapAssumption DEF Pages, Frames
  <2>2. vbits \subseteq Pages
    BY Zenon DEF HInv, TypeOK
  <2> QED BY <2>1, <2>2, Zenon DEF HInv, PageInv, Mapped
<1>2. pbits = {pte[p] : p \in Mapped}
  <2>1. pbits \subseteq Frames /\ \A q \in Mapped : pte[q] \in Frames /\ q \in Pages
    BY Zenon DEF HInv, TypeOK, Mapped
  <2>2. \A f \in Frames : f # NoFrame
    BY HeapAssumption DEF Frames, NoFrame
  <2>3. \A f \in Frames : f \in pbits <=> \E q \in Pages : pte[q] = f
    BY Zenon DEF HInv, FrameInv
  <2>4. ASSUME NEW f \in pbits PROVE f \in {pte[p] : p \in Mapped}
    BY <2>1, <2>2, <2>3, Zenon DEF Mapped
  <2>5. ASSUME NEW q \in Mapped PROVE pte[q] \in pbits
    BY <2>1, <2>3, Zenon
  <2> QED BY <2>4, <2>5, Zenon
<1>3. Cardinality(pbits) = Cardinality(Mapped)
  <2> DEFINE f == [p \in Mapped |-> pte[p]]
  <2>1. f \in [Mapped -> pbits] /\ \A t \in pbits : \E x \in Mapped : f[x] = t
    BY <1>2, Zenon
  <2>2. \A x, y \in Mapped : f[x] = f[y] => x = y
    BY Zenon DEF HInv, FrameInv
  <2>3. IsFiniteSet(Mapped)
    <3>1. IsFiniteSet(Pages)
      BY HeapAssumption, FS_Interval DEF Pages
    <3>2. Mapped \in SUBSET Pages
      BY Zenon DEF Mapped
    <3> QED BY <3>1, <3>2, FS_Subset, Zenon
  <2> HIDE DEF f
  <2> QED BY <2>1, <2>2, <2>3, BijectionCount, Zenon
<1>4. Mapped = UNION {PagesOf(b) : b \in live}
  <2>1. \A b \in live : PagesOf(b) \subseteq Pages
    BY PagesOfLemma, Zenon
  <2>2. \A q \in Pages : pte[q] # NoFrame <=> \E b \in live : q \in PagesOf(b)
    BY Zenon DEF HInv, PageInv
  <2> QED BY <2>1, <2>2, Zenon DEF Mapped
<1> QED BY <1>1, <1>2, <1>3, <1>4, Zenon DEF PagesExact

(* HeapSound follows from HInv.                                            *)
LEMMA Sound ==
    ASSUME HInv
    PROVE  HeapSound
BY ExactLists, ExactPages, Zenon DEF HeapSound, HInv

-----------------------------------------------------------------------------
(* The units of memory behind the blocks in use.                           *)
CellsGood ==
    \A b \in live :
        /\ CellsOf(b) # {} /\ CellsOf(b) \subseteq Frames \X (0..PageUnits - 1)
        /\ \A c \in live : b # c => CellsOf(b) \cap CellsOf(c) = {}

LiesAt(b, x) ==
    \E q \in PagesOf(b), u \in 0..PageUnits - 1 :
        /\ x = <<pte[q], u>>
        /\ arena[b[1]].size # 0 =>
               \E k \in 0..arena[b[1]].size - 1 : u = arena2block(arena[b[1]].size, b[2]) + k

(* Where a unit of a block lies.                                           *)
LEMMA CellAt ==
    ASSUME HInv, NEW b \in live, NEW x \in CellsOf(b)
    PROVE  LiesAt(b, x)
<1> USE DEF LiesAt
<1>1. CASE arena[b[1]].size = 0
  BY <1>1 DEF CellsOf
<1>2. CASE arena[b[1]].size # 0
  <2>1. PICK d : d = arena[b[1]].size
    BY Zenon
  <2>2. Counted(b, b[1], d)
    BY <2>1, <1>2, FreedCount, Zenon
  <2>3. d \in Sizes /\ b[2] \in 0..blocks_per_arena(d) - 1
    BY <2>2 DEF Counted
  <2>4. PICK k \in 0..d - 1 : x = <<pte[b[1]], arena2block(d, b[2]) + k>>
    BY <2>1, <1>2 DEF CellsOf
  <2>5. arena2block(d, b[2]) + k \in 1..PageUnits - 1
    BY <2>3, BlockInPage, Zenon
  <2>6. arena2block(d, b[2]) + k \in 0..PageUnits - 1
    BY <2>5, HeapAssumption
  <2>7. b[1] \in PagesOf(b)
    BY PagesOfLemma, Zenon
  <2> QED BY <2>1, <2>4, <2>6, <2>7, Zenon
<1> QED BY <1>1, <1>2, Zenon

(* The blocks in use have memory, and share none.                          *)
LEMMA CellsLemma == HInv => CellsGood
<1> SUFFICES ASSUME HInv PROVE CellsGood
  BY Zenon
<1>1. ASSUME NEW b \in live PROVE CellsOf(b) # {}
  <2>1. b[1] \in PagesOf(b)
    BY PagesOfLemma, Zenon
  <2>2. CASE arena[b[1]].size = 0
    <3>1. 1 \in 0..PageUnits - 1
      BY HeapAssumption
    <3>2. <<pte[b[1]], 1>> \in {<<pte[q], u>> : q \in PagesOf(b), u \in 0..PageUnits - 1}
      BY <3>1, <2>1
    <3>3. <<pte[b[1]], 1>> # <<pte[b[1]], 0>>
      OBVIOUS
    <3>4. \A x : x \in CellsOf(b) <=>
                     /\ x \in {<<pte[q], u>> : q \in PagesOf(b), u \in 0..PageUnits - 1}
                     /\ x # <<pte[b[1]], 0>>
      BY <2>2 DEF CellsOf
    <3>5. <<pte[b[1]], 1>> \in CellsOf(b)
      BY <3>2, <3>3, <3>4
    <3> QED BY <3>5, Zenon
  <2>3. CASE arena[b[1]].size # 0
    <3>1. 0 \in 0..arena[b[1]].size - 1
      BY <2>3, LiveType, ArenaFits DEF BlockType
    <3>2. <<pte[b[1]], arena2block(arena[b[1]].size, b[2]) + 0>> \in CellsOf(b)
      BY <3>1, <2>3 DEF CellsOf
    <3> QED BY <3>2, Zenon
  <2> QED BY <2>2, <2>3, Zenon
<1>2. ASSUME NEW b \in live, NEW x \in CellsOf(b)
      PROVE  x \in Frames \X (0..PageUnits - 1)
  <2>1. PICK q \in PagesOf(b), u \in 0..PageUnits - 1 : x = <<pte[q], u>>
    BY CellAt DEF LiesAt
  <2>2. q \in Pages /\ pte[q] # NoFrame
    BY PagesOfLemma, Zenon
  <2>3. pte[q] \in Frames
    BY <2>2, Zenon DEF HInv, TypeOK
  <2> QED BY <2>1, <2>3, Zenon
<1>3. ASSUME NEW b \in live, NEW c \in live, b # c, NEW x \in CellsOf(b), x \in CellsOf(c)
      PROVE  FALSE
  <2>1. PICK q \in PagesOf(b), u \in 0..PageUnits - 1 :
            /\ x = <<pte[q], u>>
            /\ arena[b[1]].size # 0 =>
                   \E k \in 0..arena[b[1]].size - 1 : u = arena2block(arena[b[1]].size, b[2]) + k
    BY CellAt, Zenon DEF LiesAt
  <2>2. PICK r \in PagesOf(c), v \in 0..PageUnits - 1 :
            /\ x = <<pte[r], v>>
            /\ arena[c[1]].size # 0 =>
                   \E k \in 0..arena[c[1]].size - 1 : v = arena2block(arena[c[1]].size, c[2]) + k
    BY <1>3, CellAt, Zenon DEF LiesAt
  <2>3. pte[q] = pte[r] /\ u = v
    BY <2>1, <2>2
  <2>4. q \in Mapped /\ r \in Mapped
    BY PagesOfLemma, Zenon DEF Mapped
  <2>5. q = r
    BY <2>3, <2>4, Zenon DEF HInv, FrameInv
  <2>6. b[1] = c[1]
    BY <2>5, Zenon DEF HInv, PageInv
  <2>7. PICK d : d = arena[b[1]].size
    BY Zenon
  <2>8. b = <<b[1], b[2]>> /\ c = <<c[1], c[2]>> /\ b[2] \in Nat /\ c[2] \in Nat
    BY LiveType, Zenon DEF BlockType, HInv
  <2>9. b[2] # c[2]
    BY <2>6, <2>8, <1>3, Zenon
  <2>10. d # 0
    BY <2>6, <2>7, <2>9, Zenon DEF HInv, LiveInv, LiveAt
  <2>11. d \in Nat \ {0}
    BY <2>7, <2>10, LiveType, ArenaFits, Zenon DEF BlockType
  <2>12. PICK k \in 0..d - 1 : u = arena2block(d, b[2]) + k
    BY <2>1, <2>7, <2>10, Zenon
  <2>13. PICK m \in 0..d - 1 : v = arena2block(d, c[2]) + m
    BY <2>2, <2>6, <2>7, <2>10, Zenon
  <2>14. CASE b[2] < c[2]
    BY <2>3, <2>8, <2>11, <2>12, <2>13, <2>14, BlocksApart, Zenon
  <2>15. CASE c[2] < b[2]
    BY <2>3, <2>8, <2>11, <2>12, <2>13, <2>15, BlocksApart, Zenon
  <2> QED BY <2>8, <2>9, <2>14, <2>15
<1> QED BY <1>1, <1>2, <1>3, Zenon DEF CellsGood

(* A block that stays keeps its memory.                                    *)
LEMMA KeptCells ==
    ASSUME HInv, NEW c \in live, Kept(c)
    PROVE  CellsOf(c)' = CellsOf(c)
<1>1. PagesOf(c)' = PagesOf(c) /\ c[1] \in PagesOf(c)
  BY KeptPages, PagesOfLemma, Zenon
<1>2. arena'[c[1]].size = arena[c[1]].size /\ \A q \in PagesOf(c) : pte'[q] = pte[q]
  BY Zenon DEF Kept
<1>4. pte'[c[1]] = pte[c[1]]
  BY <1>1, <1>2
<1>5. CASE arena[c[1]].size = 0
  <2>1. \A x : x \in CellsOf(c) <=>
                   /\ \E q \in PagesOf(c), u \in 0..PageUnits - 1 : x = <<pte[q], u>>
                   /\ x # <<pte[c[1]], 0>>
    BY <1>5 DEF CellsOf
  <2>2. \A x : x \in CellsOf(c)' <=>
                   /\ \E q \in PagesOf(c)', u \in 0..PageUnits - 1 : x = <<pte'[q], u>>
                   /\ x # <<pte'[c[1]], 0>>
    BY <1>2, <1>5 DEF CellsOf
  <2>3. \A x : x \in CellsOf(c)' <=> x \in CellsOf(c)
    BY <2>1, <2>2, <1>1, <1>2, <1>4
  <2> QED BY <2>3, <1>2, <1>5 DEF CellsOf
<1>6. CASE arena[c[1]].size # 0
  BY <1>2, <1>4, <1>6 DEF CellsOf, arena2block
<1> QED BY <1>5, <1>6, Zenon

(* A step of the heap is a step of the allocator, or none.                 *)
LEMMA EffectMapped ==
    ASSUME HInv, CellsGood, CellsGood', Effect
    PROVE  \/ Abstract!Malloc
           \/ Abstract!Free
           \/ UNCHANGED {CellsOf(b) : b \in live}
<1> DEFINE mem == {CellsOf(b) : b \in live}
<1>1. ASSUME NEW b, Given(b) PROVE Abstract!Malloc
  <2>1. b \notin live /\ live' = live \cup {b} /\ \A c \in live : CellsOf(c)' = CellsOf(c)
    BY <1>1, KeptCells, Zenon DEF Given
  <2>2. b \in live' /\ \A c \in live : c \in live' /\ c # b
    BY <2>1, Zenon
  <2>3. PICK x : x = CellsOf(b)'
    BY Zenon
  <2>4. x # {} /\ x \subseteq Frames \X (0..PageUnits - 1)
    BY <2>2, <2>3, Zenon DEF CellsGood, Frames
  <2>5. \A c \in live : x \cap CellsOf(c) = {}
    <3> SUFFICES ASSUME NEW c \in live PROVE x \cap CellsOf(c) = {}
      BY Zenon
    <3>1. CellsOf(b)' \cap CellsOf(c)' = {}
      BY <2>2, Zenon DEF CellsGood
    <3> QED BY <3>1, <2>1, <2>3, Zenon
  <2>6. mem' = {CellsOf(c)' : c \in live'}
    BY Zenon
  <2>7. {CellsOf(c)' : c \in live'} = mem \cup {x}
    BY <2>1, <2>3, Zenon
  <2>8. \A c \in mem : x \cap c = {}
    BY <2>5, Zenon
  <2>9. x \in mem' /\ mem' = mem \cup {x}
    BY <2>6, <2>7, Zenon
  <2> HIDE DEF mem
  <2>10. \E y \in mem' : /\ y # {} /\ y \subseteq Frames \X (0..PageUnits - 1)
                         /\ \A c \in mem : y \cap c = {}
                         /\ mem' = mem \cup {y}
    BY <2>4, <2>8, <2>9, Zenon
  <2> QED BY <2>10, Zenon DEF Abstract!Malloc, mem
<1>2. ASSUME NEW b, Freed(b) PROVE Abstract!Free
  <2>1. b \in live /\ live' = live \ {b} /\ \A c \in live' : CellsOf(c)' = CellsOf(c)
    BY <1>2, KeptCells, Zenon DEF Freed
  <2>2. PICK x : x = CellsOf(b)
    BY Zenon
  <2>3. x \in mem
    BY <2>1, <2>2, Zenon
  <2>4. \A c \in live' : CellsOf(c) # x
    BY <2>1, <2>2 DEF CellsGood
  <2>5. mem' = {CellsOf(c)' : c \in live'}
    OBVIOUS
  <2>6. {CellsOf(c)' : c \in live'} = mem \ {x}
    BY <2>1, <2>2, <2>4, Zenon
  <2>7. mem' = mem \ {x}
    BY <2>5, <2>6, Zenon
  <2> HIDE DEF mem
  <2>8. \E y \in mem : mem' = mem \ {y}
    BY <2>3, <2>7, Zenon
  <2> QED BY <2>8, Zenon DEF Abstract!Free, mem
<1>3. ASSUME Quiet PROVE mem' = mem
  <2>1. live' = live /\ \A c \in live : CellsOf(c)' = CellsOf(c)
    BY <1>3, KeptCells, Zenon DEF Quiet
  <2>2. mem' = {CellsOf(c)' : c \in live'}
    OBVIOUS
  <2>3. {CellsOf(c)' : c \in live'} = mem
    BY <2>1, Zenon
  <2> QED BY <2>2, <2>3, Zenon
<1> QED BY <1>1, <1>2, <1>3, Zenon DEF Effect

-----------------------------------------------------------------------------
(* bitmap_scan returns the first run of free bits that is long enough, and *)
(* -1 only when there is none.                                             *)
THEOREM ScanIsFirstFit == Spec => []ScanFirstFit
<1>1. ScanFirstFit
  BY ScanFirstFitHolds, Zenon
<1> QED BY <1>1, PTL

(* HInv is inductive: sys_malloc and sys_free keep it.                     *)
THEOREM HeapInvariance == Spec => []HInv
<1>1. Init => HInv
  BY InitHInv
<1>2. HInv /\ [Next]_vars => HInv'
  BY NextStep, Zenon
<1> QED BY <1>1, <1>2, PTL DEF Spec

(* After any sequence of sys_malloc and sys_free the free lists, headers,  *)
(* page table and bitmaps agree, and no ASSERT has failed.                 *)
THEOREM HeapIsSound == Spec => []HeapSound
<1>1. HInv => HeapSound
  BY Sound, Zenon
<1> QED BY <1>1, HeapInvariance, PTL

(* sys_malloc and sys_free implement an allocator: the blocks in use share *)
(* no unit of physical memory and stay where they are until freed.         *)
THEOREM HeapImplementsAllocator == Spec => HeapIsAllocator
<1>1. Init => Abstract!Init
  BY Zenon DEF Init, Abstract!Init
<1>2. HInv /\ CellsGood /\ CellsGood' /\ [Next]_vars =>
          [Abstract!Malloc \/ Abstract!Free]_({CellsOf(b) : b \in live})
  BY NextStep, EffectMapped, Zenon
<1>3. HInv => CellsGood
  BY CellsLemma, Zenon
<1> QED BY <1>1, <1>2, <1>3, HeapInvariance, PTL DEF Spec, HeapIsAllocator, Abstract!Spec

=============================================================================
