--------------------------- MODULE IoQueueProofs ----------------------------
(***************************************************************************)
(* ioqueue.c and the keyboard that fills it, for any bufsize, any threads, *)
(* any use of the queue and any keys.  The ring buffer is a FIFO (QInv):   *)
(* arithmetic of positions modulo bufsize first, then the two operations   *)
(* on the buffer, then the steps.  The threads at the queue (SInv, and     *)
(* ReaderInv for the one reader of the keyboard) need the scheduler too;   *)
(* the flags of the keyboard (KInv) need only the bytes on their way.      *)
(***************************************************************************)
EXTENDS IoQueue, SchedProofs

Positions == 0..bufsize-1

Bytes == Chars \cup {NoChar}

Buffer == [buf : [Positions -> Bytes], head : Positions, tail : Positions,
           producer : Workers \cup {NoThread}, consumer : Workers \cup {NoThread}]

(* How many characters q holds, and where the i-th is.                     *)
Count(q) == (q.head - q.tail) % bufsize

Place(q, i) == (q.tail + i - 1) % bufsize

Contents(q) == [i \in 1..Count(q) |-> q.buf[Place(q, i)]]

LEMMA WrapLemma ==
    /\ \A p \in Positions : p % bufsize = p
    /\ \A p \in Positions : (p + bufsize) % bufsize = p
    /\ \A p \in Positions : (p - bufsize) % bufsize = p
BY IoQueueAssumption DEF Positions

LEMMA NextPosLemma ==
    ASSUME NEW p \in Positions
    PROVE  next_pos(p) = IF p = bufsize - 1 THEN 0 ELSE p + 1
<1>1. bufsize \in Nat /\ bufsize > 1
  BY IoQueueAssumption
<1>2. CASE p = bufsize - 1
  <2>1. (0 + bufsize) % bufsize = 0
    BY <1>1, WrapLemma DEF Positions
  <2> QED BY <1>1, <1>2, <2>1 DEF next_pos, Positions
<1>3. CASE p # bufsize - 1
  <2>1. p + 1 \in Positions
    BY <1>1, <1>3 DEF Positions
  <2> QED BY <1>3, <2>1, WrapLemma, Zenon DEF next_pos
<1> QED BY <1>2, <1>3, Zenon

LEMMA CountLemma ==
    ASSUME NEW h \in Positions, NEW t \in Positions
    PROVE  (h - t) % bufsize = IF h >= t THEN h - t ELSE h - t + bufsize
<1>1. bufsize \in Nat /\ bufsize > 1
  BY IoQueueAssumption
<1>2. CASE h >= t
  <2>1. h - t \in Positions
    BY <1>1, <1>2 DEF Positions
  <2> QED BY <1>2, <2>1, WrapLemma, Zenon
<1>3. CASE ~(h >= t)
  <2>1. h - t + bufsize \in Positions
    BY <1>1, <1>3 DEF Positions
  <2>2. (h - t + bufsize) - bufsize = h - t
    BY <1>1 DEF Positions
  <2>3. ((h - t + bufsize) - bufsize) % bufsize = h - t + bufsize
    BY <2>1, WrapLemma, Zenon
  <2> QED BY <1>3, <2>2, <2>3, Zenon
<1> QED BY <1>2, <1>3, Zenon

LEMMA PlaceLemma ==
    ASSUME NEW t \in Positions, NEW i \in 1..bufsize
    PROVE  (t + i - 1) % bufsize = IF t + i - 1 < bufsize THEN t + i - 1 ELSE t + i - 1 - bufsize
<1>1. bufsize \in Nat /\ bufsize > 1
  BY IoQueueAssumption
<1>2. CASE t + i - 1 < bufsize
  <2>1. t + i - 1 \in Positions
    BY <1>1, <1>2 DEF Positions
  <2> QED BY <1>2, <2>1, WrapLemma, Zenon
<1>3. CASE ~(t + i - 1 < bufsize)
  <2>1. t + i - 1 - bufsize \in Positions
    BY <1>1, <1>3 DEF Positions
  <2>2. (t + i - 1 - bufsize) + bufsize = t + i - 1
    BY <1>1 DEF Positions
  <2>3. ((t + i - 1 - bufsize) + bufsize) % bufsize = t + i - 1 - bufsize
    BY <2>1, WrapLemma, Zenon
  <2> QED BY <1>3, <2>2, <2>3, Zenon
<1> QED BY <1>2, <1>3, Zenon

-----------------------------------------------------------------------------
LEMMA ContentsLemma ==
    ASSUME NEW q \in Buffer
    PROVE  /\ Count(q) \in Positions
           /\ \A i \in 1..bufsize : Place(q, i) \in Positions
           /\ Contents(q) \in Seq(Bytes) /\ Len(Contents(q)) = Count(q)
           /\ Count(q) = 0 <=> ioq_empty(q)
           /\ Count(q) = bufsize - 1 <=> ioq_full(q)
<1>1. bufsize \in Nat /\ bufsize > 1
  BY IoQueueAssumption
<1>2. q.head \in Positions /\ q.tail \in Positions /\ q.buf \in [Positions -> Bytes]
  BY Zenon DEF Buffer
<1>3. Count(q) = IF q.head >= q.tail THEN q.head - q.tail ELSE q.head - q.tail + bufsize
  BY <1>2, CountLemma, Zenon DEF Count
<1>4. Count(q) \in Positions
  BY <1>1, <1>2, <1>3 DEF Positions
<1>5. ASSUME NEW i \in 1..bufsize PROVE Place(q, i) \in Positions
  <2>1. Place(q, i) = IF q.tail + i - 1 < bufsize THEN q.tail + i - 1 ELSE q.tail + i - 1 - bufsize
    BY <1>2, PlaceLemma, Zenon DEF Place
  <2> QED BY <1>1, <1>2, <2>1 DEF Positions
<1>6. Contents(q) \in Seq(Bytes) /\ Len(Contents(q)) = Count(q)
  <2>1. \A i \in 1..Count(q) : q.buf[Place(q, i)] \in Bytes
    BY <1>1, <1>2, <1>4, <1>5 DEF Positions
  <2>2. Count(q) \in Nat
    BY <1>1, <1>4 DEF Positions
  <2> QED BY <2>1, <2>2 DEF Contents
<1>7. Count(q) = 0 <=> ioq_empty(q)
  BY <1>1, <1>2, <1>3 DEF Positions, ioq_empty
<1>8. Count(q) = bufsize - 1 <=> ioq_full(q)
  <2>1. next_pos(q.head) = IF q.head = bufsize - 1 THEN 0 ELSE q.head + 1
    BY <1>2, NextPosLemma, Zenon
  <2> QED BY <1>1, <1>2, <1>3, <2>1 DEF Positions, ioq_full
<1> QED BY <1>4, <1>5, <1>6, <1>7, <1>8, Zenon

(* The queue is what its buffer, head and tail say.                        *)
LEMMA SameLemma ==
    ASSUME NEW q \in Buffer, NEW r \in Buffer,
           r.buf = q.buf, r.head = q.head, r.tail = q.tail
    PROVE  Contents(r) = Contents(q)
BY Zenon DEF Contents, Count, Place

(* Storing a character appends it.                                         *)
LEMMA StoredLemma ==
    ASSUME NEW q \in Buffer, NEW c \in Bytes, ~ioq_full(q)
    PROVE  Stored(q, c) \in Buffer /\ Contents(Stored(q, c)) = Append(Contents(q), c)
<1> DEFINE r == Stored(q, c)
<1>1. bufsize \in Nat /\ bufsize > 1
  BY IoQueueAssumption
<1>2. q.head \in Positions /\ q.tail \in Positions /\ q.buf \in [Positions -> Bytes]
  BY Zenon DEF Buffer
<1>3. next_pos(q.head) = IF q.head = bufsize - 1 THEN 0 ELSE q.head + 1
  BY <1>2, NextPosLemma, Zenon
<1>4. next_pos(q.head) \in Positions
  BY <1>1, <1>2, <1>3 DEF Positions
<1>5. /\ r.buf = [q.buf EXCEPT ![q.head] = c] /\ r.head = next_pos(q.head)
      /\ r.tail = q.tail
  BY Zenon DEF Stored, Buffer
<1>6. r \in Buffer
  BY <1>2, <1>4, Zenon DEF Stored, Buffer
<1>7. Count(q) = IF q.head >= q.tail THEN q.head - q.tail ELSE q.head - q.tail + bufsize
  BY <1>2, CountLemma, Zenon DEF Count
<1>8. Count(r) = IF r.head >= r.tail THEN r.head - r.tail ELSE r.head - r.tail + bufsize
  BY <1>2, <1>4, <1>5, CountLemma, Zenon DEF Count
<1>9. Count(r) = Count(q) + 1
  <2>1. next_pos(q.head) # q.tail
    BY Zenon DEF ioq_full
  <2>2. q.head \in Nat /\ q.tail \in Nat /\ q.head < bufsize /\ q.tail < bufsize
    BY <1>1, <1>2 DEF Positions
  <2>3. r.head = IF q.head = bufsize - 1 THEN 0 ELSE q.head + 1
    BY <1>3, <1>5, Zenon
  <2>4. r.tail = q.tail
    BY <1>5, Zenon
  <2>5. r.head # r.tail
    BY <1>5, <2>1, Zenon
  <2> HIDE DEF r
  <2> QED BY <1>1, <2>2, <2>3, <2>4, <2>5, <1>7, <1>8
<1>10. ASSUME NEW i \in 1..Count(q) PROVE Place(q, i) # q.head
  <2>1. i \in 1..bufsize
    BY <1>1, ContentsLemma DEF Positions
  <2>2. Place(q, i) = IF q.tail + i - 1 < bufsize THEN q.tail + i - 1 ELSE q.tail + i - 1 - bufsize
    BY <1>2, <2>1, PlaceLemma, Zenon DEF Place
  <2> QED BY <1>1, <1>2, <1>7, <2>1, <2>2 DEF Positions
<1>11. Place(q, Count(q) + 1) = q.head
  <2>1. Count(q) + 1 \in 1..bufsize
    BY <1>1, ContentsLemma DEF Positions
  <2>2. Place(q, Count(q) + 1) = IF q.tail + (Count(q) + 1) - 1 < bufsize
                                 THEN q.tail + (Count(q) + 1) - 1
                                 ELSE q.tail + (Count(q) + 1) - 1 - bufsize
    BY <1>2, <2>1, PlaceLemma, Zenon DEF Place
  <2> QED BY <1>1, <1>2, <1>7, <2>1, <2>2, SMTT(30) DEF Positions
<1>12. \A i \in 1..bufsize : Place(r, i) = Place(q, i) /\ Place(q, i) \in Positions
  BY <1>5, ContentsLemma, Zenon DEF Place
<1>13. Count(q) \in Nat /\ Count(q) + 1 <= bufsize
  BY <1>1, ContentsLemma DEF Positions
<1>14. Len(Contents(r)) = Len(Append(Contents(q), c))
  BY <1>6, <1>9, <1>13, ContentsLemma
<1>15. ASSUME NEW i \in 1..Len(Contents(r))
       PROVE  Contents(r)[i] = Append(Contents(q), c)[i]
  <2>1. i \in 1..Count(q)+1 /\ i \in 1..Count(r)
    BY <1>6, <1>9, ContentsLemma, Zenon
  <2>2. Contents(r)[i] = r.buf[Place(r, i)]
    BY <2>1, Zenon DEF Contents
  <2>3. Place(r, i) = Place(q, i) /\ Place(q, i) \in Positions
    BY <1>1, <1>12, <1>13, <2>1
  <2>4. CASE i = Count(q) + 1
    <3>1. Contents(r)[i] = c
      BY <1>2, <1>5, <1>11, <2>2, <2>3, <2>4, Zenon
    <3> QED BY <2>4, <3>1, ContentsLemma
  <2>5. CASE i # Count(q) + 1
    <3>1. i \in 1..Count(q)
      BY <1>13, <2>1, <2>5
    <3>2. Contents(r)[i] = q.buf[Place(q, i)]
      BY <1>2, <1>5, <1>10, <2>2, <2>3, <3>1, Zenon
    <3>3. Contents(q)[i] = q.buf[Place(q, i)]
      BY <3>1, Zenon DEF Contents
    <3> QED BY <3>1, <3>2, <3>3, ContentsLemma
  <2> QED BY <2>4, <2>5, Zenon
<1>16. Contents(r) \in Seq(Bytes) /\ Append(Contents(q), c) \in Seq(Bytes)
  BY <1>6, ContentsLemma
<1> QED BY <1>6, <1>14, <1>15, <1>16, ListEqual, Zenon

(* Advancing the tail removes the first character.                         *)
LEMMA TakenLemma ==
    ASSUME NEW q \in Buffer, ~ioq_empty(q)
    PROVE  /\ Taken(q) \in Buffer
           /\ Contents(q) # <<>>
           /\ q.buf[q.tail] = Head(Contents(q))
           /\ Contents(Taken(q)) = Tail(Contents(q))
<1> DEFINE r == Taken(q)
<1>1. bufsize \in Nat /\ bufsize > 1
  BY IoQueueAssumption
<1>2. q.head \in Positions /\ q.tail \in Positions /\ q.buf \in [Positions -> Bytes]
  BY Zenon DEF Buffer
<1>3. next_pos(q.tail) = IF q.tail = bufsize - 1 THEN 0 ELSE q.tail + 1
  BY <1>2, NextPosLemma, Zenon
<1>4. next_pos(q.tail) \in Positions
  BY <1>1, <1>2, <1>3 DEF Positions
<1>5. r.buf = q.buf /\ r.head = q.head /\ r.tail = next_pos(q.tail)
  BY Zenon DEF Taken, Buffer
<1>6. r \in Buffer
  BY <1>2, <1>4, Zenon DEF Taken, Buffer
<1>7. Count(q) = IF q.head >= q.tail THEN q.head - q.tail ELSE q.head - q.tail + bufsize
  BY <1>2, CountLemma, Zenon DEF Count
<1>8. Count(r) = IF r.head >= r.tail THEN r.head - r.tail ELSE r.head - r.tail + bufsize
  BY <1>2, <1>4, <1>5, CountLemma, Zenon DEF Count
<1>9. Count(r) = Count(q) - 1 /\ Count(q) \in 1..bufsize-1
  <2>1. q.head # q.tail
    BY Zenon DEF ioq_empty
  <2>2. q.head \in Nat /\ q.tail \in Nat /\ q.head < bufsize /\ q.tail < bufsize
    BY <1>1, <1>2 DEF Positions
  <2>3. r.tail = IF q.tail = bufsize - 1 THEN 0 ELSE q.tail + 1
    BY <1>3, <1>5, Zenon
  <2>4. r.head = q.head
    BY <1>5, Zenon
  <2> HIDE DEF r
  <2> QED BY <1>1, <2>1, <2>2, <2>3, <2>4, <1>7, <1>8
<1>10. ASSUME NEW i \in 1..Count(r) PROVE Place(r, i) = Place(q, i + 1)
  <2>1. i \in 1..bufsize /\ i + 1 \in 1..bufsize
    BY <1>1, <1>9
  <2>2. Place(q, i + 1) = IF q.tail + (i + 1) - 1 < bufsize
                          THEN q.tail + (i + 1) - 1 ELSE q.tail + (i + 1) - 1 - bufsize
    BY <1>2, <2>1, PlaceLemma, Zenon DEF Place
  <2>3. Place(r, i) = IF r.tail + i - 1 < bufsize THEN r.tail + i - 1 ELSE r.tail + i - 1 - bufsize
    BY <1>4, <1>5, <2>1, PlaceLemma, Zenon DEF Place
  <2>4. r.tail = IF q.tail = bufsize - 1 THEN 0 ELSE q.tail + 1
    BY <1>3, <1>5, Zenon
  <2>5. q.tail \in Nat /\ q.tail < bufsize
    BY <1>1, <1>2 DEF Positions
  <2> HIDE DEF r
  <2> QED BY <1>1, <2>1, <2>2, <2>3, <2>4, <2>5
<1>11. Contents(q) \in Seq(Bytes) /\ Len(Contents(q)) = Count(q)
  BY ContentsLemma, Zenon
<1>12. Contents(q) # <<>>
  BY <1>9, <1>11
<1>13. q.buf[q.tail] = Head(Contents(q))
  <2>1. Place(q, 1) = q.tail
    BY <1>1, <1>2, WrapLemma DEF Place, Positions
  <2>2. Contents(q)[1] = q.buf[q.tail]
    BY <1>1, <1>9, <2>1 DEF Contents
  <2> QED BY <1>11, <1>12, <2>2
<1>14. Contents(r) \in Seq(Bytes) /\ Len(Contents(r)) = Count(r)
  BY <1>6, ContentsLemma, Zenon
<1>15. Tail(Contents(q)) \in Seq(Bytes) /\ Len(Tail(Contents(q))) = Count(q) - 1
  BY <1>11, <1>12
<1>16. ASSUME NEW i \in 1..Len(Contents(r)) PROVE Contents(r)[i] = Tail(Contents(q))[i]
  <2>1. i \in 1..Count(r) /\ i + 1 \in 1..Count(q)
    BY <1>1, <1>9, <1>14
  <2>2. Contents(r)[i] = q.buf[Place(q, i + 1)]
    BY <1>5, <1>10, <2>1, Zenon DEF Contents
  <2>3. Contents(q)[i + 1] = q.buf[Place(q, i + 1)]
    BY <2>1, Zenon DEF Contents
  <2>4. Tail(Contents(q))[i] = Contents(q)[i + 1]
    BY <1>9, <1>11, <1>12, <2>1
  <2> QED BY <2>2, <2>3, <2>4, Zenon
<1>17. Contents(r) = Tail(Contents(q))
  BY <1>9, <1>14, <1>15, <1>16, ListEqual, Zenon
<1> QED BY <1>6, <1>12, <1>13, <1>17, Zenon

-----------------------------------------------------------------------------
InCall == {"loop", "lockq", "asleep"}

(* A producer in its call has a character to write.                        *)
QInv ==
    /\ use \in Uses
    /\ ioq \in Buffer
    /\ arg \in [Threads -> Bytes]
    /\ pc \in [Threads -> {"out", "loop", "lockq", "asleep", "block", "sti", "hlt"}]
    /\ \A t \in Workers : t \in use.producers /\ pc[t] \in InCall => arg[t] \in Chars

(* Changes of the queue that leave its characters, and those of the pc     *)
(* that put no thread into a call.                                         *)
LEMMA KeptQueueLemma ==
    ASSUME QInv, UNCHANGED <<use, arg, out>>, ioq' \in Buffer,
           pc' \in [Threads -> {"out", "loop", "lockq", "asleep", "block", "sti", "hlt"}],
           \A t \in Workers : pc'[t] \in InCall => pc[t] \in InCall,
           ioq'.buf = ioq.buf, ioq'.head = ioq.head, ioq'.tail = ioq.tail
    PROVE  QInv' /\ UNCHANGED <<Queue, out>>
<1>1. QInv'
  BY Zenon DEF QInv
<1>2. Queue' = Queue
  BY Zenon DEF Queue
<1> QED BY <1>1, <1>2, Zenon

(* A byte with bit 7 clear is the low byte of the make code of a key.      *)
KeysSent ==
    /\ bytes \in Seq(Nat)
    /\ \A i \in 1..Len(bytes) : bytes[i] < 128 => \E k \in Keys : bytes[i] = k % 256

LEMMA SentLemma ==
    ASSUME QInv, KeysSent, [Next]_vars
    PROVE  KeysSent'
<1>1. CASE UNCHANGED bytes
  BY <1>1 DEF KeysSent
<1>2. CASE bytes # <<>> /\ bytes' = Tail(bytes)
  <2>1. /\ bytes' \in Seq(Nat) /\ Len(bytes') = Len(bytes) - 1
        /\ \A i \in 1..Len(bytes') : i + 1 \in 1..Len(bytes) /\ bytes'[i] = bytes[i + 1]
    BY <1>2 DEF KeysSent
  <2>2. ASSUME NEW i \in 1..Len(bytes'), bytes'[i] < 128
        PROVE  \E k \in Keys : bytes'[i] = k % 256
    <3>1. i + 1 \in 1..Len(bytes) /\ bytes'[i] = bytes[i + 1]
      BY <2>1, Zenon
    <3>2. bytes[i + 1] < 128
      BY <2>2, <3>1, Zenon
    <3>3. \E k \in Keys : bytes[i + 1] = k % 256
      BY <3>1, <3>2 DEF KeysSent
    <3> QED BY <3>1, <3>3
  <2> QED BY <2>1, <2>2, Zenon DEF KeysSent
<1>3. ASSUME NEW k \in Keys, bytes' = Scan(k) \/ bytes' = Scan(k + 128)
      PROVE  KeysSent'
  <2>1. k \in Nat /\ k % 256 \in Nat /\ (k + 128) % 256 \in Nat /\ (k + 128) % 256 >= 128
    BY KeysAssumption
  <2>2. PICK x \in {k % 256, (k + 128) % 256}, p \in {<<>>, <<\he0>>} : bytes' = p \o <<x>>
    BY <1>3, ZenonT(30) DEF Scan
  <2>3. x \in Nat /\ p \in Seq(Nat) /\ <<x>> \in Seq(Nat) /\ Len(p) \in 0..1 /\ Len(<<x>>) = 1
    <3>1. x \in Nat
      BY <2>1
    <3>2. p = <<>> \/ p = <<\he0>>
      BY Zenon
    <3>3. p \in Seq(Nat) /\ Len(p) \in 0..1
      <4>1. CASE p = <<>>
        BY <4>1
      <4>2. CASE p = <<\he0>>
        BY <4>2
      <4> QED BY <3>2, <4>1, <4>2
    <3> QED BY <3>1, <3>3
  <2>4. bytes' \in Seq(Nat) /\ Len(bytes') = Len(p) + 1
    BY <2>2, <2>3, ListConcat
  <2>5. ASSUME NEW i \in 1..Len(bytes'), bytes'[i] < 128 PROVE bytes'[i] = k % 256
    <3>1. CASE i <= Len(p)
      <4>1. bytes'[i] = p[i] /\ p[i] = \he0
        BY <2>2, <2>3, <2>4, <3>1, ListConcat
      <4> QED BY <2>5, <4>1
    <3>2. CASE i = Len(p) + 1
      <4>1. bytes'[i] = <<x>>[1]
        BY <2>2, <2>3, <2>4, <3>2, ListConcat
      <4> QED BY <2>1, <2>2, <2>5, <4>1
    <3> QED BY <2>3, <2>4, <3>1, <3>2
  <2> QED BY <2>4, <2>5 DEF KeysSent
<1>4. CASE Type
  <2>1. use.keys \subseteq Keys
    BY IoQueueAssumption, Zenon DEF QInv
  <2> QED BY <1>3, <1>4, <2>1, Zenon DEF Type, Press, Release
<1>5. CASE intr_keyboard_handler
  BY <1>2, <1>5, Zenon DEF intr_keyboard_handler, Prefix, Break, Modifier, Ignored, Char, Received
<1> QED
  BY <1>1, <1>4, <1>5, Zenon DEF Next, Call, Continue, LockWait, ioq_wait, LockRelease, ioq_getchar,
     ioq_putchar, IdleBlock, IdleHalt, Timer, vars, keyboardVars

(* The character of a key that is in use is one of Chars.                  *)
LEMMA CurCharLemma == KeysSent /\ Char => cur_char \in Chars
<1> SUFFICES ASSUME KeysSent, Char PROVE cur_char \in Chars
  BY Zenon
<1>1. bytes # <<>> /\ Head(bytes) < 128
  BY Zenon DEF Char, MakeCode, Received
<1>2. PICK k \in Keys : Head(bytes) = k % 256
  BY <1>1 DEF KeysSent
<1>3. Head(bytes) \in Nat
  BY <1>1 DEF KeysSent
<1>4. scancode % 256 = k % 256
  BY <1>1, <1>2, <1>3 DEF scancode
<1>5. keymap(k % 256, Shifted(scancode)) = keymap(k % 256, TRUE)
      \/ keymap(k % 256, Shifted(scancode)) = keymap(k % 256, FALSE)
  BY ZenonT(30) DEF keymap
<1>6. cur_char = keymap(k % 256, Shifted(scancode))
  BY <1>4 DEF cur_char
<1>7. keymap(k % 256, TRUE) \in Chars /\ keymap(k % 256, FALSE) \in Chars
  BY IoQueueAssumption, Zenon
<1> QED BY <1>5, <1>6, <1>7, Zenon

LEMMA PutLemma ==
    ASSUME QInv, NEW c \in Chars, ~ioq_full(ioq), ioq' = Stored(ioq, c), UNCHANGED out
    PROVE  ioq' \in Buffer /\ Abstract!Put(c)
<1>1. c \in Bytes /\ ioq \in Buffer
  BY Zenon DEF QInv, Bytes
<1>2. ioq' \in Buffer /\ Contents(ioq') = Append(Contents(ioq), c)
  BY <1>1, StoredLemma, Zenon
<1>3. Len(Contents(ioq)) < bufsize - 1
  BY <1>1, ContentsLemma, IoQueueAssumption DEF Positions
<1>4. Queue = Contents(ioq) /\ Queue' = Contents(ioq')
  BY Zenon DEF Queue, Contents, Count, Place
<1> QED BY <1>2, <1>3, <1>4, Zenon DEF Abstract!Put

-----------------------------------------------------------------------------
(* One lemma for each step that touches the queue or a call.               *)
LEMMA CallStep ==
    ASSUME QInv, NEW t \in Workers, Call(t)
    PROVE  QInv' /\ UNCHANGED <<Queue, out>>
<1>1. /\ pc' = [pc EXCEPT ![t] = "loop"] /\ UNCHANGED <<use, ioq, out>>
      /\ t \in Threads
  BY Zenon DEF Call, Goto, Workers
<1>2. pc' \in [Threads -> {"out", "loop", "lockq", "asleep", "block", "sti", "hlt"}]
  BY <1>1, Zenon DEF QInv
<1>3. arg' \in [Threads -> Bytes] /\ (t \in use.producers => arg'[t] \in Chars)
      /\ \A u \in Workers : u # t => arg'[u] = arg[u]
  <2>1. CASE t \in use.consumers /\ UNCHANGED arg
    <3>1. t \notin use.producers
      BY <2>1, IoQueueAssumption, Zenon DEF QInv
    <3> QED BY <2>1, <3>1, Zenon DEF QInv
  <2>2. CASE \E c \in use.chars : arg' = [arg EXCEPT ![t] = c]
    <3>1. use.chars \subseteq Chars
      BY IoQueueAssumption, Zenon DEF QInv
    <3> QED BY <1>1, <2>2, <3>1 DEF QInv, Bytes
  <2> QED BY <2>1, <2>2, Zenon DEF Call
<1>4. \A u \in Workers : u \in use'.producers /\ pc'[u] \in InCall => arg'[u] \in Chars
  BY <1>1, <1>3, Zenon DEF QInv, Workers
<1>5. QInv'
  BY <1>1, <1>2, <1>3, <1>4, Zenon DEF QInv
<1>6. UNCHANGED Queue
  BY <1>1, Zenon DEF Queue
<1> QED BY <1>1, <1>5, <1>6, Zenon

LEMMA WaitStep ==
    ASSUME QInv, NEW t \in Workers, LockWait(t) \/ ioq_wait(t) \/ LockRelease(t)
    PROVE  QInv' /\ UNCHANGED <<Queue, out>>
<1>1. /\ pc[t] \in InCall /\ \E to \in InCall : pc' = [pc EXCEPT ![t] = to]
      /\ UNCHANGED <<use, arg, out>>
  BY Zenon DEF LockWait, ioq_wait, LockRelease, Locking, At, Goto, InCall
<1>2. /\ pc' \in [Threads -> {"out", "loop", "lockq", "asleep", "block", "sti", "hlt"}]
      /\ \A u \in Workers : pc'[u] \in InCall => pc[u] \in InCall
  BY <1>1, Zenon DEF QInv, InCall, Workers
<1>3. ioq' = ioq \/ ioq' = [ioq EXCEPT !.consumer = t] \/ ioq' = [ioq EXCEPT !.producer = t]
  BY Zenon DEF LockWait, ioq_wait, LockRelease, Slot
<1>4. ioq' \in Buffer /\ ioq'.buf = ioq.buf /\ ioq'.head = ioq.head /\ ioq'.tail = ioq.tail
  BY <1>3 DEF QInv, Buffer
<1> QED BY <1>1, <1>2, <1>4, KeptQueueLemma, Zenon

LEMMA GetStep ==
    ASSUME QInv, NEW t \in Workers, ioq_getchar(t)
    PROVE  QInv' /\ Abstract!Get
<1>1. /\ pc' = [pc EXCEPT ![t] = "out"] /\ UNCHANGED <<use, arg>>
      /\ ~ioq_empty(ioq) /\ out' = ioq.buf[ioq.tail] /\ ioq' = Taken(ioq)
  BY Zenon DEF ioq_getchar, Goto
<1>2. ioq \in Buffer
  BY Zenon DEF QInv
<1>3. Queue = Contents(ioq) /\ Queue' = Contents(ioq')
  BY Zenon DEF Queue, Contents, Count, Place
<1>4. ioq' \in Buffer /\ Abstract!Get
  BY <1>1, <1>2, <1>3, TakenLemma, Zenon DEF Abstract!Get
<1>5. pc' \in [Threads -> {"out", "loop", "lockq", "asleep", "block", "sti", "hlt"}]
  BY <1>1, Zenon DEF QInv
<1>6. \A u \in Workers : pc'[u] \in InCall => pc[u] \in InCall
  BY <1>1, Zenon DEF QInv, InCall, Workers
<1>7. QInv'
  BY <1>1, <1>4, <1>5, <1>6, Zenon DEF QInv
<1> QED BY <1>4, <1>7, Zenon

LEMMA PutStep ==
    ASSUME QInv, NEW t \in Workers, ioq_putchar(t)
    PROVE  QInv' /\ arg[t] \in Chars /\ Abstract!Put(arg[t])
<1>1. /\ pc' = [pc EXCEPT ![t] = "out"] /\ UNCHANGED <<use, arg, out>>
      /\ ~ioq_full(ioq) /\ ioq' = Stored(ioq, arg[t])
      /\ pc[t] = "loop" /\ t \in use.producers
  BY Zenon DEF ioq_putchar, Goto, At
<1>2. arg[t] \in Chars
  BY <1>1, Zenon DEF QInv, InCall
<1>3. ioq' \in Buffer /\ Abstract!Put(arg[t])
  BY <1>1, <1>2, PutLemma, Zenon
<1>4. pc' \in [Threads -> {"out", "loop", "lockq", "asleep", "block", "sti", "hlt"}]
  BY <1>1, Zenon DEF QInv
<1>5. \A u \in Workers : pc'[u] \in InCall => pc[u] \in InCall
  BY <1>1, Zenon DEF QInv, InCall, Workers
<1>6. QInv'
  BY <1>1, <1>3, <1>4, <1>5, Zenon DEF QInv
<1> QED BY <1>2, <1>3, <1>6, Zenon

(* An interrupt, and the steps of idle, put no thread into a call.         *)
LEMMA ResumeLemma ==
    ASSUME QInv, Resume \/ Goto(Idle, "sti") \/ Goto(Idle, "hlt") \/ UNCHANGED pc
    PROVE  /\ pc' \in [Threads -> {"out", "loop", "lockq", "asleep", "block", "sti", "hlt"}]
           /\ \A t \in Workers : pc'[t] \in InCall => pc[t] \in InCall
BY Zenon DEF QInv, Resume, Goto, InCall, Workers

LEMMA KeyboardStep ==
    ASSUME QInv, KeysSent, intr_keyboard_handler
    PROVE  QInv' /\ (UNCHANGED <<Queue, out>> \/ \E c \in Chars : Abstract!Put(c))
<1>1. Resume /\ UNCHANGED <<use, arg, out>>
  BY Zenon DEF intr_keyboard_handler
<1>2. CASE UNCHANGED ioq
  <2>1. ioq' \in Buffer
    BY <1>2, Zenon DEF QInv
  <2> QED BY <1>1, <1>2, <2>1, ResumeLemma, KeptQueueLemma, Zenon
<1>3. CASE Char /\ ~ioq_full(ioq) /\ ioq' = Stored(ioq, cur_char)
  <2>1. cur_char \in Chars
    BY <1>3, CurCharLemma, Zenon
  <2>2. ioq' \in Buffer /\ Abstract!Put(cur_char)
    BY <1>1, <1>3, <2>1, PutLemma, Zenon
  <2>3. QInv'
    BY <1>1, <2>2, ResumeLemma, Zenon DEF QInv
  <2> QED BY <2>1, <2>2, <2>3, Zenon
<1> QED BY <1>2, <1>3, Zenon DEF intr_keyboard_handler, PutChar

LEMMA QueueStep ==
    QInv /\ KeysSent /\ [Next]_vars => QInv' /\ [Abstract!Next]_<<Queue, out>>
<1> SUFFICES ASSUME QInv, KeysSent, [Next]_vars PROVE QInv' /\ [Abstract!Next]_<<Queue, out>>
  BY Zenon
<1>1. ASSUME NEW t \in Workers, Call(t) \/ Continue(t)
      PROVE  QInv' /\ [Abstract!Next]_<<Queue, out>>
  BY <1>1, CallStep, WaitStep, GetStep, PutStep, Zenon DEF Continue, Abstract!Next
<1>2. CASE intr_keyboard_handler
  BY <1>2, KeyboardStep, Zenon DEF Abstract!Next
<1>3. CASE IdleBlock \/ IdleHalt \/ Timer \/ Type \/ UNCHANGED vars
  <2>1. /\ UNCHANGED <<use, ioq, arg, out>>
        /\ Resume \/ Goto(Idle, "sti") \/ Goto(Idle, "hlt") \/ UNCHANGED pc
    BY <1>3, Zenon DEF IdleBlock, IdleHalt, Timer, Type, vars
  <2>2. ioq' \in Buffer
    BY <2>1, Zenon DEF QInv
  <2> QED BY <2>1, <2>2, ResumeLemma, KeptQueueLemma, Zenon
<1> QED BY <1>1, <1>2, <1>3, Zenon DEF Next

LEMMA QueueInit == Init => QInv /\ Abstract!Init
<1> SUFFICES ASSUME Init PROVE QInv /\ Abstract!Init
  BY Zenon
<1>1. 0 \in Positions /\ bufsize \in Nat
  BY IoQueueAssumption DEF Positions
<1>2. ioq \in Buffer
  BY <1>1, Zenon DEF Init, Buffer, Positions, Bytes
<1>3. QInv
  BY <1>2, Zenon DEF Init, QInv, Bytes, InCall, Workers
<1>4. Queue = Contents(ioq)
  BY Zenon DEF Queue, Contents, Count, Place
<1>5. Queue = <<>>
  BY <1>2, <1>4, ContentsLemma DEF Init, ioq_empty
<1> QED BY <1>3, <1>5, Zenon DEF Init, Abstract!Init

(* ioq_putchar and ioq_getchar implement a FIFO of bufsize - 1 characters, *)
(* for every bufsize, set of threads and use: no character is lost,        *)
(* doubled or overtaken in the ring buffer, whoever sleeps or is woken.    *)
THEOREM QueueImplementsFifo == Spec => QueueIsFifo
<1>1. Init => KeysSent
  BY DEF Init, KeyboardInit, KeysSent
<1>2. QInv /\ KeysSent /\ [Next]_vars => KeysSent'
  BY SentLemma, Zenon
<1> QED BY <1>1, <1>2, QueueInit, QueueStep, PTL DEF Spec, QueueIsFifo, Abstract!Spec

-----------------------------------------------------------------------------
(* The threads.  A thread is in lock.waiters exactly while it is blocked   *)
(* in sema_down, the semaphore is down exactly while the lock has a        *)
(* holder, and each of the two fields names a thread of its kind.          *)
SInv ==
    /\ sched \in SchedState /\ SchedConsistent(sched) /\ ~sched.panic
    /\ sched.status[Idle] # "NONE"
    /\ lock \in [value : 0..1, waiters : Seq(Workers), holder : Workers \cup {NoThread}]
    /\ lock.value = 1 <=> lock.holder = NoThread
    /\ NoDuplicates(lock.waiters)
    /\ pc[Idle] \in {"block", "sti", "hlt"}
    /\ \A t \in Workers : pc[t] \in {"out"} \cup InCall
    /\ \A t \in Workers :
        elem_find(lock.waiters, t) <=> pc[t] = "lockq" /\ sched.status[t] = "BLOCKED"
    /\ SleeperHoldsLock
    /\ ioq.consumer # NoThread => ioq.consumer \in use.consumers
    /\ ioq.producer \notin use.consumers

(* The only reader of the keyboard never waits for the lock.               *)
ReaderInv ==
    /\ \A t \in Workers : pc[t] \in InCall => t \in use.consumers \cup use.producers
    /\ \A t \in Workers : use.consumers = {t} /\ use.producers = {} =>
        pc[t] # "lockq" /\ (ioq.consumer = t => ioq_empty(ioq))

-----------------------------------------------------------------------------
(* The keyboard.  Rest(code): what the handler has not read yet is the     *)
(* rest of code.                                                           *)
Shifts == {shift_l_make, shift_r_make}

Rest(code) ==
    \/ ~ext_scancode /\ bytes = Scan(code)
    \/ ext_scancode /\ code > 255 /\ bytes = <<code % 256>>

(* A flag is set only for a key that is down, or one of up, whose release  *)
(* the handler does not know of yet.                                       *)
Flags(up) ==
    /\ ctrl_status => Down({ctrl_l_make, ctrl_r_make}) \/ up \cap {ctrl_l_make, ctrl_r_make} # {}
    /\ shift_status => Down(Shifts) \/ up \cap Shifts # {}
    /\ alt_status => Down({alt_l_make, alt_r_make}) \/ up \cap {alt_l_make, alt_r_make} # {}

(* What chooses a character is exact, but for the keys of down, whose      *)
(* press the handler does not know of yet, and of up.                      *)
Exact(down, up) ==
    /\ ~(Shifts \subseteq use.keys) /\ down \cap Shifts = {} =>
        (shift_status <=> Down(Shifts) \/ up \cap Shifts # {})
    /\ caps_lock_status <=> (caps <=> caps_lock_make \notin down)

KInv ==
    /\ KeyboardTypeOK
    /\ held \subseteq use.keys
    /\ \/ bytes = <<>> /\ ~ext_scancode /\ Flags({}) /\ Exact({}, {})
       \/ \E k \in held : Rest(k) /\ Flags({}) /\ Exact({k}, {})
       \/ \E k \in use.keys \ held : Rest(k + 128) /\ Flags({k}) /\ Exact({}, {k})

(* The bytes of a make code and of a break code, and what the handler      *)
(* makes of them.                                                          *)
LEMMA CodeLemma ==
    ASSUME NEW k \in Keys, NEW code, code = k \/ code = k + 128
    PROVE  /\ code \in Nat /\ code % 256 \in 0..255 /\ code % 256 # \he0
           /\ code % 256 >= 128 <=> code = k + 128
           /\ code <= 255 => code % 256 = code
           /\ code > 255 => \he000 + (code % 256) = code
<1>1. k \in 1..127 \ {\h60} \/ k \in (\he001)..(\he07f) \ {\he060}
  BY KeysAssumption
<1>2. CASE k \in 1..127 \ {\h60}
  BY <1>2
<1>3. CASE k \in (\he001)..(\he07f) \ {\he060}
  BY <1>3
<1> QED BY <1>1, <1>2, <1>3

LEMMA PairLemma ==
    ASSUME NEW x \in Nat, NEW y \in Nat
    PROVE  <<x>> \o <<y>> = <<x, y>>
<1> DEFINE s == <<x>> \o <<y>>
<1>1. <<x>> \in Seq(Nat) /\ <<y>> \in Seq(Nat) /\ <<x, y>> \in Seq(Nat)
  OBVIOUS
<1>2. s \in Seq(Nat) /\ Len(s) = 2 /\ s[1] = x /\ s[2] = y
  BY <1>1, ListConcat
<1> HIDE DEF s
<1>3. s = <<x, y>>
  BY <1>1, <1>2, ListEqual
<1> QED BY <1>3, Zenon DEF s

LEMMA ScanLemma ==
    ASSUME NEW code \in Nat, code % 256 \in 0..255
    PROVE  Scan(code) = IF code > 255 THEN <<\he0, code % 256>> ELSE <<code % 256>>
<1>1. <<\he0>> \o <<code % 256>> = <<\he0, code % 256>>
  BY PairLemma
<1>2. <<>> \o <<code % 256>> = <<code % 256>>
  OBVIOUS
<1> QED BY <1>1, <1>2, Zenon DEF Scan

LEMMA RestLemma ==
    ASSUME KeyboardTypeOK, NEW k \in Keys, NEW code, code = k \/ code = k + 128,
           Rest(code), Received
    PROVE  \/ /\ code > 255 /\ ~ext_scancode /\ Head(bytes) = \he0
              /\ bytes' = <<code % 256>>
           \/ /\ Head(bytes) = code % 256 /\ scancode = code /\ bytes' = <<>>
<1>1. /\ code \in Nat /\ code % 256 \in 0..255
      /\ code <= 255 => code % 256 = code
      /\ code > 255 => \he000 + (code % 256) = code
  BY CodeLemma
<1>2. Scan(code) = IF code > 255 THEN <<\he0, code % 256>> ELSE <<code % 256>>
  BY <1>1, ScanLemma
<1>3. ext_scancode \in BOOLEAN
  BY DEF KeyboardTypeOK
<1>4. CASE ~ext_scancode /\ code > 255 /\ bytes = <<\he0, code % 256>>
  <2>1. Head(bytes) = \he0 /\ Tail(bytes) = <<code % 256>>
    BY <1>1, <1>4
  <2> QED BY <1>4, <2>1 DEF Received
<1>5. CASE ~ext_scancode /\ code <= 255 /\ bytes = <<code % 256>>
  <2>1. Head(bytes) = code % 256 /\ Tail(bytes) = <<>>
    BY <1>1, <1>5
  <2> QED BY <1>1, <1>5, <2>1 DEF Received, scancode
<1>6. CASE ext_scancode /\ code > 255 /\ bytes = <<code % 256>>
  <2>1. Head(bytes) = code % 256 /\ Tail(bytes) = <<>>
    BY <1>1, <1>6
  <2> QED BY <1>1, <1>6, <2>1 DEF Received, scancode
<1> QED BY <1>1, <1>2, <1>3, <1>4, <1>5, <1>6 DEF Rest

LEMMA KeyboardInitLemma == Init => KInv
<1> SUFFICES ASSUME Init PROVE KInv
  BY Zenon
<1>1. /\ ctrl_status = FALSE /\ shift_status = FALSE /\ alt_status = FALSE
      /\ caps_lock_status = FALSE /\ ext_scancode = FALSE
      /\ held = {} /\ bytes = <<>> /\ caps = FALSE
  BY Zenon DEF Init, KeyboardInit
<1>2. KeyboardTypeOK
  <2>1. {ctrl_status, shift_status, alt_status, caps_lock_status, ext_scancode, caps}
            \subseteq BOOLEAN
    BY <1>1, Zenon
  <2>2. held \subseteq Keys /\ bytes \in Seq(0..255) /\ Len(bytes) <= 2
    BY <1>1
  <2> QED BY <2>1, <2>2, Zenon DEF KeyboardTypeOK
<1>3. Flags({}) /\ Exact({}, {})
  BY <1>1, Zenon DEF Flags, Exact, Down
<1> QED BY <1>1, <1>2, <1>3, Zenon DEF KInv

LEMMA BooleanLemma ==
    KeyboardTypeOK <=>
        /\ ctrl_status \in BOOLEAN /\ shift_status \in BOOLEAN /\ alt_status \in BOOLEAN
        /\ caps_lock_status \in BOOLEAN /\ ext_scancode \in BOOLEAN /\ caps \in BOOLEAN
        /\ held \subseteq Keys
        /\ bytes \in Seq(0..255) /\ Len(bytes) <= 2
BY Zenon DEF KeyboardTypeOK

LEMMA ScanType ==
    ASSUME NEW k \in Keys, NEW code, code = k \/ code = k + 128
    PROVE  /\ Scan(code) \in Seq(0..255) /\ Len(Scan(code)) <= 2
           /\ Rest(code) => bytes # <<>>
<1>1. code \in Nat /\ code % 256 \in 0..255
  BY CodeLemma
<1>2. Scan(code) = <<\he0, code % 256>> \/ Scan(code) = <<code % 256>>
  BY <1>1, ScanLemma
<1>3. <<\he0, code % 256>> \in Seq(0..255) /\ Len(<<\he0, code % 256>>) = 2
  BY <1>1
<1>4. <<code % 256>> \in Seq(0..255) /\ Len(<<code % 256>>) = 1
  BY <1>1
<1>5. Scan(code) \in Seq(0..255) /\ Len(Scan(code)) \in 1..2
  <2>1. CASE Scan(code) = <<\he0, code % 256>>
    BY <1>3, <2>1
  <2>2. CASE Scan(code) = <<code % 256>>
    BY <1>4, <2>2
  <2> QED BY <1>2, <2>1, <2>2
<1>6. ASSUME Rest(code) PROVE Len(bytes) \in 1..2
  <2>1. CASE bytes = Scan(code)
    BY <1>5, <2>1, Zenon
  <2>2. CASE bytes = <<code % 256>>
    BY <1>4, <2>2
  <2> QED BY <1>6, <2>1, <2>2, Zenon DEF Rest
<1>7. Rest(code) => bytes # <<>>
  BY <1>6
<1>8. Len(Scan(code)) <= 2
  <2> DEFINE n == Len(Scan(code))
  <2>1. n = 2 \/ n = 1
    BY <1>2, <1>3, <1>4, Zenon
  <2> HIDE DEF n
  <2>2. n <= 2
    BY <2>1
  <2> QED BY <2>2, Zenon DEF n
<1> QED BY <1>5, <1>7, <1>8

(* Between two codes the handler has read all of the last one.             *)
LEMMA ReadLemma ==
    ASSUME KInv, use \in Uses, bytes = <<>>
    PROVE  ~ext_scancode /\ Flags({}) /\ Exact({}, {})
<1>1. use.keys \subseteq Keys /\ held \subseteq Keys
  BY IoQueueAssumption, Zenon DEF KInv
<1>2. \A k \in Keys : ~Rest(k) /\ ~Rest(k + 128)
  BY ScanType
<1> QED BY <1>1, <1>2, Zenon DEF KInv

(* A key that goes down, repeats or goes up keeps KInv.                    *)
LEMMA TypeStep ==
    ASSUME KInv, use \in Uses, Type
    PROVE  KInv'
<1>1. /\ bytes = <<>> /\ UNCHANGED handlerVars /\ use' = use
  BY Zenon DEF Type, Press, Release
<1>2. ~ext_scancode /\ Flags({}) /\ Exact({}, {}) /\ held \subseteq use.keys /\ use.keys \subseteq Keys
  BY <1>1, ReadLemma, IoQueueAssumption, Zenon DEF KInv
<1>3. /\ ctrl_status \in BOOLEAN /\ shift_status \in BOOLEAN /\ alt_status \in BOOLEAN
      /\ caps_lock_status \in BOOLEAN /\ ext_scancode \in BOOLEAN /\ caps \in BOOLEAN
  BY BooleanLemma, Zenon DEF KInv
<1>4. ASSUME NEW k \in use.keys, Press(k) PROVE KInv'
  <2>1. bytes' = Scan(k) /\ held' = held \cup {k} /\ k \in Keys
    BY <1>2, <1>4, Zenon DEF Press
  <2>2. caps' \in BOOLEAN /\ (caps' <=> (caps <=> k # caps_lock_make))
    BY <1>3, <1>4, Zenon DEF Press
  <2>3. KeyboardTypeOK'
    <3>0. Scan(k) \in Seq(0..255) /\ Len(Scan(k)) <= 2
      BY <2>1, ScanType
    <3>1. /\ held' \subseteq Keys
          /\ bytes' \in Seq(0..255) /\ Len(bytes') <= 2
      <4>1. held' \subseteq Keys
        BY <1>2, <2>1, Zenon
      <4>2. bytes' \in Seq(0..255)
        BY <2>1, <3>0, Zenon
      <4>4. Len(bytes') <= 2
        BY <2>1, <3>0, Zenon
      <4> QED BY <4>1, <4>2, <4>4, Zenon
    <3>2. (KeyboardTypeOK <=>
            /\ ctrl_status \in BOOLEAN /\ shift_status \in BOOLEAN /\ alt_status \in BOOLEAN
            /\ caps_lock_status \in BOOLEAN /\ ext_scancode \in BOOLEAN /\ caps \in BOOLEAN
            /\ held \subseteq Keys
            /\ bytes \in Seq(0..255) /\ Len(bytes) <= 2)'
      BY BooleanLemma, PTL
    <3> QED BY <1>1, <1>3, <2>2, <3>1, <3>2, Zenon DEF handlerVars
  <2>4. Rest(k)' /\ k \in held' /\ held' \subseteq use'.keys
    BY <1>1, <1>2, <2>1, Zenon DEF Rest, handlerVars
  <2>5. Flags({})'
    BY <1>1, <1>2, <2>1, Zenon DEF Flags, Down, handlerVars
  <2>6. Exact({k}, {})'
    BY <1>1, <1>2, <1>3, <2>1, <2>2, Zenon DEF Exact, Down, handlerVars
  <2> QED BY <2>3, <2>4, <2>5, <2>6, Zenon DEF KInv
<1>5. ASSUME NEW k \in use.keys, Release(k) PROVE KInv'
  <2>1. bytes' = Scan(k + 128) /\ held' = held \ {k} /\ k \in Keys /\ k \in held /\ caps' = caps
    BY <1>2, <1>5, Zenon DEF Release
  <2>3. KeyboardTypeOK'
    <3>0. Scan(k + 128) \in Seq(0..255) /\ Len(Scan(k + 128)) <= 2
      BY <2>1, ScanType
    <3>1. /\ held' \subseteq Keys
          /\ bytes' \in Seq(0..255) /\ Len(bytes') <= 2
      <4>1. held' \subseteq Keys
        BY <1>2, <2>1, Zenon
      <4>2. bytes' \in Seq(0..255)
        BY <2>1, <3>0, Zenon
      <4>4. Len(bytes') <= 2
        BY <2>1, <3>0, Zenon
      <4> QED BY <4>1, <4>2, <4>4
    <3>2. (KeyboardTypeOK <=>
            /\ ctrl_status \in BOOLEAN /\ shift_status \in BOOLEAN /\ alt_status \in BOOLEAN
            /\ caps_lock_status \in BOOLEAN /\ ext_scancode \in BOOLEAN /\ caps \in BOOLEAN
            /\ held \subseteq Keys
            /\ bytes \in Seq(0..255) /\ Len(bytes) <= 2)'
      BY BooleanLemma, PTL
    <3> QED BY <1>1, <1>3, <2>1, <3>1, <3>2, Zenon DEF handlerVars
  <2>4. Rest(k + 128)' /\ k \in use'.keys \ held' /\ held' \subseteq use'.keys
    BY <1>1, <1>2, <2>1, Zenon DEF Rest, handlerVars
  <2>5. Flags({k})'
    BY <1>1, <1>2, <2>1, Zenon DEF Flags, Down, handlerVars
  <2>6. Exact({}, {k})'
    BY <1>1, <1>2, <1>3, <2>1, Zenon DEF Exact, Down, handlerVars
  <2> QED BY <2>3, <2>4, <2>5, <2>6, Zenon DEF KInv
<1> QED BY <1>4, <1>5, Zenon DEF Type

(* The types after a byte is read.                                         *)
LEMMA ReadType ==
    ASSUME KeyboardTypeOK, Received, ext_scancode' \in BOOLEAN,
           ctrl_status' \in BOOLEAN, shift_status' \in BOOLEAN, alt_status' \in BOOLEAN,
           caps_lock_status' \in BOOLEAN
    PROVE  KeyboardTypeOK'
<1>1. bytes \in Seq(0..255) /\ bytes # <<>> /\ Len(bytes) <= 2 /\ held' = held /\ caps' = caps
  BY BooleanLemma, Zenon DEF Received
<1>2. bytes' \in Seq(0..255) /\ Len(bytes') = Len(bytes) - 1 /\ Len(bytes) \in Nat
  BY <1>1, ListTail DEF Received
<1>3. Len(bytes') <= 2
  BY <1>1, <1>2
<1>4. held \subseteq Keys /\ caps \in BOOLEAN
  BY BooleanLemma, Zenon
<1>5. (KeyboardTypeOK <=>
        /\ ctrl_status \in BOOLEAN /\ shift_status \in BOOLEAN /\ alt_status \in BOOLEAN
        /\ caps_lock_status \in BOOLEAN /\ ext_scancode \in BOOLEAN /\ caps \in BOOLEAN
        /\ held \subseteq Keys
        /\ bytes \in Seq(0..255) /\ Len(bytes) <= 2)'
  BY BooleanLemma, PTL
<1> QED BY <1>1, <1>2, <1>3, <1>4, <1>5, Zenon

(* The prefix of an extended code keeps KInv.                              *)
LEMMA PrefixStep ==
    ASSUME KInv, use \in Uses, use' = use, Prefix
    PROVE  KInv'
<1>1. /\ Received /\ Head(bytes) = \he0 /\ ext_scancode' = TRUE
      /\ UNCHANGED <<ctrl_status, shift_status, alt_status, caps_lock_status, held, caps>>
      /\ bytes # <<>>
  BY Zenon DEF Prefix, Received
<1>2. use.keys \subseteq Keys /\ held \subseteq use.keys /\ KeyboardTypeOK
  BY IoQueueAssumption, Zenon DEF KInv
<1>3. KeyboardTypeOK'
  BY <1>1, <1>2, BooleanLemma, ReadType, Zenon
<1>4. /\ \A up : Flags(up)' = Flags(up)
      /\ \A down, up : Exact(down, up)' = Exact(down, up)
  BY <1>1, Zenon DEF Flags, Exact, Down
<1>5. ASSUME NEW k \in Keys, NEW code, code = k \/ code = k + 128, Rest(code)
      PROVE  Rest(code)'
  <2>1. code % 256 # \he0
    BY <1>5, CodeLemma
  <2>2. code > 255 /\ bytes' = <<code % 256>>
    BY <1>1, <1>2, <1>5, <2>1, RestLemma
  <2> QED BY <1>1, <2>2 DEF Rest
<1>6. CASE \E k \in held : Rest(k) /\ Flags({}) /\ Exact({k}, {})
  <2>1. PICK k \in held : Rest(k) /\ Flags({}) /\ Exact({k}, {})
    BY <1>6, Zenon
  <2>2. Rest(k)'
    BY <1>2, <1>5, <2>1, Zenon
  <2>3. Flags({})' /\ Exact({k}, {})'
    BY <1>4, <2>1, Zenon
  <2> QED BY <1>1, <1>2, <1>3, <2>2, <2>3, Zenon DEF KInv
<1>7. CASE \E k \in use.keys \ held : Rest(k + 128) /\ Flags({k}) /\ Exact({}, {k})
  <2>1. PICK k \in use.keys \ held : Rest(k + 128) /\ Flags({k}) /\ Exact({}, {k})
    BY <1>7, Zenon
  <2>2. Rest(k + 128)'
    BY <1>2, <1>5, <2>1, Zenon
  <2>3. Flags({k})' /\ Exact({}, {k})'
    BY <1>4, <2>1, Zenon
  <2> QED BY <1>1, <1>2, <1>3, <2>2, <2>3, Zenon DEF KInv
<1> QED BY <1>1, <1>6, <1>7, Zenon DEF KInv

LEMMA KeysNat == \A k \in Keys : k \in Nat
BY KeysAssumption

(* The break code of a key keeps KInv.                                     *)
LEMMA BreakStep ==
    ASSUME KInv, use \in Uses, use' = use, Break
    PROVE  KInv'
<1>1. /\ Received /\ Head(bytes) # \he0 /\ Head(bytes) >= 128 /\ ext_scancode' = FALSE
      /\ UNCHANGED <<caps_lock_status, held, caps>> /\ bytes # <<>>
  BY Zenon DEF Break, Received
<1>2. use.keys \subseteq Keys /\ held \subseteq use.keys /\ KeyboardTypeOK
  BY IoQueueAssumption, Zenon DEF KInv
<1>3. /\ ctrl_status \in BOOLEAN /\ shift_status \in BOOLEAN /\ alt_status \in BOOLEAN
      /\ caps_lock_status \in BOOLEAN /\ caps \in BOOLEAN
  BY <1>2, BooleanLemma, Zenon
<1>4. KeyboardTypeOK'
  <2>1. ctrl_status' \in BOOLEAN /\ shift_status' \in BOOLEAN /\ alt_status' \in BOOLEAN
    BY Zenon DEF Break
  <2> QED BY <1>1, <1>2, <1>3, <2>1, ReadType, Zenon
<1>5. ~ \E k \in held : Rest(k)
  <2> SUFFICES ASSUME NEW k \in held, Rest(k) PROVE FALSE
    BY Zenon
  <2>1. k \in Keys /\ k \in Nat
    BY <1>2, KeysNat, Zenon
  <2>2. Head(bytes) = k % 256
    BY <1>1, <1>2, <2>1, RestLemma
  <2>3. k % 256 \in 0..255 /\ (k % 256 >= 128 <=> k = k + 128)
    BY <2>1, CodeLemma
  <2> QED BY <1>1, <2>1, <2>2, <2>3
<1>6. PICK k \in use.keys \ held : Rest(k + 128) /\ Flags({k}) /\ Exact({}, {k})
  BY <1>1, <1>5, Zenon DEF KInv
<1>7. scancode = k + 128 /\ bytes' = <<>> /\ k \in Nat
  <2>1. k \in Keys /\ k \in Nat
    BY <1>2, KeysNat, Zenon
  <2> QED BY <1>1, <1>2, <1>6, <2>1, RestLemma
<1>8. /\ ctrl_status'  = (ctrl_status  /\ k \notin {ctrl_l_make, ctrl_r_make})
      /\ shift_status' = (shift_status /\ k \notin {shift_l_make, shift_r_make})
      /\ alt_status'   = (alt_status   /\ k \notin {alt_l_make, alt_r_make})
  <2>1. scancode - 128 = k
    BY <1>7
  <2> QED BY <2>1 DEF Break
<1>9. Flags({})'
  BY <1>1, <1>3, <1>6, <1>8, Zenon DEF Flags, Down, Shifts
<1>10. Exact({}, {})'
  <2>1. ASSUME ~(Shifts \subseteq use.keys) PROVE shift_status' <=> Down(Shifts)
    <3>1. shift_status <=> Down(Shifts) \/ {k} \cap Shifts # {}
      BY <1>6, <2>1, Zenon DEF Exact
    <3>2. CASE k \in Shifts
      <4>1. ~Down(Shifts)
        BY <1>2, <1>6, <2>1, <3>2, Zenon DEF Down, Shifts
      <4> QED BY <1>8, <3>2, <4>1, Zenon DEF Shifts
    <3>3. CASE k \notin Shifts
      BY <1>3, <1>8, <3>1, <3>3, Zenon DEF Shifts
    <3> QED BY <3>2, <3>3, Zenon
  <2>2. Down(Shifts)' = Down(Shifts)
    BY <1>1, Zenon DEF Down
  <2> QED BY <1>1, <1>6, <2>1, <2>2, Zenon DEF Exact
<1> QED BY <1>1, <1>2, <1>4, <1>7, <1>9, <1>10, Zenon DEF KInv

(* So does the make code of a key.                                         *)
LEMMA MakeLemma ==
    ASSUME KInv, use \in Uses, Received, Head(bytes) < 128
    PROVE  \E k \in held : /\ k \in Keys /\ Flags({}) /\ Exact({k}, {})
                           /\ scancode = k /\ bytes' = <<>> /\ Head(bytes) = k % 256
<1>1. bytes # <<>> /\ use.keys \subseteq Keys /\ held \subseteq use.keys /\ KeyboardTypeOK
  BY IoQueueAssumption, Zenon DEF KInv, Received
<1>2. ASSUME NEW k \in use.keys, Rest(k + 128) PROVE FALSE
  <2>1. k \in Keys /\ k \in Nat
    BY <1>1, KeysNat, Zenon
  <2>2. Head(bytes) = (k + 128) % 256
    BY <1>1, <1>2, <2>1, RestLemma
  <2>3. (k + 128) % 256 \in 0..255 /\ (k + 128) % 256 >= 128
    BY <2>1, CodeLemma
  <2> QED BY <2>2, <2>3
<1>3. PICK k \in held : Rest(k) /\ Flags({}) /\ Exact({k}, {})
  BY <1>1, <1>2, Zenon DEF KInv
<1>4. k \in Keys
  BY <1>1, Zenon
<1>5. scancode = k /\ bytes' = <<>> /\ Head(bytes) = k % 256
  BY <1>1, <1>3, <1>4, RestLemma
<1> QED BY <1>3, <1>4, <1>5, Zenon

LEMMA MakeStep ==
    ASSUME KInv, use \in Uses, use' = use, Char \/ Modifier \/ Ignored
    PROVE  KInv'
<1>1. /\ Received /\ Head(bytes) < 128 /\ ext_scancode' = FALSE /\ UNCHANGED <<held, caps>>
  BY Zenon DEF Char, Modifier, Ignored, MakeCode, Received
<1>2. use.keys \subseteq Keys /\ held \subseteq use.keys /\ KeyboardTypeOK
  BY IoQueueAssumption, Zenon DEF KInv
<1>3. /\ ctrl_status \in BOOLEAN /\ shift_status \in BOOLEAN /\ alt_status \in BOOLEAN
      /\ caps_lock_status \in BOOLEAN /\ caps \in BOOLEAN
  BY <1>2, BooleanLemma, Zenon
<1>4. PICK k \in held : /\ k \in Keys /\ Flags({}) /\ Exact({k}, {})
                        /\ scancode = k /\ bytes' = <<>> /\ Head(bytes) = k % 256
  BY <1>1, MakeLemma, Zenon
<1>5. k \in Nat /\ k % 256 \in 0..255
  BY <1>4, KeysNat, CodeLemma
<1>6. CASE Char \/ Ignored
  <2>1. UNCHANGED <<ctrl_status, shift_status, alt_status, caps_lock_status>>
    BY <1>6, Zenon DEF Char, Ignored
  <2>2. k \notin Shifts \cup {caps_lock_make}
    <3> SUFFICES ASSUME k \in Shifts \cup {caps_lock_make} PROVE FALSE
      BY Zenon
    <3>1. k % 256 \in Modifiers /\ k \in 1..\h3a
      BY DEF Shifts, shift_l_make, shift_r_make, caps_lock_make, Modifiers
    <3>2. MakeCode /\ cur_char = Nul
      BY <1>1, <1>4, <3>1, Zenon DEF MakeCode, cur_char, keymap
    <3> QED BY <1>6, <3>2, Zenon DEF Char, Ignored
  <2>3. KeyboardTypeOK'
    BY <1>1, <1>2, <1>3, <2>1, ReadType, Zenon
  <2>4. Flags({})'
    BY <1>1, <1>4, <2>1, Zenon DEF Flags, Down
  <2>5. Exact({}, {})'
    BY <1>1, <1>3, <1>4, <2>1, <2>2, Zenon DEF Exact, Down
  <2> QED BY <1>1, <1>2, <1>4, <2>3, <2>4, <2>5, Zenon DEF KInv
<1>7. CASE Modifier
  <2>1. /\ ctrl_status'  = (ctrl_status  \/ k % 256 = ctrl_l_make)
        /\ shift_status' = (shift_status \/ k % 256 \in {shift_l_make, shift_r_make})
        /\ alt_status'   = (alt_status   \/ k % 256 = alt_l_make)
        /\ caps_lock_status' = (caps_lock_status # (k % 256 = caps_lock_make))
    BY <1>4, <1>7 DEF Modifier
  <2>2. k \in 1..\h3a \cup {alt_r_make, ctrl_r_make}
    BY <1>4, <1>7, Zenon DEF Modifier, MakeCode
  <2>3. /\ k % 256 = ctrl_l_make => k \in {ctrl_l_make, ctrl_r_make}
        /\ k % 256 \in {shift_l_make, shift_r_make} <=> k \in Shifts
        /\ k % 256 = alt_l_make => k \in {alt_l_make, alt_r_make}
        /\ k % 256 = caps_lock_make <=> k = caps_lock_make
    BY <2>2 DEF ctrl_l_make, ctrl_r_make, shift_l_make, shift_r_make, alt_l_make, alt_r_make,
                caps_lock_make, Shifts
  <2>4. /\ ctrl_status' \in BOOLEAN /\ shift_status' \in BOOLEAN /\ alt_status' \in BOOLEAN
        /\ caps_lock_status' \in BOOLEAN
        /\ caps_lock_status' <=> (caps_lock_status <=> k # caps_lock_make)
    BY <1>3, <2>1, <2>3, Zenon
  <2>5. KeyboardTypeOK'
    BY <1>1, <1>2, <2>4, ReadType, Zenon
  <2>6. Flags({})'
    BY <1>1, <1>3, <1>4, <2>1, <2>3 DEF Flags, Down
  <2>7. Exact({}, {})'
    <3>1. CASE k \in Shifts
      BY <1>1, <1>3, <1>4, <2>1, <2>3, <2>4, <3>1, Zenon DEF Exact, Down
    <3>2. CASE k \notin Shifts
      BY <1>1, <1>3, <1>4, <2>1, <2>3, <2>4, <3>2 DEF Exact, Down
    <3> QED BY <3>1, <3>2
  <2> QED BY <1>1, <1>2, <1>4, <2>5, <2>6, <2>7 DEF KInv
<1> QED BY <1>6, <1>7, Zenon

(* Every step keeps KInv: only the keyboard and its interrupt disturb it.  *)
LEMMA KeyboardInvStep ==
    ASSUME KInv, QInv, [Next]_vars
    PROVE  KInv'
<1>1. use \in Uses
  BY Zenon DEF QInv
<1>2. CASE Type
  BY <1>1, <1>2, TypeStep, Zenon
<1>3. CASE intr_keyboard_handler
  <2>1. use' = use
    BY <1>3, Zenon DEF intr_keyboard_handler
  <2> QED BY <1>1, <1>3, <2>1, PrefixStep, BreakStep, MakeStep, Zenon DEF intr_keyboard_handler
<1>4. CASE UNCHANGED <<use, keyboardVars>>
  <2>1. UNCHANGED <<use, ctrl_status, shift_status, alt_status, caps_lock_status, ext_scancode,
                    held, bytes, caps>>
    BY <1>4, Zenon DEF keyboardVars, handlerVars
  <2>2. /\ \A up : Flags(up)' = Flags(up)
        /\ \A down, up : Exact(down, up)' = Exact(down, up)
        /\ \A code : Rest(code)' = Rest(code)
        /\ KeyboardTypeOK' = KeyboardTypeOK
    BY <2>1 DEF Flags, Exact, Down, Rest, KeyboardTypeOK
  <2> QED BY <2>1, <2>2, Zenon DEF KInv
<1> QED
  BY <1>2, <1>3, <1>4, Zenon DEF Next, Call, Continue, LockWait, ioq_wait, LockRelease, ioq_getchar,
     ioq_putchar, IdleBlock, IdleHalt, Timer, vars

LEMMA NoStuckLemma == KInv /\ QInv => NoStuckModifier
<1> SUFFICES ASSUME KInv, QInv, bytes = <<>>
             PROVE  /\ ctrl_status => Down({ctrl_l_make, ctrl_r_make})
                    /\ shift_status => Down({shift_l_make, shift_r_make})
                    /\ alt_status => Down({alt_l_make, alt_r_make})
                    /\ ~ext_scancode
  BY Zenon DEF NoStuckModifier
<1>1. ~ext_scancode /\ Flags({})
  BY ReadLemma, Zenon DEF QInv
<1> QED BY <1>1, Zenon DEF Flags, Shifts

(* The character of a make code comes from the column the keys ask for.    *)
LEMMA CharLemma ==
    ASSUME KInv, use \in Uses, Char, ~(Shifts \subseteq use.keys)
    PROVE  cur_char.shift = ColumnHeld(cur_char.key)
<1>1. /\ shift_status \in BOOLEAN /\ caps_lock_status \in BOOLEAN /\ caps \in BOOLEAN
  BY BooleanLemma, Zenon DEF KInv
<1>2. Received /\ Head(bytes) < 128 /\ cur_char # Nul
      /\ scancode \in 1..\h3a \cup {alt_r_make, ctrl_r_make}
  BY Zenon DEF Char, MakeCode
<1>3. PICK k \in held : k \in Keys /\ Exact({k}, {}) /\ scancode = k
  BY <1>2, MakeLemma, Zenon
<1>4. k % 256 \notin Modifiers
  BY <1>2, <1>3 DEF cur_char, keymap
<1>5. k \in 1..\h3a /\ k % 256 = k
  BY <1>2, <1>3, <1>4 DEF Modifiers, alt_r_make, ctrl_r_make, alt_l_make, ctrl_l_make
<1>6. k \notin Shifts \cup {caps_lock_make}
  BY <1>4, <1>5, Zenon DEF Modifiers, Shifts
<1>7. (shift_status <=> Down(Shifts)) /\ (caps_lock_status <=> caps)
  BY <1>1, <1>3, <1>6, Zenon DEF Exact
<1>8. cur_char = [key |-> k, shift |-> Shifted(k) /\ k \notin OneChar]
  BY <1>3, <1>4, <1>5 DEF cur_char, keymap
<1>9. cur_char.key = k /\ cur_char.shift = (Shifted(k) /\ k \notin OneChar)
  BY <1>8, Zenon
<1>10. (Shifted(k) /\ k \notin OneChar) = ColumnHeld(k)
  <2>1. CASE k \in OneChar
    BY <2>1, Zenon DEF ColumnHeld
  <2>2. CASE k \notin OneChar /\ k \in Symbols
    <3>1. ColumnHeld(k) = Down(Shifts)
      BY <2>2, Zenon DEF ColumnHeld, Shifts
    <3>2. Shifted(k) = shift_status
      BY <2>2, Zenon DEF Shifted
    <3> QED BY <1>1, <1>7, <2>2, <3>1, <3>2, Zenon DEF Down
  <2>3. CASE k \notin OneChar /\ k \notin Symbols
    <3>1. ColumnHeld(k) = (Down(Shifts) # caps)
      BY <2>3, Zenon DEF ColumnHeld, Shifts
    <3>2. Shifted(k) = (shift_status # caps_lock_status)
      BY <2>3, Zenon DEF Shifted
    <3> QED BY <1>1, <1>7, <2>3, <3>1, <3>2, Zenon DEF Down
  <2> QED BY <2>1, <2>2, <2>3, Zenon
<1> QED BY <1>9, <1>10

-----------------------------------------------------------------------------
(* Steps that block and wake no worker keep SInv.                          *)
SlotsKept == ioq'.producer = ioq.producer /\ ioq'.consumer = ioq.consumer

LEMMA KeptThreads ==
    ASSUME SInv, use' = use, lock' = lock, SlotsKept,
           sched' \in SchedState, SchedConsistent(sched'), ~sched'.panic,
           sched'.status[Idle] # "NONE",
           \A t \in Workers : sched'.status[t] = "BLOCKED" <=> sched.status[t] = "BLOCKED",
           pc'[Idle] \in {"block", "sti", "hlt"},
           \A t \in Workers : pc'[t] = pc[t] \/ (pc[t] \in {"out", "loop"} /\ pc'[t] \in {"out", "loop"})
    PROVE  SInv'
<1>1. \A t \in Workers :
        /\ pc'[t] = "asleep" <=> pc[t] = "asleep"
        /\ pc'[t] = "lockq" <=> pc[t] = "lockq"
        /\ pc'[t] \in {"out"} \cup InCall
  BY Zenon DEF SInv, InCall
<1>2. SleeperHoldsLock'
  BY <1>1 DEF SInv, SleeperHoldsLock, SlotsKept
<1> QED BY <1>1, <1>2, SMTT(30) DEF SInv, SlotsKept

(* A worker that runs is not blocked, not asleep in a field of the queue   *)
(* and not in the list of the lock.                                        *)
LEMMA RunningLemma ==
    ASSUME SInv, NEW t \in Workers, sched.cur = t
    PROVE  /\ t \in Threads /\ t # Idle /\ t # NoThread
           /\ sched.status[t] = "RUNNING"
           /\ ~elem_find(lock.waiters, t)
           /\ t # ioq.producer /\ t # ioq.consumer
<1>1. t \in Threads /\ t # Idle /\ t # NoThread
  BY IoQueueAssumption, Zenon DEF Workers
<1>2. sched.status[t] = "RUNNING"
  BY <1>1, Zenon DEF SInv, SchedConsistent
<1> QED BY <1>1, <1>2, Zenon DEF SInv, SleeperHoldsLock

(* Where a worker is, and what the lock and the queue say of it.           *)
LEMMA WhereLemma ==
    ASSUME SInv, NEW u \in Workers
    PROVE  /\ u \in Threads /\ u # NoThread
           /\ lock.holder = u <=> pc[u] = "asleep"
           /\ u \in {ioq.producer, ioq.consumer} <=> pc[u] = "asleep" /\ sched.status[u] = "BLOCKED"
           /\ elem_find(lock.waiters, u) <=> pc[u] = "lockq" /\ sched.status[u] = "BLOCKED"
<1>1. u \in Threads /\ u # NoThread
  BY IoQueueAssumption DEF Workers
<1>2. SleeperHoldsLock /\ (elem_find(lock.waiters, u) <=> pc[u] = "lockq" /\ sched.status[u] = "BLOCKED")
  BY Zenon DEF SInv
<1> QED BY <1>1, <1>2, Zenon DEF SleeperHoldsLock

(* The thread woken through a field of the queue: it still holds the lock. *)
LEMMA WakeSlot ==
    ASSUME SInv, QInv, NEW x \in Workers, sched' = thread_unblock(sched, x), use' = use, lock' = lock,
           \/ ioq.consumer = x /\ ioq'.consumer = NoThread /\ ioq'.producer = ioq.producer
           \/ ioq.producer = x /\ ioq'.producer = NoThread /\ ioq'.consumer = ioq.consumer,
           pc'[Idle] \in {"block", "sti", "hlt"},
           \A t \in Workers : pc'[t] = pc[t] \/ (pc[t] \in {"out", "loop"} /\ pc'[t] \in {"out", "loop"})
    PROVE  SInv'
<1>0. x \in Threads /\ x # Idle /\ NoThread \notin Threads /\ x # NoThread
      /\ Idle \in Threads /\ NoThread \notin Workers /\ \A t \in Workers : t \in Threads
  BY SchedAssumption, IoQueueAssumption, Zenon DEF Workers
<1>1. pc[x] = "asleep" /\ sched.status[x] = "BLOCKED" /\ lock.holder = x
  BY SMTT(30) DEF SInv, SleeperHoldsLock
<1>2. sched \in SchedState /\ SchedConsistent(sched) /\ ~sched.panic /\ sched.status[Idle] # "NONE"
  BY Zenon DEF SInv
<1>3. /\ sched' \in SchedState /\ SchedConsistent(sched') /\ sched'.panic = sched.panic
      /\ sched'.status[x] = "READY"
      /\ \A u \in Threads : u # x => sched'.status[u] = sched.status[u]
  BY <1>0, <1>1, <1>2, WakeLemma, SMTT(30)
<1>4. sched'.status[x] = "READY" /\ \A u \in Threads : u # x => sched'.status[u] = sched.status[u]
  BY <1>3, Zenon
<1>5. SchedConsistent(sched') /\ ~sched'.panic /\ sched'.status[Idle] # "NONE"
  BY <1>0, <1>2, <1>3, Zenon
<1>6. \A t \in Workers :
        /\ pc'[t] = "asleep" <=> pc[t] = "asleep"
        /\ pc'[t] = "lockq" <=> pc[t] = "lockq"
        /\ pc'[t] \in {"out"} \cup InCall
  BY Zenon DEF SInv, InCall
<1>7. \A t \in Workers :
        t \in {ioq'.producer, ioq'.consumer} <=> t # x /\ t \in {ioq.producer, ioq.consumer}
  <2>1. ioq.consumer = x => ioq.producer # x
    BY <1>0, Zenon DEF SInv
  <2> QED BY <1>0, <2>1, SMTT(30) DEF SInv
<1>8. SleeperHoldsLock'
  <2> SUFFICES ASSUME NEW t \in Workers
               PROVE  /\ lock'.holder = t <=> pc'[t] = "asleep"
                      /\ t \in {ioq'.producer, ioq'.consumer} <=>
                             pc'[t] = "asleep" /\ sched'.status[t] = "BLOCKED"
    BY Zenon DEF SleeperHoldsLock
  <2>1. /\ lock.holder = t <=> pc[t] = "asleep"
        /\ t \in {ioq.producer, ioq.consumer} <=>
               pc[t] = "asleep" /\ sched.status[t] = "BLOCKED"
    BY Zenon DEF SInv, SleeperHoldsLock
  <2> QED BY <1>0, <1>4, <1>6, <1>7, <2>1, SMTT(30)
<1>9. \A t \in Workers :
        elem_find(lock'.waiters, t) <=> pc'[t] = "lockq" /\ sched'.status[t] = "BLOCKED"
  BY <1>0, <1>1, <1>4, <1>6, SMTT(30) DEF SInv
<1>10. /\ ioq'.consumer # NoThread => ioq'.consumer \in use'.consumers
       /\ ioq'.producer \notin use'.consumers
  <2>1. NoThread \notin use.consumers
    BY <1>0, IoQueueAssumption, Zenon DEF QInv
  <2> QED BY <2>1, Zenon DEF SInv
<1> QED BY <1>3, <1>5, <1>6, <1>8, <1>9, <1>10, Zenon DEF SInv

(* What thread_block does to the workers when t calls it.                  *)
LEMMA BlockWorker ==
    ASSUME SInv, NEW t \in Workers, sched.cur = t, sched' = thread_block(sched)
    PROVE  /\ sched' \in SchedState /\ SchedConsistent(sched') /\ ~sched'.panic
           /\ sched'.status[Idle] # "NONE"
           /\ sched'.status[t] = "BLOCKED"
           /\ \A u \in Workers \ {t} :
                sched'.status[u] = "BLOCKED" <=> sched.status[u] = "BLOCKED"
<1>1. t \in Threads /\ t # Idle
  BY Zenon DEF Workers
<1>2. sched \in SchedState /\ SchedConsistent(sched) /\ sched.status[Idle] # "NONE"
  BY Zenon DEF SInv
<1>3. Kept(sched, sched', Threads \ {t}) /\ sched'.status[t] = "BLOCKED"
  BY <1>1, <1>2, BlockLemma, Zenon
<1> QED BY <1>3, Zenon DEF Kept, SInv, Workers

(* Waiting for the lock of the queue keeps SInv.                           *)
LEMMA LockWaitStep ==
    ASSUME SInv, QInv, NEW t \in Workers, LockWait(t)
    PROVE  SInv'
<1>1. sched.cur = t /\ pc[t] \in {"loop", "lockq"} /\ UNCHANGED <<use, ioq>>
  BY Zenon DEF LockWait, Locking, At
<1>2. /\ t \in Threads /\ t # Idle /\ t # NoThread /\ sched.status[t] = "RUNNING"
      /\ ~elem_find(lock.waiters, t) /\ t # ioq.producer /\ t # ioq.consumer
  BY <1>1, RunningLemma, Zenon
<1>3. sched' = thread_block(sched)
  BY <1>2, AssertLemma, Zenon DEF LockWait, SInv
<1>4. /\ sched' \in SchedState /\ SchedConsistent(sched') /\ ~sched'.panic
      /\ sched'.status[Idle] # "NONE"
      /\ sched'.status[t] = "BLOCKED"
      /\ \A u \in Workers \ {t} : sched'.status[u] = "BLOCKED" <=> sched.status[u] = "BLOCKED"
  BY <1>1, <1>3, BlockWorker, Zenon
<1>5. /\ pc'[t] = "lockq" /\ \A u \in Threads \ {t} : pc'[u] = pc[u]
  BY <1>2, Zenon DEF LockWait, Goto, QInv
<1>6. /\ lock.waiters \in Seq(Workers) /\ NoDuplicates(lock.waiters)
  BY Zenon DEF SInv
<1> DEFINE l == list_append(lock.waiters, t)
<1>7. /\ lock' = [lock EXCEPT !.waiters = l]
      /\ l \in Seq(Workers) /\ NoDuplicates(l)
      /\ \A x : elem_find(l, x) <=> elem_find(lock.waiters, x) \/ x = t
  <2>1. lock' = [lock EXCEPT !.waiters = l]
    BY Zenon DEF LockWait
  <2>2. /\ l \in Seq(Workers)
        /\ \A x : elem_find(l, x) <=> elem_find(lock.waiters, x) \/ x = t
        /\ NoDuplicates(lock.waiters) /\ ~elem_find(lock.waiters, t) => NoDuplicates(l)
    BY <1>6, AppendLemma, Zenon
  <2> QED BY <1>2, <1>6, <2>1, <2>2, Zenon
<1> HIDE DEF l
<1>8. /\ lock' \in [value : 0..1, waiters : Seq(Workers), holder : Workers \cup {NoThread}]
      /\ lock'.value = lock.value /\ lock'.holder = lock.holder /\ lock'.waiters = l
  BY <1>7, Zenon DEF SInv
<1>9. NoDuplicates(lock'.waiters) /\ \A x : elem_find(lock'.waiters, x) <=> elem_find(lock.waiters, x) \/ x = t
  BY <1>7, <1>8, Zenon
<1>10. \A u \in Workers : u \in Threads /\ (u = t \/ (pc'[u] = pc[u] /\
          (sched'.status[u] = "BLOCKED" <=> sched.status[u] = "BLOCKED")))
  BY <1>4, <1>5, Zenon DEF Workers
<1>11. SleeperHoldsLock'
  <2> SUFFICES ASSUME NEW u \in Workers
               PROVE  /\ lock'.holder = u <=> pc'[u] = "asleep"
                      /\ u \in {ioq'.producer, ioq'.consumer} <=>
                             pc'[u] = "asleep" /\ sched'.status[u] = "BLOCKED"
    BY Zenon DEF SleeperHoldsLock
  <2>1. /\ lock.holder = u <=> pc[u] = "asleep"
        /\ u \in {ioq.producer, ioq.consumer} <=> pc[u] = "asleep" /\ sched.status[u] = "BLOCKED"
    BY WhereLemma, Zenon
  <2>2. ioq' = ioq /\ lock'.holder = lock.holder
    BY <1>1, <1>8, Zenon
  <2>3. CASE u = t
    BY <1>1, <1>2, <1>5, <2>1, <2>2, <2>3, Zenon
  <2>4. CASE u # t
    BY <1>10, <2>1, <2>2, <2>4, Zenon
  <2> QED BY <2>3, <2>4, Zenon
<1>12. pc'[Idle] = pc[Idle]
  BY <1>2, <1>5, SchedAssumption, Zenon
<1>13. \A u \in Workers : pc'[u] \in {"out"} \cup InCall
  BY <1>5, <1>10, Zenon DEF SInv, InCall
<1>14. \A u \in Workers :
         elem_find(lock'.waiters, u) <=> pc'[u] = "lockq" /\ sched'.status[u] = "BLOCKED"
  <2> SUFFICES ASSUME NEW u \in Workers
               PROVE  elem_find(lock'.waiters, u) <=> pc'[u] = "lockq" /\ sched'.status[u] = "BLOCKED"
    BY Zenon
  <2>1. elem_find(lock.waiters, u) <=> pc[u] = "lockq" /\ sched.status[u] = "BLOCKED"
    BY WhereLemma, Zenon
  <2> QED BY <1>4, <1>5, <1>9, <1>10, <2>1, Zenon
<1> QED BY <1>1, <1>4, <1>8, <1>9, <1>11, <1>12, <1>13, <1>14 DEF SInv

(* Taking the lock and going to sleep in ioq_wait keeps SInv.              *)
LEMMA IoqWaitStep ==
    ASSUME SInv, QInv, NEW t \in Workers, ioq_wait(t)
    PROVE  SInv'
<1>1. /\ sched.cur = t /\ pc[t] \in {"loop", "lockq"} /\ use' = use
      /\ lock.value = 1 /\ lock' = [lock EXCEPT !.value = 0, !.holder = t]
      /\ ioq' = [ioq EXCEPT ![Slot(t)] = t]
  BY Zenon DEF ioq_wait, Locking, At
<1>2. /\ t \in Threads /\ t # Idle /\ t # NoThread /\ sched.status[t] = "RUNNING"
      /\ ~elem_find(lock.waiters, t)
  BY <1>1, RunningLemma, Zenon
<1>3. lock.holder = NoThread /\ (\A u \in Workers : pc[u] # "asleep")
      /\ ioq.producer = NoThread /\ ioq.consumer = NoThread
  <2>1. lock.holder = NoThread /\ NoThread \notin Workers
    BY <1>1, IoQueueAssumption, Zenon DEF SInv, Workers
  <2>2. \A u \in Workers : pc[u] # "asleep"
    BY <2>1, SMTT(30) DEF SInv, SleeperHoldsLock
  <2>3. ioq.producer \in Workers \cup {NoThread} /\ ioq.consumer \in Workers \cup {NoThread}
    BY Zenon DEF QInv, Buffer
  <2> QED BY <2>1, <2>2, <2>3, Zenon DEF SInv, SleeperHoldsLock
<1>4. ioq[Slot(t)] = NoThread
  BY <1>3, Zenon DEF Slot
<1>5. sched' = thread_block(sched)
  BY <1>4, AssertLemma, Zenon DEF ioq_wait, SInv
<1>6. /\ sched' \in SchedState /\ SchedConsistent(sched') /\ ~sched'.panic
      /\ sched'.status[Idle] # "NONE"
      /\ sched'.status[t] = "BLOCKED"
      /\ \A u \in Workers \ {t} : sched'.status[u] = "BLOCKED" <=> sched.status[u] = "BLOCKED"
  BY <1>1, <1>5, BlockWorker, Zenon
<1>7. /\ pc'[t] = "asleep" /\ \A u \in Threads \ {t} : pc'[u] = pc[u]
  BY <1>2, Zenon DEF ioq_wait, Goto, QInv
<1>8. /\ lock' \in [value : 0..1, waiters : Seq(Workers), holder : Workers \cup {NoThread}]
      /\ lock'.value = 0 /\ lock'.holder = t /\ lock'.waiters = lock.waiters
  <2>1. lock \in [value : 0..1, waiters : Seq(Workers), holder : Workers \cup {NoThread}]
    BY Zenon DEF SInv
  <2>2. lock' = [lock EXCEPT !.value = 0, !.holder = t]
    BY <1>1, Zenon
  <2>3. lock'.value = 0 /\ lock'.holder = t /\ lock'.waiters = lock.waiters
    BY <2>1, <2>2, Zenon
  <2>4. lock' \in [value : 0..1, waiters : Seq(Workers), holder : Workers \cup {NoThread}]
    <3>1. lock' = [value |-> 0, waiters |-> lock.waiters, holder |-> t]
      BY <2>1, <2>2, Zenon
    <3>2. lock.waiters \in Seq(Workers) /\ t \in Workers \cup {NoThread} /\ 0 \in 0..1
      BY <2>1
    <3> QED BY <3>1, <3>2, Zenon
  <2> QED BY <2>3, <2>4, Zenon
<1>9. /\ t \in use.consumers => ioq'.consumer = t /\ ioq'.producer = NoThread
      /\ t \notin use.consumers => ioq'.producer = t /\ ioq'.consumer = NoThread
  BY <1>1, <1>3, Zenon DEF Slot, QInv, Buffer
<1>10. \A u \in Workers : u \in Threads /\ u # NoThread /\ (u = t \/ (pc'[u] = pc[u] /\
          (sched'.status[u] = "BLOCKED" <=> sched.status[u] = "BLOCKED")))
  BY <1>6, <1>7, IoQueueAssumption, SMTT(30) DEF Workers
<1>11. SleeperHoldsLock'
  BY <1>2, <1>3, <1>6, <1>7, <1>8, <1>9, <1>10, SMTT(30) DEF SleeperHoldsLock
<1>12. pc'[Idle] = pc[Idle]
  BY <1>2, <1>7, SchedAssumption, Zenon
<1>13. \A u \in Workers : pc'[u] \in {"out"} \cup InCall
  BY <1>7, <1>10, Zenon DEF SInv, InCall
<1>14. \A u \in Workers :
         elem_find(lock'.waiters, u) <=> pc'[u] = "lockq" /\ sched'.status[u] = "BLOCKED"
  <2> SUFFICES ASSUME NEW u \in Workers
               PROVE  elem_find(lock'.waiters, u) <=> pc'[u] = "lockq" /\ sched'.status[u] = "BLOCKED"
    OBVIOUS
  <2>1. elem_find(lock.waiters, u) <=> pc[u] = "lockq" /\ sched.status[u] = "BLOCKED"
    BY WhereLemma
  <2>2. lock'.waiters = lock.waiters
    BY <1>8, Zenon
  <2>3. CASE u = t
    BY <1>2, <1>7, <2>2, <2>3, Zenon
  <2>4. CASE u # t
    BY <1>10, <2>1, <2>2, <2>4, Zenon
  <2> QED BY <2>3, <2>4, Zenon
<1>15. /\ ioq'.consumer # NoThread => ioq'.consumer \in use'.consumers
       /\ ioq'.producer \notin use'.consumers
  <2>1. NoThread \notin use.consumers
    BY <1>10, IoQueueAssumption, Zenon DEF QInv
  <2> QED BY <1>1, <1>9, <2>1, Zenon
<1> QED BY <1>2, <1>6, <1>8, <1>11, <1>12, <1>13, <1>14, <1>15 DEF SInv

(* Releasing the lock, with and without a thread that waits for it, keeps  *)
(* SInv.                                                                   *)
LEMMA LockReleaseStep ==
    ASSUME SInv, QInv, NEW t \in Workers, LockRelease(t)
    PROVE  SInv'
<1>1. sched.cur = t /\ pc[t] = "asleep" /\ UNCHANGED <<use, ioq>>
  BY Zenon DEF LockRelease, At
<1>2. /\ t \in Threads /\ t # Idle /\ t # NoThread /\ sched.status[t] = "RUNNING"
      /\ ~elem_find(lock.waiters, t) /\ t # ioq.producer /\ t # ioq.consumer
  BY <1>1, RunningLemma, Zenon
<1>3. lock.holder = t /\ lock.value = 0
      /\ lock \in [value : 0..1, waiters : Seq(Workers), holder : Workers \cup {NoThread}]
  <2>1. lock.holder = t
    BY <1>1, WhereLemma, Zenon
  <2>2. /\ lock \in [value : 0..1, waiters : Seq(Workers), holder : Workers \cup {NoThread}]
        /\ lock.value = 1 <=> lock.holder = NoThread
    BY Zenon DEF SInv
  <2>3. lock.value \in 0..1
    BY <2>2, Zenon
  <2>4. lock.value # 1
    BY <1>2, <2>1, <2>2, Zenon
  <2> QED BY <2>1, <2>2, <2>3, <2>4
<1>4. ASSERT(sched, lock.holder = t /\ lock.value = 0) = sched
  BY <1>3, AssertLemma, Zenon DEF SInv
<1>5. /\ pc'[t] = "loop" /\ \A u \in Threads \ {t} : pc'[u] = pc[u]
  BY <1>2, Zenon DEF LockRelease, Goto, QInv
<1>6. /\ pc'[Idle] = pc[Idle] /\ Idle \in Threads
      /\ \A u \in Workers : pc'[u] \in {"out"} \cup InCall
  BY <1>2, <1>5, SchedAssumption, Zenon DEF SInv, InCall, Workers
<1>7. \A u \in Workers : u \in Threads /\ u # NoThread
  BY IoQueueAssumption, Zenon DEF Workers
<1>8. CASE lock.waiters # <<>>
  <2> DEFINE x == Head(lock.waiters)
  <2>1. /\ sched' = thread_unblock(sched, x)
        /\ lock' = [value |-> 1, waiters |-> Tail(lock.waiters), holder |-> NoThread]
    BY <1>4, <1>8, Zenon DEF LockRelease
  <2>2. /\ x \in Workers /\ elem_find(lock.waiters, x)
        /\ Tail(lock.waiters) \in Seq(Workers) /\ NoDuplicates(Tail(lock.waiters))
        /\ \A u : elem_find(Tail(lock.waiters), u) <=> elem_find(lock.waiters, u) /\ u # x
    <3>1. lock.waiters \in Seq(Workers) /\ NoDuplicates(lock.waiters)
      BY <1>3, Zenon DEF SInv
    <3> QED BY <1>8, <3>1, PopLemma, Zenon
  <2> HIDE DEF x
  <2>3. x \in Threads /\ x # t /\ pc[x] = "lockq" /\ sched.status[x] = "BLOCKED"
    BY <1>2, <1>7, <2>2, Zenon DEF SInv
  <2>4. sched \in SchedState /\ SchedConsistent(sched) /\ ~sched.panic /\ sched.status[Idle] # "NONE"
    BY Zenon DEF SInv
  <2>5. /\ sched' \in SchedState /\ SchedConsistent(sched') /\ sched'.panic = sched.panic
        /\ sched'.status[x] = "READY"
        /\ \A u \in Threads : u # x => sched'.status[u] = sched.status[u]
    BY <2>1, <2>3, <2>4, WakeLemma, SMTT(30)
  <2>6. sched'.status[x] = "READY" /\ \A u \in Threads : u # x => sched'.status[u] = sched.status[u]
    BY <2>5, Zenon
  <2>7. SchedConsistent(sched') /\ ~sched'.panic /\ sched'.status[Idle] # "NONE"
    BY <1>6, <2>3, <2>4, <2>5, <2>6, Zenon
  <2>8. /\ lock' \in [value : 0..1, waiters : Seq(Workers), holder : Workers \cup {NoThread}]
        /\ lock'.value = 1 /\ lock'.holder = NoThread /\ lock'.waiters = Tail(lock.waiters)
    BY <2>1, <2>2
  <2>9. SleeperHoldsLock'
    <3> SUFFICES ASSUME NEW u \in Workers
                 PROVE  /\ pc'[u] # "asleep" /\ lock'.holder # u
                        /\ u \notin {ioq'.producer, ioq'.consumer}
      BY Zenon DEF SleeperHoldsLock
    <3>1. ioq' = ioq /\ u # NoThread /\ u \in Threads
      BY <1>1, <1>7, Zenon
    <3>2. lock'.holder # u
      BY <2>8, <3>1, Zenon
    <3>3. CASE u = t
      BY <1>2, <1>5, <3>1, <3>2, <3>3, Zenon
    <3>4. CASE u # t
      <4>1. pc[u] # "asleep" /\ u \notin {ioq.producer, ioq.consumer}
        BY <1>3, <3>4, WhereLemma, Zenon
      <4> QED BY <1>5, <3>1, <3>2, <3>4, <4>1, Zenon
    <3> QED BY <3>3, <3>4, Zenon
  <2>10. \A u \in Workers :
           elem_find(lock'.waiters, u) <=> pc'[u] = "lockq" /\ sched'.status[u] = "BLOCKED"
    <3> SUFFICES ASSUME NEW u \in Workers
                 PROVE  elem_find(lock'.waiters, u) <=> pc'[u] = "lockq" /\ sched'.status[u] = "BLOCKED"
      OBVIOUS
    <3>1. elem_find(lock.waiters, u) <=> pc[u] = "lockq" /\ sched.status[u] = "BLOCKED"
      BY WhereLemma
    <3>2. elem_find(lock'.waiters, u) <=> elem_find(lock.waiters, u) /\ u # x
      BY <2>2, <2>8, Zenon
    <3>3. u \in Threads
      BY <1>7, Zenon
    <3>4. CASE u = x
      BY <2>6, <3>2, <3>4, Zenon
    <3>5. CASE u = t
      BY <1>2, <1>5, <3>2, <3>5, Zenon
    <3>6. CASE u # x /\ u # t
      BY <1>5, <2>6, <3>1, <3>2, <3>3, <3>6, Zenon
    <3> QED BY <3>4, <3>5, <3>6, Zenon
  <2>11. NoDuplicates(lock'.waiters)
    BY <2>2, <2>8, Zenon
  <2> QED BY <1>1, <1>6, <2>5, <2>7, <2>8, <2>9, <2>10, <2>11, Zenon DEF SInv
<1>9. CASE lock.waiters = <<>>
  <2>1. sched' = sched /\ lock' = [lock EXCEPT !.value = 1, !.holder = NoThread]
    BY <1>4, <1>9, Zenon DEF LockRelease
  <2>2. /\ lock'.value = 1 /\ lock'.holder = NoThread /\ lock'.waiters = lock.waiters
        /\ lock' = [value |-> 1, waiters |-> lock.waiters, holder |-> NoThread]
    BY <1>3, <2>1, Zenon
  <2>3. lock' \in [value : 0..1, waiters : Seq(Workers), holder : Workers \cup {NoThread}]
    <3>1. lock.waiters \in Seq(Workers) /\ 1 \in 0..1
      BY <1>3
    <3>2. lock' = [value |-> 1, waiters |-> lock.waiters, holder |-> NoThread]
      BY <2>2, Zenon
    <3> QED BY <3>1, <3>2, Zenon
  <2>4. SleeperHoldsLock'
    <3> SUFFICES ASSUME NEW u \in Workers
                 PROVE  /\ pc'[u] # "asleep" /\ lock'.holder # u
                        /\ u \notin {ioq'.producer, ioq'.consumer}
      BY DEF SleeperHoldsLock
    <3>1. ioq' = ioq /\ u # NoThread /\ u \in Threads
      BY <1>1, <1>7
    <3>2. lock'.holder # u
      BY <2>2, <3>1, Zenon
    <3>3. CASE u = t
      BY <1>2, <1>5, <3>1, <3>2, <3>3
    <3>4. CASE u # t
      <4>1. pc[u] # "asleep" /\ u \notin {ioq.producer, ioq.consumer}
        BY <1>3, <3>4, WhereLemma
      <4> QED BY <1>5, <3>1, <3>2, <3>4, <4>1
    <3> QED BY <3>3, <3>4
  <2>5. \A u \in Workers :
           elem_find(lock'.waiters, u) <=> pc'[u] = "lockq" /\ sched'.status[u] = "BLOCKED"
    <3> SUFFICES ASSUME NEW u \in Workers
                 PROVE  elem_find(lock'.waiters, u) <=> pc'[u] = "lockq" /\ sched'.status[u] = "BLOCKED"
      OBVIOUS
    <3>1. /\ elem_find(lock.waiters, u) <=> pc[u] = "lockq" /\ sched.status[u] = "BLOCKED"
          /\ u \in Threads
      BY WhereLemma, Zenon
    <3>2. lock'.waiters = lock.waiters /\ sched' = sched
      BY <2>1, <2>2, Zenon
    <3>3. CASE u = t
      BY <1>2, <1>5, <3>2, <3>3, Zenon
    <3>4. CASE u # t
      BY <1>5, <3>1, <3>2, <3>4, Zenon
    <3> QED BY <3>3, <3>4
  <2> QED BY <1>1, <1>6, <2>1, <2>2, <2>3, <2>4, <2>5, Zenon DEF SInv
<1> QED BY <1>8, <1>9, Zenon

(* A step that leaves the scheduler alone and blocks nobody.               *)
LEMMA StillLemma ==
    ASSUME SInv, QInv, sched' = sched, use' = use, lock' = lock, SlotsKept,
           pc'[Idle] \in {"block", "sti", "hlt"},
           \A t \in Workers : pc'[t] = pc[t] \/ (pc[t] \in {"out", "loop"} /\ pc'[t] \in {"out", "loop"})
    PROVE  SInv'
BY KeptThreads, Zenon DEF SInv

LEMMA WokenLemma ==
    ASSUME SInv, QInv, use' = use, lock' = lock, NEW slot \in {"producer", "consumer"},
           sched' = Woken(sched, ioq, slot),
           \/ slot = "consumer" /\ \E c \in Bytes : ~ioq_full(ioq) /\ ioq' = Stored(ioq, c)
           \/ slot = "producer" /\ ioq' = Taken(ioq),
           pc'[Idle] \in {"block", "sti", "hlt"},
           \A t \in Workers : pc'[t] = pc[t] \/ (pc[t] \in {"out", "loop"} /\ pc'[t] \in {"out", "loop"})
    PROVE  SInv'
<1>1. ioq \in Buffer
  BY Zenon DEF QInv
<1>2. \/ slot = "consumer" /\ ioq'.consumer = NoThread /\ ioq'.producer = ioq.producer
      \/ slot = "producer" /\ ioq'.producer = NoThread /\ ioq'.consumer = ioq.consumer
  BY <1>1, Zenon DEF Stored, Taken, Buffer
<1>3. CASE ioq[slot] = NoThread
  <2>1. sched' = sched /\ SlotsKept
    BY <1>2, <1>3, Zenon DEF Woken, SlotsKept
  <2> QED BY <2>1, StillLemma, Zenon
<1>4. CASE ioq[slot] # NoThread
  <2>1. ioq[slot] \in Workers /\ sched' = thread_unblock(sched, ioq[slot])
    BY <1>1, <1>4, Zenon DEF Woken, Buffer
  <2>2. \/ ioq.consumer = ioq[slot] /\ ioq'.consumer = NoThread /\ ioq'.producer = ioq.producer
        \/ ioq.producer = ioq[slot] /\ ioq'.producer = NoThread /\ ioq'.consumer = ioq.consumer
    BY <1>2, Zenon
  <2> QED BY <2>1, <2>2, WakeSlot, Zenon
<1> QED BY <1>3, <1>4, Zenon

(* An interrupt moves the idle thread only, out of hlt.                    *)
LEMMA ResumeIdle ==
    ASSUME SInv, QInv, Resume
    PROVE  pc'[Idle] \in {"block", "sti", "hlt"} /\ \A t \in Workers : pc'[t] = pc[t]
<1>1. /\ sched.cur \in Threads /\ Idle \in Threads /\ pc[Idle] \in {"block", "sti", "hlt"}
      /\ pc \in [Threads -> {"out", "loop", "lockq", "asleep", "block", "sti", "hlt"}]
      /\ \A t \in Workers : pc[t] # "hlt"
      /\ \A t \in Threads : t \in Workers \/ t = Idle
      /\ \A t \in Workers : t \in Threads /\ t # Idle
  BY SchedAssumption, Zenon DEF SInv, QInv, SchedState, InCall, Workers
<1>2. CASE pc[sched.cur] = "hlt"
  BY <1>1, <1>2, Zenon DEF Resume
<1>3. CASE pc[sched.cur] # "hlt"
  BY <1>1, <1>3, Zenon DEF Resume
<1> QED BY <1>2, <1>3, Zenon

(* Every step keeps SInv.                                                  *)
LEMMA ThreadsStep ==
    ASSUME SInv, QInv, KeysSent, [Next]_vars
    PROVE  SInv'
<1>0. /\ sched \in SchedState /\ SchedConsistent(sched) /\ sched.status[Idle] # "NONE"
      /\ ~sched.panic /\ Idle \in Threads /\ pc[Idle] \in {"block", "sti", "hlt"}
      /\ pc \in [Threads -> {"out", "loop", "lockq", "asleep", "block", "sti", "hlt"}]
      /\ \A t \in Workers : t \in Threads /\ t # Idle
  BY SchedAssumption, Zenon DEF SInv, QInv, Workers
<1>1. ASSUME NEW t \in Workers, Call(t) PROVE SInv'
  <2>1. /\ pc[t] = "out" /\ pc' = [pc EXCEPT ![t] = "loop"] /\ UNCHANGED <<use, sched, lock, ioq>>
    BY <1>1, Zenon DEF Call, At, Goto
  <2>2. pc'[Idle] = pc[Idle] /\ pc'[t] = "loop" /\ \A u \in Workers : u # t => pc'[u] = pc[u]
    BY <1>0, <2>1, Zenon
  <2>3. SlotsKept
    BY <2>1, Zenon DEF SlotsKept
  <2> QED BY <1>0, <2>1, <2>2, <2>3, StillLemma, Zenon
<1>2. ASSUME NEW t \in Workers, ioq_getchar(t) PROVE SInv'
  <2>1. /\ pc[t] = "loop" /\ pc' = [pc EXCEPT ![t] = "out"] /\ UNCHANGED <<use, lock>>
        /\ sched' = Woken(sched, ioq, "producer") /\ ioq' = Taken(ioq)
    BY <1>2, Zenon DEF ioq_getchar, At, Goto
  <2>2. pc'[Idle] = pc[Idle] /\ pc'[t] = "out" /\ \A u \in Workers : u # t => pc'[u] = pc[u]
    BY <1>0, <2>1, Zenon
  <2> QED BY <1>0, <2>1, <2>2, WokenLemma, Zenon
<1>3. ASSUME NEW t \in Workers, ioq_putchar(t) PROVE SInv'
  <2>1. /\ pc[t] = "loop" /\ pc' = [pc EXCEPT ![t] = "out"] /\ UNCHANGED <<use, lock>>
        /\ sched' = Woken(sched, ioq, "consumer")
        /\ ~ioq_full(ioq) /\ ioq' = Stored(ioq, arg[t])
    BY <1>3, Zenon DEF ioq_putchar, At, Goto
  <2>2. pc'[Idle] = pc[Idle] /\ pc'[t] = "out" /\ \A u \in Workers : u # t => pc'[u] = pc[u]
    BY <1>0, <2>1, Zenon
  <2>3. arg[t] \in Bytes
    BY <1>0, Zenon DEF QInv
  <2> QED BY <1>0, <2>1, <2>2, <2>3, WokenLemma, Zenon
<1>4. CASE intr_keyboard_handler
  <2>1. Resume /\ UNCHANGED <<use, lock>>
    BY <1>4, Zenon DEF intr_keyboard_handler
  <2>2. pc'[Idle] \in {"block", "sti", "hlt"} /\ \A t \in Workers : pc'[t] = pc[t]
    BY <2>1, ResumeIdle, Zenon
  <2>3. CASE UNCHANGED <<sched, ioq>>
    BY <2>1, <2>2, <2>3, StillLemma, Zenon DEF SlotsKept
  <2>4. CASE Char /\ ~ioq_full(ioq) /\ ioq' = Stored(ioq, cur_char) /\ sched' = Woken(sched, ioq, "consumer")
    <3>1. cur_char \in Bytes
      BY <2>4, CurCharLemma, Zenon DEF Bytes
    <3> QED BY <2>1, <2>2, <2>4, <3>1, WokenLemma, Zenon
  <2> QED BY <1>4, <2>3, <2>4, Zenon DEF intr_keyboard_handler, PutChar
<1>5. CASE Timer
  <2>1. Resume /\ UNCHANGED <<use, lock, ioq>> /\ sched' = intr_timer_handler(sched)
    BY <1>5, Zenon DEF Timer
  <2>2. pc'[Idle] \in {"block", "sti", "hlt"} /\ \A t \in Workers : pc'[t] = pc[t]
    BY <2>1, ResumeIdle, Zenon
  <2>3. Kept(sched, sched', Threads)
    BY <1>0, <2>1, TimerLemma, Zenon
  <2> QED BY <1>0, <2>1, <2>2, <2>3, KeptThreads, Zenon DEF Kept, SlotsKept, Workers
<1>6. CASE IdleBlock
  <2>1. /\ sched.cur = Idle /\ UNCHANGED <<use, lock, ioq>> /\ sched' = thread_block(sched)
        /\ pc' = [pc EXCEPT ![Idle] = "sti"]
    BY <1>6, Zenon DEF IdleBlock, At, Goto
  <2>2. pc'[Idle] = "sti" /\ \A t \in Workers : pc'[t] = pc[t]
    BY <1>0, <2>1, Zenon
  <2>3. Kept(sched, sched', Threads \ {Idle})
    BY <1>0, <2>1, BlockLemma, Zenon
  <2> QED BY <1>0, <2>1, <2>2, <2>3, KeptThreads, Zenon DEF Kept, SlotsKept, Workers
<1>7. CASE IdleHalt
  <2>1. UNCHANGED <<use, lock, ioq, sched>> /\ pc' = [pc EXCEPT ![Idle] = "hlt"]
    BY <1>7, Zenon DEF IdleHalt, Goto
  <2>2. pc'[Idle] = "hlt" /\ \A t \in Workers : pc'[t] = pc[t]
    BY <1>0, <2>1, Zenon
  <2> QED BY <2>1, <2>2, StillLemma, Zenon DEF SlotsKept
<1>8. CASE Type \/ UNCHANGED vars
  <2>1. UNCHANGED <<use, lock, ioq, sched, pc>>
    BY <1>8, Zenon DEF Type, vars
  <2> QED BY <1>0, <2>1, StillLemma, Zenon DEF SlotsKept
<1> QED BY <1>1, <1>2, <1>3, <1>4, <1>5, <1>6, <1>7, <1>8, LockWaitStep, IoqWaitStep,
           LockReleaseStep, SMTT(30) DEF Next, Continue

(* After boot the ready list holds idle and the threads main has started.  *)
LEMMA ThreadsInit == Init => SInv /\ ReaderInv
<1> SUFFICES ASSUME Init PROVE SInv /\ ReaderInv
  BY Zenon
<1>1. /\ use.boot \in Seq(Workers \ {Main}) /\ NoDuplicates(use.boot)
      /\ use.consumers \subseteq Workers /\ NoThread \notin Workers
      /\ Main \in Threads /\ Idle \in Threads /\ Main # Idle
      /\ Priority \in [Threads -> 0..255]
  BY SchedAssumption, IoQueueAssumption, SMTT(30) DEF Init, Workers
<1>2. /\ sched.cur = Main /\ sched.ready = list_push(use.boot, Idle) /\ sched.ticks = Priority
      /\ sched.panic = FALSE
      /\ sched.status = [t \in Threads |-> IF elem_find(use.boot, t) THEN "READY"
                                           ELSE IF t = Main THEN "RUNNING"
                                           ELSE IF t = Idle THEN "READY" ELSE "NONE"]
      /\ sched = [cur |-> sched.cur, ready |-> sched.ready, status |-> sched.status,
                  ticks |-> sched.ticks, panic |-> sched.panic]
  BY Zenon DEF Init, thread_init, list_push
<1>3. ~elem_find(use.boot, Main) /\ ~elem_find(use.boot, Idle)
  BY <1>1 DEF elem_find, Workers
<1>4. use.boot \in Seq(Threads)
  <2>1. Workers \ {Main} \subseteq Threads
    BY Zenon DEF Workers
  <2> QED BY <1>1, <2>1
<1>5. /\ sched.ready \in Seq(Threads) /\ NoDuplicates(sched.ready)
      /\ \A t : elem_find(sched.ready, t) <=> elem_find(use.boot, t) \/ t = Idle
  <2> DEFINE l == list_push(use.boot, Idle)
  <2>1. /\ l \in Seq(Threads)
        /\ \A t : elem_find(l, t) <=> elem_find(use.boot, t) \/ t = Idle
        /\ NoDuplicates(use.boot) /\ ~elem_find(use.boot, Idle) => NoDuplicates(l)
    <3>1. Idle \in Threads
      BY <1>1, Zenon
    <3> QED BY <1>4, <3>1, PushLemma, Zenon
  <2>2. sched.ready = l
    BY <1>2, Zenon
  <2> HIDE DEF l
  <2> QED BY <1>1, <1>3, <2>1, <2>2, Zenon
<1>6. sched.status \in [Threads -> Status]
  BY <1>2, Zenon DEF Status
<1>7. sched \in SchedState
  BY <1>1, <1>2, <1>5, <1>6, Zenon DEF SchedState
<1>8. SchedConsistent(sched) /\ sched.status[Idle] # "NONE" /\ ~sched.panic
  BY <1>1, <1>2, <1>3, <1>5 DEF SchedConsistent
<1>9. /\ lock = [value |-> 1, waiters |-> <<>>, holder |-> NoThread]
      /\ ioq.producer = NoThread /\ ioq.consumer = NoThread
      /\ pc[Idle] = "block" /\ \A t \in Workers : pc[t] = "out"
  BY <1>1, Zenon DEF Init, Workers
<1>10. /\ lock \in [value : 0..1, waiters : Seq(Workers), holder : Workers \cup {NoThread}]
       /\ lock.value = 1 /\ lock.holder = NoThread /\ lock.waiters = <<>>
  BY <1>9
<1>11. NoDuplicates(lock.waiters) /\ \A t : ~elem_find(lock.waiters, t)
  BY <1>10, SMTT(30) DEF NoDuplicates, elem_find
<1>12. SleeperHoldsLock
  BY <1>1, <1>9, <1>10, SMTT(30) DEF SleeperHoldsLock
<1>13. SInv
  BY <1>1, <1>7, <1>8, <1>9, <1>10, <1>11, <1>12, Zenon DEF SInv, InCall
<1>14. ReaderInv
  BY <1>1, <1>9, Zenon DEF ReaderInv, InCall
<1> QED BY <1>13, <1>14, Zenon

(* The only reader of the keyboard finds the lock free, and waits only on  *)
(* an empty queue.                                                         *)
LEMMA ReaderStep ==
    ASSUME SInv, QInv, ReaderInv, [Next]_vars
    PROVE  ReaderInv'
<1>0. /\ use' = use /\ NoThread \notin Workers /\ Idle \notin Workers
      /\ pc \in [Threads -> {"out", "loop", "lockq", "asleep", "block", "sti", "hlt"}]
      /\ \A t \in Workers : t \in Threads
      /\ ioq \in Buffer
  BY IoQueueAssumption, Zenon DEF QInv, Workers, Next, Call, Continue, LockWait, ioq_wait, LockRelease,
     ioq_getchar, ioq_putchar, IdleBlock, IdleHalt, Timer, intr_keyboard_handler, Type, vars
<1>1. CASE /\ UNCHANGED ioq \/ \E c : ioq' = Stored(ioq, c)
           /\ \A t \in Workers : pc'[t] = pc[t]
  <2>1. ioq' = ioq \/ ioq'.consumer = NoThread
    BY <1>0, <1>1, Zenon DEF Stored, Buffer
  <2> QED BY <1>0, <1>1, <2>1, Zenon DEF ReaderInv
<1>2. ASSUME NEW u \in Workers, Call(u) \/ LockRelease(u) PROVE ReaderInv'
  <2>1. /\ ioq' = ioq /\ pc' = [pc EXCEPT ![u] = "loop"]
        /\ u \in use.consumers \cup use.producers
    BY <1>2, Zenon DEF Call, LockRelease, Goto, At, ReaderInv, InCall
  <2>2. pc'[u] = "loop" /\ \A t \in Workers : t # u => pc'[t] = pc[t]
    BY <1>0, <2>1, Zenon
  <2> QED BY <1>0, <2>1, <2>2, Zenon DEF ReaderInv
<1>3. ASSUME NEW u \in Workers, LockWait(u) PROVE ReaderInv'
  <2>1. /\ ioq' = ioq /\ pc' = [pc EXCEPT ![u] = "lockq"] /\ pc[u] \in {"loop", "lockq"}
        /\ lock.value = 0
    BY <1>3, Zenon DEF LockWait, Locking, Goto, At
  <2>2. pc'[u] = "lockq" /\ \A t \in Workers : t # u => pc'[t] = pc[t]
    BY <1>0, <2>1, Zenon
  <2>3. lock.holder \in Workers /\ pc[lock.holder] = "asleep"
    BY <2>1, SMTT(30) DEF SInv, SleeperHoldsLock
  <2>4. u \in use.consumers \cup use.producers /\ lock.holder \in use.consumers \cup use.producers
        /\ u # lock.holder
    BY <2>1, <2>3, Zenon DEF ReaderInv, InCall
  <2> QED BY <1>0, <2>1, <2>2, <2>4 DEF ReaderInv
<1>4. ASSUME NEW u \in Workers, ioq_wait(u) PROVE ReaderInv'
  <2>1. /\ pc' = [pc EXCEPT ![u] = "asleep"]
        /\ pc[u] = "lockq" \/ (pc[u] = "loop" /\ MustWait(u))
        /\ ioq' = [ioq EXCEPT ![Slot(u)] = u]
    BY <1>4, Zenon DEF ioq_wait, Locking, Goto, At
  <2>2. pc'[u] = "asleep" /\ \A t \in Workers : t # u => pc'[t] = pc[t]
    BY <1>0, <2>1, Zenon
  <2>3. u \in use.consumers \cup use.producers
    BY <2>1, Zenon DEF ReaderInv, InCall
  <2>4. ioq'.head = ioq.head /\ ioq'.tail = ioq.tail
    BY <1>0, <2>1, Zenon DEF Slot, Buffer
  <2>5. ASSUME NEW t \in Workers, use.consumers = {t}, use.producers = {}
        PROVE  pc'[t] # "lockq" /\ ioq_empty(ioq')
    <3>1. u = t /\ pc[u] # "lockq"
      BY <2>3, <2>5, Zenon DEF ReaderInv
    <3>2. ioq_empty(ioq)
      BY <2>1, <2>5, <3>1, Zenon DEF MustWait
    <3> QED BY <2>2, <2>4, <3>1, <3>2, Zenon DEF ioq_empty
  <2> QED BY <1>0, <2>2, <2>3, <2>5, Zenon DEF ReaderInv
<1>5. ASSUME NEW u \in Workers, ioq_getchar(u) \/ ioq_putchar(u) PROVE ReaderInv'
  <2>1. /\ pc' = [pc EXCEPT ![u] = "out"] /\ sched.cur = u
        /\ \/ u \in use.consumers /\ ioq' = Taken(ioq)
           \/ u \in use.producers
    BY <1>5, Zenon DEF ioq_getchar, ioq_putchar, Goto, At
  <2>2. pc'[u] = "out" /\ \A t \in Workers : t # u => pc'[t] = pc[t]
    BY <1>0, <2>1, Zenon
  <2>3. u # ioq.consumer
    BY <2>1, RunningLemma, Zenon
  <2>4. Taken(ioq).consumer = ioq.consumer
    BY <1>0, Zenon DEF Taken, Buffer
  <2>5. ASSUME NEW t \in Workers, use.consumers = {t}, use.producers = {}
        PROVE  pc'[t] # "lockq" /\ ioq'.consumer # t
    BY <2>1, <2>2, <2>3, <2>4, <2>5, Zenon
  <2> QED BY <1>0, <2>2, <2>5, Zenon DEF ReaderInv, InCall
<1>6. CASE intr_keyboard_handler \/ Timer
  <2>1. \A t \in Workers : pc'[t] = pc[t]
    BY <1>6, ResumeIdle, Zenon DEF intr_keyboard_handler, Timer
  <2> QED BY <1>1, <1>6, <2>1, Zenon DEF intr_keyboard_handler, Timer, PutChar
<1>7. CASE IdleBlock \/ IdleHalt \/ Type \/ UNCHANGED vars
  <2>1. UNCHANGED ioq /\ \A t \in Workers : pc'[t] = pc[t]
    BY <1>0, <1>7, Zenon DEF IdleBlock, IdleHalt, Type, vars, Goto
  <2> QED BY <1>1, <2>1, Zenon
<1> QED BY <1>2, <1>3, <1>4, <1>5, <1>6, <1>7, Zenon DEF Next, Continue

LEMMA OutStep == QInv /\ out \in Bytes /\ [Next]_vars => out' \in Bytes
<1> SUFFICES ASSUME QInv, out \in Bytes, [Next]_vars PROVE out' \in Bytes
  BY Zenon
<1>1. ioq.buf[ioq.tail] \in Bytes
  BY Zenon DEF QInv, Buffer
<1>2. out' = out \/ out' = ioq.buf[ioq.tail]
  BY Zenon DEF Next, Call, Continue, LockWait, ioq_wait, LockRelease, ioq_getchar, ioq_putchar,
     IdleBlock, IdleHalt, Timer, intr_keyboard_handler, Type, vars
<1> QED BY <1>1, <1>2, Zenon

-----------------------------------------------------------------------------
(* The invariant of the queue, its threads and its keyboard.               *)
QueueInv == QInv /\ KeysSent /\ out \in Bytes /\ SInv /\ ReaderInv /\ KInv

(* Every step of ioq_getchar, ioq_putchar, the two handlers and the        *)
(* scheduler keeps the invariant that the theorems below follow from.      *)
THEOREM QueueInvariance == Spec => []QueueInv
<1>1. Init => QueueInv
  BY QueueInit, ThreadsInit, KeyboardInitLemma DEF Init, QueueInv, Bytes, KeyboardInit, KeysSent
<1>2. QueueInv /\ [Next]_vars => QueueInv'
  BY QueueStep, SentLemma, OutStep, ThreadsStep, ReaderStep, KeyboardInvStep, Zenon DEF QueueInv
<1> QED BY <1>1, <1>2, PTL DEF Spec

(* No ASSERT of ioqueue.c fails, its lock is held by the thread that       *)
(* sleeps and no other, a field names a thread exactly while it sleeps,    *)
(* and no flag of the keyboard outlasts its keys: for any threads, any     *)
(* bufsize, any use of the queue and any keys.                             *)
THEOREM QueueIsSound == Spec => []QueueSound
<1>1. QueueInv => QueueSound
  <2> SUFFICES ASSUME QueueInv PROVE QueueSound
    BY Zenon
  <2>1. TypeOK
    BY Zenon DEF QueueInv, QInv, SInv, KInv, Buffer, Positions, Bytes, TypeOK
  <2>2. NoPanic /\ SleeperHoldsLock
    BY Zenon DEF QueueInv, SInv, NoPanic
  <2>3. NoStuckModifier
    BY NoStuckLemma, Zenon DEF QueueInv
  <2> QED BY <2>1, <2>2, <2>3, Zenon DEF QueueSound
<1> QED BY <1>1, QueueInvariance, PTL

(* The one reader of the keyboard sleeps in ioq_getchar only while the     *)
(* queue is empty, whenever the keys are struck.                           *)
THEOREM ReaderSleepsOnEmpty == Spec => []ConsumerSleepsOnEmpty
<1>1. QueueInv => ConsumerSleepsOnEmpty
  BY Zenon DEF QueueInv, ReaderInv, ConsumerSleepsOnEmpty
<1> QED BY <1>1, QueueInvariance, PTL

(* intr_keyboard_handler stores the character that the keys held ask for,  *)
(* however presses and releases are interleaved with its interrupts.       *)
THEOREM TypedIsHeld == Spec => TypedAsHeld
<1> DEFINE Typing ==
      /\ ioq'.head # ioq.head /\ use.producers = {}
      /\ ~({shift_l_make, shift_r_make} \subseteq use.keys)
      => LET c == ioq'.buf[ioq.head] IN c.shift = ColumnHeld(c.key)
<1>1. QueueInv /\ [Next]_vars => [Typing]_vars
  <2> SUFFICES ASSUME QueueInv, Next, ioq'.head # ioq.head, use.producers = {},
                      ~({shift_l_make, shift_r_make} \subseteq use.keys)
               PROVE  ioq'.buf[ioq.head].shift = ColumnHeld(ioq'.buf[ioq.head].key)
    BY Zenon DEF vars
  <2>1. ioq \in Buffer /\ use \in Uses /\ KInv
    BY Zenon DEF QueueInv, QInv
  <2>2. ~ \E t \in Workers : Call(t) \/ Continue(t)
    <3> SUFFICES ASSUME NEW t \in Workers, Call(t) \/ Continue(t) PROVE ioq'.head = ioq.head
      BY Zenon
    <3>1. CASE ioq_wait(t)
      BY <2>1, <3>1, Zenon DEF ioq_wait, Slot, Buffer
    <3>2. CASE ioq_getchar(t)
      BY <2>1, <3>2, Zenon DEF ioq_getchar, Taken, Buffer
    <3>3. CASE ioq_putchar(t)
      BY <3>3, Zenon DEF ioq_putchar
    <3> QED BY <3>1, <3>2, <3>3, Zenon DEF Call, Continue, LockWait, LockRelease
  <2>3. intr_keyboard_handler
    BY <2>2, Zenon DEF Next, IdleBlock, IdleHalt, Timer, Type
  <2>4. Char /\ ioq' = Stored(ioq, cur_char)
    BY <2>3, Zenon DEF intr_keyboard_handler, PutChar
  <2>5. ioq'.buf[ioq.head] = cur_char
    BY <2>1, <2>4, Zenon DEF Stored, Buffer
  <2>6. cur_char.shift = ColumnHeld(cur_char.key)
    BY <2>1, <2>4, CharLemma, Zenon DEF Shifts
  <2> QED BY <2>5, <2>6, Zenon
<1> QED BY <1>1, QueueInvariance, PTL DEF Spec, TypedAsHeld
=============================================================================
