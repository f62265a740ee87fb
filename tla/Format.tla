------------------------------- MODULE Format -------------------------------
(***************************************************************************)
(* The conversions of numbers and formats to text: put_int of print.S and  *)
(* i_to_a and vsprintf of lib/stdio.c.  A string is a sequence of ASCII    *)
(* codes without its final zero.                                           *)
(***************************************************************************)
EXTENDS Integers, Sequences

CONSTANT Nibbles    \* hexadecimal digits of a word, 8 in the code

ASSUME FormatAssumption == Nibbles \in Nat \ {0}

Word == 16 ^ Nibbles

Percent == 37

Ascii(m) == IF m < 10 THEN m + 48 ELSE m - 10 + 65

(* The digits go to a buffer of Nibbles characters, and are printed from   *)
(* the first that is not '0', or else the last.                            *)
put_int(num) ==
    LET buffer == [i \in 0..Nibbles - 1 |-> (num \div 16 ^ (Nibbles - 1 - i)) % 16]
        edi    == CHOOSE i \in DOMAIN buffer :
                    /\ buffer[i] # 0 \/ i = Nibbles - 1
                    /\ \A j \in 0..i - 1 : buffer[j] = 0
    IN [k \in 1..Nibbles - edi |-> Ascii(buffer[edi + k - 1])]

i_to_a[value \in Nat, base \in {10, 16}] ==
    (IF value \div base # 0 THEN i_to_a[value \div base, base] ELSE <<>>)
        \o <<Ascii(value % base)>>

(* Mutant: the sign of a negative number is not removed.                   *)
decimal_signed(arg_int) == (IF arg_int < 0 THEN <<45>> ELSE <<>>) \o i_to_a[arg_int % Word, 10]

(* %d: the negation is in 32 bits, and i_to_a takes the result unsigned.   *)
decimal(arg_int) ==
    IF arg_int < 0 THEN <<45>> \o i_to_a[(0 - arg_int) % Word, 10] ELSE i_to_a[arg_int, 10]

(* The text of a format and its arguments.  The switch has no default: an  *)
(* unknown character after '%' is taken as the next one of the format.     *)
vsprintf(format, args) ==
    LET text[i \in 1..Len(format) + 1, a \in 1..Len(args) + 1] ==
          IF i > Len(format) THEN <<>>
          ELSE IF format[i] # Percent THEN <<format[i]>> \o text[i + 1, a]
          ELSE LET c == IF i < Len(format) THEN format[i + 1] ELSE 0 IN
               CASE c = 115 -> args[a] \o text[i + 2, a + 1]
                 [] c = 99  -> <<args[a]>> \o text[i + 2, a + 1]
                 [] c = 100 -> decimal(args[a]) \o text[i + 2, a + 1]
                 [] c = 120 -> i_to_a[args[a] % Word, 16] \o text[i + 2, a + 1]
                 [] OTHER   -> text[i + 1, a]
    IN text[1, 1]

-----------------------------------------------------------------------------
(* What a number looks like, for comparison: one digit for each power of   *)
(* the base up to the largest that is not above it.                        *)
Numeral(n, base) ==
    LET len == CHOOSE k \in 1..4 * Nibbles :
                 n < base ^ k /\ (k = 1 \/ base ^ (k - 1) <= n)
    IN [i \in 1..len |-> Ascii((n \div base ^ (len - i)) % base)]

(* A format as its author means it: a sequence of pieces, each a           *)
(* conversion of an argument, or a character that stands for itself.       *)
Specifier(p) == IF p.kind = 0 THEN <<p.arg>> ELSE <<Percent, p.kind>>

Meaning(p) ==
    CASE p.kind \in {0, 99} -> <<p.arg>>
      [] p.kind = 115 -> p.arg
      [] p.kind = 100 -> IF p.arg < 0 THEN <<45>> \o Numeral(-p.arg, 10) ELSE Numeral(p.arg, 10)
      [] p.kind = 120 -> Numeral(IF p.arg < 0 THEN Word + p.arg ELSE p.arg, 16)

Joined(strings) ==
    LET first[i \in 0..Len(strings)] == IF i = 0 THEN <<>> ELSE first[i - 1] \o strings[i]
    IN first[Len(strings)]

=============================================================================
