------------------------------- MODULE Screen -------------------------------
(***************************************************************************)
(* lib/kernel/print.S: the text screen, as a record of its cells and the   *)
(* cursor that the video controller keeps.  A character is its ASCII code. *)
(***************************************************************************)
EXTENDS Naturals, Sequences

CONSTANTS
    Width,      \* 80
    Height      \* 25

ASSUME ScreenAssumption == Width \in Nat \ {0} /\ Height \in Nat \ {0}

BS == 8
LF == 10
CR == 13
Space == 32

Size == Width * Height

Cells == 0..Size - 1

(* The rows move up by one, and the last one is cleared.                   *)
roll_screen(s) ==
    [cells  |-> [i \in Cells |-> IF i < Size - Width THEN s.cells[i + Width] ELSE Space],
     cursor |-> Size - Width]

(* Mutant: the cursor goes to the next row where it is.                    *)
line_feed_straight(s) ==
    IF s.cursor + Width < Size THEN [s EXCEPT !.cursor = @ + Width] ELSE roll_screen(s)

(* Line feed and carriage return both go to the head of the next row.      *)
line_feed(s) ==
    LET bx == s.cursor - (s.cursor % Width) + Width IN
    IF bx < Size THEN [s EXCEPT !.cursor = bx] ELSE roll_screen(s)

(* Backspace clears the cell before the cursor; in cell 0 it would leave   *)
(* the segment of the video memory, and no caller prints it there.         *)
backspace(s) == [cells |-> [s.cells EXCEPT ![s.cursor - 1] = Space], cursor |-> s.cursor - 1]

(* Any other character; past the last cell the code falls into line feed.  *)
put_other(s, c) ==
    LET w == [cells |-> [s.cells EXCEPT ![s.cursor] = c], cursor |-> s.cursor + 1] IN
    IF w.cursor < Size THEN w ELSE line_feed(w)

put_char(s, c) ==
    IF c \in {LF, CR} THEN line_feed(s) ELSE IF c = BS THEN backspace(s) ELSE put_other(s, c)

(* put_str: the characters one after the other.                            *)
put_str(s, str) ==
    LET after[i \in 0..Len(str)] == IF i = 0 THEN s ELSE put_char(after[i - 1], str[i])
    IN after[Len(str)]

set_cursor(s, pos) == [s EXCEPT !.cursor = pos]

-----------------------------------------------------------------------------
(* What a terminal shows of a text, for comparison.  The text runs over an *)
(* endless screen: pos[i] is where its character i goes, and a cell shows  *)
(* what was last written there.  The screen is the window whose last row   *)
(* is the lowest one reached.                                              *)
Shown(text) ==
    LET after(p, c) == CASE c \in {LF, CR} -> (p \div Width + 1) * Width
                         [] c = BS -> p - 1
                         [] OTHER -> p + 1
        first[n \in 0..Len(text)] ==
          IF n = 0 THEN <<0>>
          ELSE LET before == first[n - 1] IN Append(before, after(before[n], text[n]))
        pos == first[Len(text)]
        low == CHOOSE r \in 0..Len(text) :
                 /\ \E i \in 1..Len(text) + 1 : r = pos[i] \div Width
                 /\ \A i \in 1..Len(text) + 1 : r >= pos[i] \div Width
        top == IF low < Height THEN 0 ELSE low - Height + 1
        last(p) == {i \in 1..Len(text) :
                      /\ text[i] \notin {LF, CR}
                      /\ p = IF text[i] = BS THEN pos[i] - 1 ELSE pos[i]}
        shown(p) == IF last(p) = {} THEN Space
                    ELSE LET i == CHOOSE j \in last(p) : \A k \in last(p) : k <= j IN
                         IF text[i] = BS THEN Space ELSE text[i]
    IN [cells  |-> [i \in Cells |-> shown(top * Width + i)],
        cursor |-> pos[Len(text) + 1] - top * Width]
=============================================================================
