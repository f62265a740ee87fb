------------------------------ MODULE Keyboard ------------------------------
(***************************************************************************)
(* intr_keyboard_handler of device/keyboard.c, fed by a PS/2 keyboard.     *)
(*                                                                         *)
(* A key is its make code; an extended key has a code 16#e0xx and sends    *)
(* 16#e0 first.  Its break code is the make code with bit 7 set.  A key    *)
(* that is held repeats its make code.  IoQueue has the interrupt and the  *)
(* queue kbd_buf that the characters go to.                                *)
(***************************************************************************)
EXTENDS Naturals, Sequences

CONSTANT Keys   \* the keys of the keyboard that are used

VARIABLES
    ctrl_status, shift_status, alt_status, caps_lock_status, ext_scancode,
    held,       \* environment: the keys that are down
    bytes,      \* environment: bytes sent and not yet read
    caps        \* history: the parity of the make codes of Caps Lock

handlerVars == <<ctrl_status, shift_status, alt_status, caps_lock_status, ext_scancode>>

keyboardVars == <<handlerVars, held, bytes, caps>>

shift_l_make == \h2a
shift_r_make == \h36
alt_l_make == \h38
alt_r_make == \he038
ctrl_l_make == \h1d
ctrl_r_make == \he01d
caps_lock_make == \h3a

(* No key has the make code 16#60: its break code would be the prefix.     *)
ASSUME KeysAssumption ==
    Keys \subseteq (1..127 \cup (\he001)..(\he07f)) \ {\h60, \he060}

(* Keys whose second character is chosen by Shift alone; for the others it *)
(* is the capital letter, or the same character.                           *)
Symbols == 1..13 \cup {\h29, \h1a, \h1b, \h2b, \h27, \h28, \h33, \h34, \h35}

Modifiers == {shift_l_make, shift_r_make, alt_l_make, ctrl_l_make, caps_lock_make}

(* Esc, Backspace, Tab, Enter, keypad * and Space have one character.      *)
OneChar == {\h01, \h0e, \h0f, \h1c, \h37, \h39}

Nul == [key |-> 0, shift |-> FALSE]

(* The column of keymap that a key's character comes from; keymap has the  *)
(* character 0 for the modifier keys.                                      *)
keymap(index, shift) ==
    IF index \in Modifiers THEN Nul
    ELSE [key |-> index, shift |-> shift /\ index \notin OneChar]

KeyboardTypeOK ==
    /\ {ctrl_status, shift_status, alt_status, caps_lock_status, ext_scancode, caps}
           \subseteq BOOLEAN
    /\ held \subseteq Keys
    /\ bytes \in Seq(0..255) /\ Len(bytes) <= 2

KeyboardInit ==
    /\ ctrl_status = FALSE /\ shift_status = FALSE /\ alt_status = FALSE
    /\ caps_lock_status = FALSE /\ ext_scancode = FALSE
    /\ held = {} /\ bytes = <<>> /\ caps = FALSE

-----------------------------------------------------------------------------
(* The keyboard: a key goes down or repeats, or goes up.                   *)
Scan(code) == (IF code > 255 THEN <<\he0>> ELSE <<>>) \o <<code % 256>>

Press(k) ==
    /\ bytes = <<>>
    /\ bytes' = Scan(k)
    /\ held' = held \cup {k}
    /\ caps' = IF k = caps_lock_make THEN ~caps ELSE caps
    /\ UNCHANGED handlerVars

Release(k) ==
    /\ bytes = <<>>
    /\ k \in held
    /\ bytes' = Scan(k + 128)
    /\ held' = held \ {k}
    /\ UNCHANGED <<handlerVars, caps>>

-----------------------------------------------------------------------------
(* The interrupt for the next byte, which inb takes from the keyboard.     *)
Received == /\ bytes # <<>>
            /\ bytes' = Tail(bytes)
            /\ UNCHANGED <<held, caps>>

scancode == (IF ext_scancode THEN \he000 ELSE 0) + Head(bytes)

Prefix ==
    /\ Received
    /\ Head(bytes) = \he0
    /\ ext_scancode' = TRUE
    /\ UNCHANGED <<ctrl_status, shift_status, alt_status, caps_lock_status>>

Break ==
    /\ Received
    /\ Head(bytes) # \he0
    /\ Head(bytes) >= 128
    /\ ext_scancode' = FALSE
    /\ LET make_code == scancode - 128 IN
       /\ ctrl_status'  = (ctrl_status  /\ make_code \notin {ctrl_l_make, ctrl_r_make})
       /\ shift_status' = (shift_status /\ make_code \notin {shift_l_make, shift_r_make})
       /\ alt_status'   = (alt_status   /\ make_code \notin {alt_l_make, alt_r_make})
    /\ UNCHANGED caps_lock_status

(* Mutant: Shift does not undo Caps Lock.                                  *)
Shifted_or(code) ==
    IF code \in Symbols THEN shift_status ELSE shift_status \/ caps_lock_status

(* Which column of keymap a make code takes.                               *)
Shifted(code) ==
    IF code \in Symbols THEN shift_status ELSE shift_status # caps_lock_status

(* The character of the make code.                                         *)
cur_char == keymap(scancode % 256, Shifted(scancode))

(* The make codes that are not ignored: not those of function keys and the *)
(* other extended keys.                                                    *)
MakeCode == Head(bytes) < 128 /\ scancode \in 1..\h3a \cup {alt_r_make, ctrl_r_make}

(* A key with a character: it is up to IoQueue to store it.                *)
Char ==
    /\ Received
    /\ MakeCode /\ cur_char # Nul
    /\ ext_scancode' = FALSE
    /\ UNCHANGED <<ctrl_status, shift_status, alt_status, caps_lock_status>>

(* A modifier: the handler compares the low byte, which is the same for    *)
(* the left and the right Ctrl, and for the two Alts.                      *)
Modifier ==
    /\ Received
    /\ MakeCode /\ cur_char = Nul
    /\ ext_scancode' = FALSE
    /\ LET code == scancode % 256 IN
       /\ ctrl_status'  = (ctrl_status  \/ code = ctrl_l_make)
       /\ shift_status' = (shift_status \/ code \in {shift_l_make, shift_r_make})
       /\ alt_status'   = (alt_status   \/ code = alt_l_make)
       /\ caps_lock_status' = (caps_lock_status # (code = caps_lock_make))

Ignored ==
    /\ Received
    /\ Head(bytes) < 128 /\ ~MakeCode
    /\ ext_scancode' = FALSE
    /\ UNCHANGED <<ctrl_status, shift_status, alt_status, caps_lock_status>>

-----------------------------------------------------------------------------
Down(keys) == held \cap keys # {}

(* A modifier that the handler has recorded is really down: no sequence of *)
(* presses, repeats and releases, of the left and the right key, leaves a  *)
(* flag set after the last of its keys is up.                              *)
NoStuckModifier ==
    bytes = <<>> =>
        /\ ctrl_status => Down({ctrl_l_make, ctrl_r_make})
        /\ shift_status => Down({shift_l_make, shift_r_make})
        /\ alt_status => Down({alt_l_make, alt_r_make})
        /\ ~ext_scancode

(* The column of a key that the keys held and the presses of Caps Lock ask *)
(* for.                                                                    *)
ColumnHeld(key) ==
    CASE key \in OneChar -> FALSE
      [] key \in Symbols \ OneChar -> Down({shift_l_make, shift_r_make})
      [] OTHER -> Down({shift_l_make, shift_r_make}) # caps
=============================================================================
