----------------------------- MODULE MCIoQueue -----------------------------
(* Instances of IoQueue.  A thread reads what is typed, with the two       *)
(* kinds of modifiers that choose a character and with those that do not;  *)
(* a producer thread writes to one reader, or to two.                      *)
EXTENDS IoQueue

CONSTANTS a, b

MCPriority == [t \in Threads |-> 0]

Typed(keys) ==
    [boot |-> <<a>>, consumers |-> {a}, producers |-> {}, chars |-> {}, keys |-> keys]

Piped(consumers, chars) ==
    [boot |-> <<a, b>>, consumers |-> consumers, producers |-> {b}, chars |-> chars, keys |-> {}]

Letter == \h1e
Digit == \h02
SpaceKey == \h39

(* A function key and an arrow key are ignored.                            *)
MCUses == {Typed({shift_l_make, caps_lock_make, Letter}),
           Typed({shift_l_make, Digit}), Typed({caps_lock_make, Digit}),
           Typed({ctrl_l_make, ctrl_r_make, SpaceKey}),
           Typed({alt_l_make, alt_r_make, \h3b, \he048}),
           Piped({a}, {keymap(Letter, FALSE), keymap(Letter, TRUE)}),
           Piped({a, Main}, {keymap(Letter, FALSE)})}

MCKeys == UNION {u.keys : u \in MCUses}

MCChars == {keymap(k % 256, s) : k \in MCKeys, s \in BOOLEAN}
=============================================================================
