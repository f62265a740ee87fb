------------------------------ MODULE Console -------------------------------
(***************************************************************************)
(* device/console.c: threads print through one lock.  The lock is that of  *)
(* Sync; put_char reads the cursor, changes the screen and writes the      *)
(* cursor back with interrupts enabled.  printk formats before it takes    *)
(* the lock.  A user process prints through the system call write: int     *)
(* 0x80 is an interrupt gate, so the whole call runs with interrupts       *)
(* disabled and loses the CPU only in sema_down.  The keyboard interrupt   *)
(* echoes a character with put_char and takes no lock.                     *)
(*                                                                         *)
(* stage[t]: "none"    not printing                                        *)
(*           "enter"   in console_acquire, or at the test of put_str       *)
(*           "store"   in put_char, the cursor is read                     *)
(*           "cursor"  in put_char, the cell is written                    *)
(*           "leave"   in console_release                                  *)
(***************************************************************************)
EXTENDS Sync, Screen, Format

CONSTANTS
    Users,      \* the user processes
    BootText,   \* what was printed before interrupts were enabled
    Strings, Numbers, Formats,  \* what threads print
    Echoes,     \* characters that are typed
    NameAt,     \* where the exception's name goes, 88
    Begin, Name, PageFault, End,    \* the texts of general_intr_handler
    MaxCalls    \* bound on the number of calls and characters typed

ASSUME ConsoleAssumption ==
    /\ Users \subseteq Workers \ {Main}
    /\ MaxCalls \in Nat

VARIABLES
    screen,
    stage,
    text,       \* what t has still to print
    bx,         \* the register of put_char
    full,       \* history: the text of t's call
    want,       \* history: the text it was to be
    out,        \* history: all that threads printed
    done,       \* history: all that was printed by finished calls
    tape,       \* history: all that was printed or echoed
    mixed,      \* history: an echo came in the middle of a put_char
    calls,
    stopped     \* an exception was reported

printVars == <<screen, stage, text, bx, full, want, out, done, tape, mixed,
               calls, stopped>>

ConsoleInit ==
    /\ Init
    /\ screen = put_str([cells |-> [i \in Cells |-> Space], cursor |-> 0], BootText)
    /\ stage = [t \in Workers |-> "none"]
    /\ text = [t \in Workers |-> <<>>] /\ full = text /\ want = text
    /\ bx = [t \in Workers |-> 0]
    /\ out = BootText /\ done = BootText /\ tape = BootText
    /\ mixed = FALSE
    /\ calls = 0 /\ stopped = FALSE

AtStage(t, at) == At(t, "run") /\ stage[t] = at /\ UNCHANGED <<vars, mixed, calls, stopped>>

Advance(t, to) == stage' = [stage EXCEPT ![t] = to]

-----------------------------------------------------------------------------
(* The text that vsprintf makes of a format.                               *)
Formatted(f) ==
    LET conversions == SelectSeq(f, LAMBDA p : p.kind # 0) IN
    vsprintf(Joined([i \in DOMAIN f |-> Specifier(f[i])]),
             [i \in DOMAIN conversions |-> conversions[i].arg])

Texts == Strings \cup {put_int(n) : n \in Numbers} \cup {Formatted(f) : f \in Formats}

ASSUME TextsAssumption == BootText \in Seq(Nat) /\ Texts \subseteq Seq(Nat)

Call(t, string, meant) ==
    /\ At(t, "run") /\ stage[t] = "none"
    /\ calls < MaxCalls
    /\ Advance(t, "enter")
    /\ text' = [text EXCEPT ![t] = string]
    /\ full' = [full EXCEPT ![t] = string]
    /\ want' = [want EXCEPT ![t] = meant]
    /\ calls' = calls + 1
    /\ UNCHANGED <<vars, screen, bx, out, done, tape, mixed, stopped>>

(* console_put_str and console_put_char, and what a user process reaches   *)
(* of them through write.                                                  *)
console_put_str(t) == t \notin Users /\ \E s \in Strings : Call(t, s, s)

sys_write(t) == t \in Users /\ \E s \in Strings : Call(t, s, s)

console_put_int(t) == t \notin Users /\ \E n \in Numbers : Call(t, put_int(n), Numeral(n, 16))

(* A format is converted in the caller's own buffer, and then printed.     *)
CallFormatted(t) ==
    \E f \in Formats : Call(t, Formatted(f), Joined([i \in DOMAIN f |-> Meaning(f[i])]))

printk(t) == t \notin Users /\ CallFormatted(t)

printf(t) == t \in Users /\ CallFormatted(t)

(* console_acquire and console_release, as in Sync.                        *)
LockStep(t) ==
    /\ \/ stage[t] = "enter" /\ depth[t] = 0 /\ AcquireTest(t)
       \/ stage[t] = "leave" /\ ReleaseTest(t)
       \/ Continue(t)
    /\ UNCHANGED printVars

ReadCursor(t) ==
    /\ AtStage(t, "enter") /\ depth[t] = 1 /\ text[t] # <<>>
    /\ bx' = [bx EXCEPT ![t] = screen.cursor]
    /\ Advance(t, "store")
    /\ UNCHANGED <<screen, text, full, want, out, done, tape>>

StoreChar(t) ==
    /\ AtStage(t, "store")
    /\ LET s == put_char([screen EXCEPT !.cursor = bx[t]], Head(text[t])) IN
       /\ screen' = [screen EXCEPT !.cells = s.cells]
       /\ bx' = [bx EXCEPT ![t] = s.cursor]
    /\ Advance(t, "cursor")
    /\ UNCHANGED <<text, full, want, out, done, tape>>

(* Mutant: the lock is given up after each character.                      *)
SetCursor_unlock(t) ==
    /\ At(t, "run") /\ stage[t] = "cursor"
    /\ screen' = [screen EXCEPT !.cursor = bx[t]]
    /\ out' = Append(out, Head(text[t]))
    /\ tape' = Append(tape, Head(text[t]))
    /\ text' = [text EXCEPT ![t] = Tail(@)]
    /\ Advance(t, "enter")
    /\ sema' = [sema EXCEPT !.value = 1]
    /\ lock' = [holder |-> NoThread, repeat |-> 0]
    /\ depth' = [depth EXCEPT ![t] = 0]
    /\ UNCHANGED <<sched, pc, bx, full, want, done, mixed, calls, stopped>>

SetCursor(t) ==
    /\ AtStage(t, "cursor")
    /\ screen' = [screen EXCEPT !.cursor = bx[t]]
    /\ out' = Append(out, Head(text[t]))
    /\ tape' = Append(tape, Head(text[t]))
    /\ text' = [text EXCEPT ![t] = Tail(@)]
    /\ Advance(t, "enter")
    /\ UNCHANGED <<bx, full, want, done>>

(* The zero at the end of the string.                                      *)
EndOfString(t) ==
    /\ AtStage(t, "enter") /\ depth[t] = 1 /\ text[t] = <<>>
    /\ done' = out
    /\ Advance(t, "leave")
    /\ UNCHANGED <<screen, text, bx, full, want, out, tape>>

Return(t) ==
    /\ AtStage(t, "leave") /\ depth[t] = 0
    /\ Advance(t, "none")
    /\ full' = [full EXCEPT ![t] = <<>>]
    /\ want' = [want EXCEPT ![t] = <<>>]
    /\ UNCHANGED <<screen, text, bx, out, done, tape>>

-----------------------------------------------------------------------------
(* Mutant: the rows are cleared from where the cursor is.                  *)
general_intr_handler_here(page_fault) ==
    LET cleared == put_str(screen, [i \in 1..4 * Width |-> Space])
        named   == put_str(set_cursor(cleared, NameAt), Name)
    IN /\ screen' = put_str(named, End)
       /\ stopped' = TRUE
       /\ UNCHANGED <<vars, stage, text, bx, full, want, out, done, tape, mixed, calls>>

(* An exception other than a general protection fault, in any thread and   *)
(* whoever holds the lock: four rows are cleared, the report is written    *)
(* over them, and the machine stops.                                       *)
general_intr_handler(page_fault) ==
    LET cleared == put_str(set_cursor(screen, 0), [i \in 1..4 * Width |-> Space])
        titled  == put_str(set_cursor(cleared, 0), Begin)
        named   == put_str(set_cursor(titled, NameAt), Name)
        located == IF page_fault THEN put_str(named, PageFault) ELSE named
    IN /\ screen' = put_str(located, End)
       /\ stopped' = TRUE
       /\ UNCHANGED <<vars, stage, text, bx, full, want, out, done, tape, mixed, calls>>

(* Interrupts come outside the system calls of user processes.             *)
Outside == sched.cur \in Users => stage[sched.cur] = "none"

(* intr_keyboard_handler for a key with a character: put_char, from the    *)
(* cursor as the controller has it.                                        *)
Echo(c) ==
    /\ Interrupt /\ Outside
    /\ calls < MaxCalls /\ calls' = calls + 1
    /\ screen' = put_char(screen, c)
    /\ tape' = Append(tape, c)
    /\ mixed' = (mixed \/ \E t \in Workers : stage[t] \in {"store", "cursor"})
    /\ UNCHANGED <<sched, sema, lock, depth, stage, text, bx, full, want, out, done, stopped>>

Preempt == Outside /\ Timer /\ UNCHANGED printVars

Other == /\ \/ IdleBlock
            \/ IdleHalt
            \/ \E t, new \in Workers : stage[t] = "none" /\ process_execute(t, new)
         /\ UNCHANGED printVars

Printing(t) == \/ LockStep(t) \/ ReadCursor(t) \/ StoreChar(t)
               \/ SetCursor(t) \/ EndOfString(t) \/ Return(t)

ConsoleNext ==
    /\ ~stopped
    /\ \/ \E t \in Workers : \/ console_put_str(t) \/ console_put_int(t) \/ printk(t)
                             \/ sys_write(t) \/ printf(t)
                             \/ Printing(t)
       \/ \E c \in Echoes : Echo(c)
       \/ Preempt
       \/ Other
       \/ \E page_fault \in BOOLEAN : general_intr_handler(page_fault)

ConsoleSpec == ConsoleInit /\ [][ConsoleNext]_<<vars, printVars>>

-----------------------------------------------------------------------------
ConsoleTypeOK ==
    /\ TypeOK
    /\ screen.cells \in [Cells -> Nat] /\ screen.cursor \in Cells
    /\ stage \in [Workers -> {"none", "enter", "store", "cursor", "leave"}]
    /\ bx \in [Workers -> Cells]
    /\ {text[t] : t \in Workers} \cup {out, done, tape} \subseteq Seq(Nat)

(* Calls of console_put_str, console_put_int, printk and write by several  *)
(* threads appear one after the other, each whole.                         *)
Output == INSTANCE Terminal WITH log <- done

TextsWhole == Output!Spec

(* The conversions print what the caller meant: numbers without leading    *)
(* zeros, negative ones with a sign, up to the ends of the range of a word.*)
TextMeant == \A t \in Workers : full[t] = want[t]

(* Unless a key is typed in the middle of a put_char, the screen shows the *)
(* end of all that was printed and echoed, as a terminal with an endless   *)
(* screen would in its last rows; only the thread in put_char has written  *)
(* a cell and not yet the cursor.                                          *)
ScreenShows ==
    /\ ConsoleTypeOK
    /\ \/ stopped \/ mixed
       \/ screen = Shown(tape)
       \/ \E t \in Workers :
           /\ stage[t] = "cursor"
           /\ [screen EXCEPT !.cursor = bx[t]] = Shown(Append(tape, Head(text[t])))

(* Whatever the exception interrupts, its name can be read, and so can all *)
(* that was printed and echoed below the first four rows, unless a key was *)
(* typed in the middle of a put_char.                                      *)
ReportShown ==
    stopped =>
        /\ \A i \in 1..Len(Name) : screen.cells[NameAt + i - 1] = Name[i]
        /\ \/ mixed
           \/ \E s \in {tape} \cup {Append(tape, Head(text[t])) :
                                     t \in {u \in Workers : text[u] # <<>>}} :
               \A i \in 4 * Width..Size - 1 : screen.cells[i] = Shown(s).cells[i]
=============================================================================
