------------------------------ MODULE Terminal ------------------------------
(***************************************************************************)
(* The keyboard driver with its echo (src/src/keyboard.c, framebuffer.c)   *)
(* and the shells that read it (get_input and main of user-shell.c).       *)
(*                                                                         *)
(* Three parties race: the keyboard's interrupt, which echoes a key and    *)
(* leaves it in the one-character keyboard_input; a shell, which polls     *)
(* that character by system call; and another shell, which polls and       *)
(* prints too.  Handlers run with interrupts off, so each is one step.     *)
(*                                                                         *)
(* The screen is kept from the start of the cursor's row on: the rows      *)
(* above are never read again, the rows below are blank (row_now has not   *)
(* passed 255).  The clock's corner (print_current_time) is left out.      *)
(***************************************************************************)
EXTENDS Naturals, Sequences

CONSTANTS MaxShells,            \* bound on the processes that run the shell
          Chars,                \* printable characters
          KEYBOARD_BUFFER_SIZE, \* limit of the echo
          SCREEN_WIDTH,         \* columns
          Byte,                 \* uint8_t counts modulo this
          PromptLength,         \* characters of the prompt
          MaxKeys               \* bound on keystrokes

NUL == "NUL"

ASSUME TerminalAssumption ==
    /\ MaxShells \in Nat \ {0}
    /\ KEYBOARD_BUFFER_SIZE \in Nat \ {0} /\ KEYBOARD_BUFFER_SIZE <= Byte
    /\ SCREEN_WIDTH \in Nat \ {0} /\ SCREEN_WIDTH < Byte
    /\ Byte \in Nat /\ PromptLength \in Nat /\ MaxKeys \in Nat
    /\ Chars \cap {NUL, "enter", "backspace", "tab", "unmapped"} = {}

Shells   == 1..MaxShells
Space    == "space"
Text     == "text"   \* any character a process prints
Keys     == Chars \cup {"enter", "backspace", "tab", "unmapped"}
Columns  == 0..(Byte - 1)

VARIABLES keyboard_input_on, keyboard_input, \* keyboard_driver_state
          l,        \* characters echoed on this line
          col_now,  \* the cursor's column
          cells,    \* the screen from the start of the cursor's row on
          shell,    \* each shell's position in main and its buf_input
          keys,     \* number of keystrokes so far
          stamp,    \* history: the keystroke in keyboard_input
          taken,    \* history: the last keystroke a shell took
          drift     \* history: a keystroke of this line was echoed and
                    \* overwritten, or read and not echoed, or a counter wrapped

driver  == <<keyboard_input_on, keyboard_input>>
screen  == <<l, col_now, cells>>
history == <<keys, stamp, taken, drift>>
vars    == <<driver, screen, shell, history>>

-----------------------------------------------------------------------------
(* The screen.                                                              *)

\* framebuffer_write on the cursor's row.
Put(s, col, c) == [s EXCEPT ![col % Byte] = c]

\* The next row becomes the cursor's; a long line has run over into it.
Shifted(s) == [c \in Columns |-> IF c + SCREEN_WIDTH < Byte THEN s[c + SCREEN_WIDTH] ELSE NUL]

\* putchar of a newline, and of another character.
NewLine ==
    /\ cells' = Put(Shifted(cells), 0, NUL)
    /\ col_now' = 0
    /\ l' = 0

\* puts of n characters without a newline.
PutText(n) ==
    /\ cells' = [c \in Columns |->
                    IF c = (col_now + n) % Byte THEN NUL
                    ELSE IF \E k \in 0..(n - 1) : c = (col_now + k) % Byte THEN Text
                    ELSE cells[c]]
    /\ col_now' = (col_now + n) % Byte
    /\ UNCHANGED l

\* framebuffer_clear and reset_write_position.
ClearScreen ==
    /\ cells' = [c \in Columns |-> NUL]
    /\ col_now' = 0
    /\ UNCHANGED l

-----------------------------------------------------------------------------
(* The keyboard.                                                            *)

Init ==
    /\ keyboard_input_on = FALSE /\ keyboard_input = NUL
    /\ l = 0 /\ col_now = 0 /\ cells = [c \in Columns |-> NUL]
    /\ shell = [s \in Shells |-> [pc |-> "off", buf |-> <<>>]]
    /\ keys = 0 /\ stamp = 0 /\ taken = 0 /\ drift = FALSE

SlipEchoBackspace ==
    /\ l > 0
    /\ cells' = Put(Put(cells, col_now, Space), col_now + Byte - 1, NUL)
    /\ col_now' = (col_now + Byte - 1) % Byte
    /\ UNCHANGED l

\* The branches of keyboard_isr, each with the putchar of '\0' that follows.
EchoBackspace ==
    /\ l > 0
    /\ cells' = Put(Put(cells, col_now, Space), col_now + Byte - 1, NUL)
    /\ col_now' = (col_now + Byte - 1) % Byte
    /\ l' = l - 1

EchoTab ==
    /\ cells' = Put(Put(Put(cells, col_now, Space), col_now + 1, Space), col_now + 2, NUL)
    /\ col_now' = (col_now + 2) % Byte
    /\ l' = (l + 2) % Byte

EchoChar(key) ==
    /\ l < KEYBOARD_BUFFER_SIZE - 1
    /\ cells' = Put(Put(cells, col_now, key), col_now + 1, NUL)
    /\ col_now' = (col_now + 1) % Byte
    /\ l' = (l + 1) % Byte

NoEcho == cells' = Put(cells, col_now, NUL) /\ UNCHANGED <<l, col_now>>

Echo(key) ==
    \/ key = "enter" /\ NewLine
    \/ key = "backspace" /\ (EchoBackspace \/ (l = 0 /\ NoEcho))
    \/ key = "tab" /\ EchoTab
    \/ key \in Chars /\ (EchoChar(key) \/ (l >= KEYBOARD_BUFFER_SIZE - 1 /\ NoEcho))
    \/ key = "unmapped" /\ NoEcho

Ascii(key) == IF key = "unmapped" THEN NUL ELSE key

SlipInputOnAfter(key) == TRUE
InputOnAfter(key)     == key # "enter"

\* Will this keystroke make the screen and the shell's line differ?
Drifts(key) ==
    \/ keyboard_input # NUL
    \/ key \in Chars /\ l >= KEYBOARD_BUFFER_SIZE - 1
    \/ key \in Chars \cup {"tab"} /\ col_now + 2 >= Byte

\* A key goes down.  A key that goes up, or comes while input is off, has no
\* effect but its acknowledgement.
keyboard_isr(key) ==
    /\ keys < MaxKeys
    /\ keys' = keys + 1
    /\ IF keyboard_input_on
       THEN /\ keyboard_input' = Ascii(key)
            /\ keyboard_input_on' = InputOnAfter(key)
            /\ Echo(key)
            /\ stamp' = keys'
            /\ drift' = (drift \/ Drifts(key))
       ELSE UNCHANGED <<driver, screen, stamp, drift>>
    /\ UNCHANGED <<shell, taken>>

-----------------------------------------------------------------------------
(* The shells.                                                              *)

Goto(s, pc) == shell' = [shell EXCEPT ![s].pc = pc]

\* The kernel starts the first shell.
Boot ==
    /\ shell[1].pc = "off"
    /\ Goto(1, "prompt")
    /\ UNCHANGED <<driver, screen, history>>

\* main prints its prompt, four pieces taken as one: what is claimed of the screen
\* is claimed of a shell that runs alone ...
PrintPrompt(s) ==
    /\ shell[s].pc = "prompt"
    /\ PutText(PromptLength)
    /\ Goto(s, "activate")
    /\ UNCHANGED <<driver, history>>

\* ... and switches the keyboard on (system call 7), which empties keyboard_input.
keyboard_state_activate(s) ==
    /\ shell[s].pc = "activate"
    /\ keyboard_input_on' = TRUE
    /\ keyboard_input' = NUL
    /\ drift' = FALSE
    /\ Goto(s, "read")
    /\ UNCHANGED <<screen, keys, stamp, taken>>

\* The line after get_input has received a character.
Received(buf, c) ==
    CASE c = "backspace" -> SubSeq(buf, 1, Len(buf) - 1)
      [] c = "tab"       -> buf \o <<Space, Space>>
      [] c \in Chars     -> Append(buf, c)
      [] OTHER           -> buf

SlipFlushed == keyboard_input
Flushed     == NUL

SlipLineComplete(c) == c = "return"
LineComplete(c)     == c = "enter"

\* One round of get_input's loop: system call 4, get_keyboard_buffer.
get_input(s) ==
    /\ shell[s].pc = "read"
    /\ shell' = [shell EXCEPT ![s].buf = Received(@, keyboard_input),
                              ![s].pc = IF LineComplete(keyboard_input) THEN "run" ELSE "read"]
    /\ keyboard_input' = Flushed
    /\ taken' = IF keyboard_input = NUL THEN taken ELSE stamp
    /\ UNCHANGED <<keyboard_input_on, screen, keys, stamp, drift>>

SlipStrclear(buf) == buf
strclear(buf)     == <<>>

\* At the head of main's loop, with the line cleared.
AtPrompt(buf) == [pc |-> "prompt", buf |-> strclear(buf)]

\* A command that returns: it prints nothing, a line, a text without a newline, or
\* is clear.
Run(s) ==
    /\ shell[s].pc = "run"
    /\ \/ UNCHANGED screen
       \/ NewLine
       \/ PutText(1)
       \/ ClearScreen
    /\ shell' = [shell EXCEPT ![s] = AtPrompt(@.buf)]
    /\ UNCHANGED <<driver, history>>

\* exec starts one more shell.
exec(s, t) ==
    /\ shell[s].pc = "run" /\ shell[t].pc = "off"
    /\ t > 1 => shell[t - 1].pc # "off"
    /\ shell' = [shell EXCEPT ![s] = AtPrompt(@.buf), ![t].pc = "prompt"]
    /\ UNCHANGED <<driver, screen, history>>

\* kill ends a shell wherever it is, the one that runs the command too (which goes
\* on, as after Run, if no other process is there to switch to).
kill(s, t) ==
    /\ shell[s].pc = "run" /\ shell[t].pc \notin {"off", "dead"}
    /\ shell' = [shell EXCEPT ![s] = AtPrompt(@.buf), ![t] = [pc |-> "dead", buf |-> <<>>]]
    /\ UNCHANGED <<driver, screen, history>>

\* A command that never returns: cd .. in the root (Spinning of Shell).
Spin(s) ==
    /\ shell[s].pc = "run"
    /\ Goto(s, "spin")
    /\ UNCHANGED <<driver, screen, history>>

Command(s) == Run(s) \/ Spin(s) \/ (\E t \in Shells : exec(s, t) \/ kill(s, t))

Step(s) == PrintPrompt(s) \/ keyboard_state_activate(s) \/ get_input(s) \/ Command(s)

\* Every shell has stopped: nothing more happens but keystrokes.
Silence ==
    /\ \A s \in Shells : shell[s].pc \in {"off", "spin", "dead"}
    /\ shell[1].pc # "off"
    /\ UNCHANGED vars

Next ==
    \/ \E key \in Keys : keyboard_isr(key)
    \/ Boot \/ Silence
    \/ \E s \in Shells : Step(s)

Spec == Init /\ [][Next]_vars

\* The kernel boots and every process gets its turn (ReadyRuns of Process).  Nobody
\* has to type, and no command has to return: Spin is a step, too.
FairSpec == Spec /\ WF_vars(Boot) /\ \A s \in Shells : WF_vars(Step(s))

-----------------------------------------------------------------------------
(* Properties.                                                              *)

\* Types; a shell that has a complete line has stopped reading.
TypeOK ==
    /\ keyboard_input_on \in BOOLEAN
    /\ keyboard_input \in (Keys \cup {NUL}) \ {"unmapped"}
    /\ l \in Columns /\ col_now \in Columns
    /\ cells \in [Columns -> Chars \cup {NUL, Space, Text}]
    /\ \A s \in Shells :
        /\ shell[s].pc \in {"off", "prompt", "activate", "read", "run", "spin", "dead"}
        /\ shell[s].buf \in Seq(Chars \cup {Space})
        /\ shell[s].buf # <<>> => shell[s].pc \in {"read", "run", "spin"}
    /\ keys \in 0..MaxKeys /\ stamp \in 0..keys /\ taken \in 0..keys
    /\ drift \in BOOLEAN

\* No other shell has been started.
Alone(s) == \A t \in Shells \ {s} : shell[t].pc = "off"

\* What the user sees is what the shell has: while one shell runs and reads as
\* fast as the user types, the characters left of the cursor are the line in
\* its buffer, through tabs, backspaces and wrapped rows, and l is its length
\* (keyboard_isr and get_input keep these three counts separately).
EchoMatchesLine ==
    \A s \in Shells :
        /\ shell[s].pc = "read" /\ Alone(s)
        /\ keyboard_input_on /\ keyboard_input = NUL /\ ~drift
        => /\ l = Len(shell[s].buf)
           /\ col_now >= l
           /\ \A k \in 1..l : cells[col_now - l + k - 1] = shell[s].buf[k]

\* A keystroke reaches at most one shell, and only once: what waits in
\* keyboard_input has not been taken (get_keyboard_buffer flushes what it reads).
NoKeyTwice == keyboard_input # NUL => stamp > taken

\* While one shell runs, the end of a line is never lost: nothing but the shell's
\* own poll removes it, because the driver is off until then.
EnterSurvives ==
    [][\A s \in Shells :
        Alone(s) /\ keyboard_input = "enter" /\ keyboard_input' # "enter"
            => taken' = stamp /\ shell'[s].pc = "run"]_vars

\* A shell that will not come back to its prompt.
Stopped(s) == shell[s].pc \in {"spin", "dead"}

\* The keyboard does not stay deaf: an Enter switches it off (keyboard.c:73), and it
\* comes on again, even if one shell's prompt wiped another's Enter, unless a shell
\* has stopped for ever; and while others have, every shell on its way to the prompt
\* switches the keyboard on or stops itself.
KeyboardReopens ==
    /\ ~keyboard_input_on ~> keyboard_input_on \/ \E s \in Shells : Stopped(s)
    /\ \A s \in Shells :
        shell[s].pc \in {"run", "prompt", "activate"} ~> keyboard_input_on \/ Stopped(s)
=============================================================================
