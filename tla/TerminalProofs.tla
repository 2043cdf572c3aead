--------------------------- MODULE TerminalProofs ---------------------------
(***************************************************************************)
(* Proofs about the keyboard, its echo and the shells that read it, for    *)
(* any number of shells and keystrokes, any width of the screen and any    *)
(* limit of the echo.                                                      *)
(*                                                                         *)
(* The claim about the screen (EchoMatchesLine) speaks only of the moments *)
(* at which nothing waits in keyboard_input.  Its invariant, Echoed, says  *)
(* what the screen shows in between: the line as it will be when the shell *)
(* has received what waits.  Handed says who may hold the keyboard, and    *)
(* with what in it, while one shell runs alone.                            *)
(***************************************************************************)
EXTENDS Terminal, TLAPS

Waiting == (Keys \cup {NUL}) \ {"unmapped"}

States == [pc : {"off", "prompt", "activate", "read", "run", "spin", "dead"},
           buf : Seq(Chars \cup {Space})]

\* The kernel's start of a shell.
Start(s) == s = 1 /\ Boot

\* The n characters left of column col of a screen are the line.
Left(n, col, s, line) ==
    /\ n = Len(line)
    /\ col >= n
    /\ \A k \in 1..n : s[col - n + k - 1] = line[k]

ShownLeft(line) == Left(l, col_now, cells, line)

\* An open keyboard never holds the end of a line: Enter closes it.
OpenBeforeEnter == keyboard_input_on => keyboard_input # "enter"

\* While shell s runs alone the keyboard is open only when s reads, and a closed
\* keyboard holds an Enter that s will take, or nothing.
Handed(s) ==
    Alone(s) =>
        /\ shell[s].pc # "read" => ~keyboard_input_on /\ keyboard_input = NUL
        /\ shell[s].pc = "read" /\ ~keyboard_input_on => keyboard_input = "enter"
        /\ ~keyboard_input_on => l = 0

Echoed(s) ==
    Alone(s) /\ shell[s].pc = "read" /\ keyboard_input_on /\ ~drift
        => ShownLeft(Received(shell[s].buf, keyboard_input))

TerminalInv ==
    /\ TypeOK
    /\ shell \in [Shells -> States]
    /\ NoKeyTwice
    /\ OpenBeforeEnter
    /\ \A s \in Shells : Handed(s) /\ Echoed(s)

-----------------------------------------------------------------------------
(* Lemmas.                                                                  *)

\* Counting modulo the byte stays among the columns.
LEMMA Wrap == \A n \in Nat : n % Byte \in Columns
  BY TerminalAssumption, SMT DEF Columns

\* A sum below the byte does not wrap.
LEMMA NoWrap == \A n \in Nat : n < Byte => n % Byte = n
  BY TerminalAssumption, SMT

\* The column before a column that is not the first.
LEMMA Before == \A n \in Columns : n > 0 => (n + Byte - 1) % Byte = n - 1
  <1> SUFFICES ASSUME NEW n \in Columns, n > 0 PROVE (n + Byte - 1) % Byte = n - 1
    OBVIOUS
  <1>1. n - 1 \in Nat /\ n - 1 < Byte /\ Byte \in Nat \ {0}
    BY TerminalAssumption DEF Columns
  <1>2. n + Byte - 1 = (n - 1) + Byte
    BY <1>1 DEF Columns
  <1>3. ((n - 1) + Byte) % Byte = n - 1
    BY <1>1, SMT
  <1> QED
    BY <1>2, <1>3

\* The screen's cells.
Screen == Chars \cup {NUL, Space, Text}

\* Writing one character keeps a screen a screen.
LEMMA PutType ==
    ASSUME NEW s \in [Columns -> Screen], NEW col \in Nat, NEW c \in Screen
    PROVE  Put(s, col, c) \in [Columns -> Screen]
  BY Wrap DEF Put

\* What framebuffer_write leaves on the screen.
LEMMA PutIs ==
    ASSUME NEW s \in [Columns -> Screen], NEW col \in Nat, col < Byte, NEW c
    PROVE  \A i \in Columns : Put(s, col, c)[i] = IF i = col THEN c ELSE s[i]
  BY NoWrap DEF Put

\* What get_input makes of each character.
LEMMA ReceivedIs ==
    ASSUME NEW buf
    PROVE  /\ Received(buf, NUL) = buf
           /\ Received(buf, "enter") = buf
           /\ Received(buf, "backspace") = SubSeq(buf, 1, Len(buf) - 1)
           /\ Received(buf, "tab") = buf \o <<Space, Space>>
           /\ \A c \in Chars : Received(buf, c) = Append(buf, c)
  BY TerminalAssumption DEF Received, NUL

\* The line a shell has after a character is a line of printable characters.
LEMMA ReceivedType ==
    ASSUME NEW buf \in Seq(Chars \cup {Space}), NEW c \in Waiting
    PROVE  Received(buf, c) \in Seq(Chars \cup {Space})
  <1>1. CASE c = "backspace"
    <2>1. SubSeq(buf, 1, Len(buf) - 1) \in Seq(Chars \cup {Space})
      <3>1. \A i \in 1..(Len(buf) - 1) : buf[i] \in Chars \cup {Space}
        OBVIOUS
      <3> QED
        BY <3>1
    <2> QED
      BY <1>1, <2>1, ReceivedIs
  <1>2. CASE c = "tab"
    <2>1. buf \o <<Space, Space>> \in Seq(Chars \cup {Space})
      OBVIOUS
    <2> QED
      BY <1>2, <2>1, ReceivedIs
  <1>3. CASE c \in Chars
    <2>1. Append(buf, c) \in Seq(Chars \cup {Space})
      BY <1>3
    <2> QED
      BY <1>3, <2>1, ReceivedIs
  <1>4. CASE c \notin Chars /\ c # "backspace" /\ c # "tab"
    BY <1>4 DEF Received
  <1> QED
    BY <1>1, <1>2, <1>3, <1>4

-----------------------------------------------------------------------------
(* The invariant.                                                           *)

ScreenTypes == l \in Columns /\ col_now \in Columns /\ cells \in [Columns -> Screen]

\* Whatever a key echoes, the screen stays a screen.
LEMMA EchoType ==
    ASSUME ScreenTypes, NEW key \in Keys, Echo(key)
    PROVE  ScreenTypes'
  <1> USE DEF ScreenTypes
  <1>0. /\ Byte \in Nat /\ Byte > 1
        /\ l \in Nat /\ l < Byte /\ col_now \in Nat /\ col_now < Byte
        /\ {NUL, Space, Text} \subseteq Screen /\ Chars \subseteq Screen
    BY TerminalAssumption DEF Columns, Screen
  <1>n. /\ col_now + 1 \in Nat /\ col_now + 2 \in Nat /\ col_now + Byte - 1 \in Nat
    BY <1>0
  <1>1. CASE NewLine
    <2>1. Shifted(cells) \in [Columns -> Screen]
      BY <1>0, TerminalAssumption DEF Shifted, Columns
    <2>2. Put(Shifted(cells), 0, NUL) \in [Columns -> Screen]
      BY <1>0, <1>n, <2>1, PutType
    <2>3. 0 \in Columns
      BY <1>0 DEF Columns
    <2> QED
      BY <1>1, <2>2, <2>3 DEF NewLine
  <1>2. CASE EchoBackspace
    <2>1. Put(cells, col_now, Space) \in [Columns -> Screen]
      BY <1>0, PutType
    <2>2. Put(Put(cells, col_now, Space), col_now + Byte - 1, NUL) \in [Columns -> Screen]
      BY <1>0, <1>n, <2>1, PutType
    <2>3. (col_now + Byte - 1) % Byte \in Columns
      BY <1>0, Wrap
    <2>4. l > 0 => l - 1 \in Columns
      BY <1>0 DEF Columns
    <2> QED
      BY <1>2, <2>2, <2>3, <2>4 DEF EchoBackspace
  <1>3. CASE EchoTab
    <2>1. Put(cells, col_now, Space) \in [Columns -> Screen]
      BY <1>0, PutType
    <2>2. Put(Put(cells, col_now, Space), col_now + 1, Space) \in [Columns -> Screen]
      BY <1>0, <1>n, <2>1, PutType
    <2>3. Put(Put(Put(cells, col_now, Space), col_now + 1, Space), col_now + 2, NUL)
            \in [Columns -> Screen]
      BY <1>0, <1>n, <2>2, PutType
    <2>4. (col_now + 2) % Byte \in Columns /\ (l + 2) % Byte \in Columns
      BY <1>0, Wrap
    <2> QED
      BY <1>3, <2>3, <2>4 DEF EchoTab
  <1>4. CASE key \in Chars /\ EchoChar(key)
    <2>1. Put(cells, col_now, key) \in [Columns -> Screen]
      BY <1>0, <1>4, PutType
    <2>2. Put(Put(cells, col_now, key), col_now + 1, NUL) \in [Columns -> Screen]
      BY <1>0, <1>n, <2>1, PutType
    <2>3. (col_now + 1) % Byte \in Columns /\ (l + 1) % Byte \in Columns
      BY <1>0, Wrap
    <2> QED
      BY <1>4, <2>2, <2>3 DEF EchoChar
  <1>5. CASE NoEcho
    BY <1>5, <1>0, PutType DEF NoEcho
  <1> QED
    BY <1>1, <1>2, <1>3, <1>4, <1>5 DEF Echo

\* So it does whatever a shell prints.
LEMMA PrintType ==
    ASSUME ScreenTypes,
           \/ UNCHANGED screen
           \/ NewLine
           \/ \E n \in Nat : PutText(n)
           \/ ClearScreen
    PROVE  ScreenTypes'
  <1> USE DEF ScreenTypes
  <1>0. /\ Byte \in Nat /\ Byte > 1
        /\ l \in Nat /\ l < Byte /\ col_now \in Nat /\ col_now < Byte
        /\ {NUL, Space, Text} \subseteq Screen /\ Chars \subseteq Screen
    BY TerminalAssumption DEF Columns, Screen
  <1>1. CASE NewLine
    BY <1>1, EchoType DEF Echo, Keys
  <1>2. ASSUME NEW n \in Nat, PutText(n) PROVE ScreenTypes'
    <2>1. (col_now + n) % Byte \in Columns
      BY <1>0, Wrap
    <2> QED
      BY <1>0, <1>2, <2>1 DEF PutText
  <1>3. CASE ClearScreen
    BY <1>3, <1>0 DEF ClearScreen, Columns
  <1> QED
    BY <1>1, <1>2, <1>3 DEF screen

TypeInv == TypeOK /\ shell \in [Shells -> States]

\* The keyboard's interrupt keeps the types.
LEMMA TypeKey ==
    ASSUME TypeInv, NEW key \in Keys, keyboard_isr(key)
    PROVE  TypeInv'
  <1> USE DEF TypeInv
  <1>0. ScreenTypes
    BY DEF TypeOK, ScreenTypes, Screen
  <1>1. ScreenTypes'
    BY <1>0, EchoType DEF keyboard_isr, screen, ScreenTypes
  <1>2. keyboard_input' \in Waiting /\ keyboard_input_on' \in BOOLEAN /\ drift' \in BOOLEAN
    BY DEF keyboard_isr, TypeOK, driver, Ascii, Waiting, Keys, NUL, InputOnAfter, Drifts
  <1>3. keys' \in 0..MaxKeys /\ stamp' \in 0..keys' /\ taken' \in 0..keys'
    BY TerminalAssumption DEF keyboard_isr, TypeOK
  <1> QED
    BY <1>1, <1>2, <1>3 DEF keyboard_isr, TypeOK, ScreenTypes, Screen, Waiting

\* A step of a shell keeps the types.
LEMMA TypeShell ==
    ASSUME TypeInv, NEW s \in Shells, Start(s) \/ Step(s)
    PROVE  TypeInv'
  <1> USE DEF TypeInv
  <1>0. ScreenTypes
    BY DEF TypeOK, ScreenTypes, Screen
  <1>s. shell[s] \in States /\ shell[s] = [pc |-> shell[s].pc, buf |-> shell[s].buf]
    BY DEF States
  <1>1. CASE Start(s)
    BY <1>1, <1>s DEF Start, Boot, Goto, TypeOK, States, driver, screen, history
  <1>2. CASE PrintPrompt(s)
    <2>1. ScreenTypes'
      BY <1>0, <1>2, PrintType, TerminalAssumption DEF PrintPrompt
    <2> QED
      BY <1>2, <1>s, <2>1 DEF PrintPrompt, Goto, TypeOK, States, driver, history, ScreenTypes, Screen
  <1>3. CASE keyboard_state_activate(s)
    BY <1>3, <1>s DEF keyboard_state_activate, Goto, TypeOK, States, screen, NUL, Keys
  <1>4. CASE get_input(s)
    <2>1. Received(shell[s].buf, keyboard_input) \in Seq(Chars \cup {Space})
      BY ReceivedType, <1>s DEF TypeOK, Waiting
    <2>2. shell' \in [Shells -> States] /\ shell'[s].pc \in {"read", "run"}
            /\ \A t \in Shells \ {s} : shell'[t] = shell[t]
      BY <1>4, <1>s, <2>1 DEF get_input, States, TypeOK
    <2>3. \A t \in Shells : shell'[t].buf # <<>> => shell'[t].pc \in {"read", "run", "spin"}
      BY <2>2 DEF TypeOK
    <2>4. keyboard_input' = NUL /\ taken' \in 0..keys'
      BY <1>4 DEF get_input, Flushed, TypeOK
    <2> QED
      BY <1>4, <2>2, <2>3, <2>4 DEF get_input, TypeOK, States, screen, Keys, NUL
  <1>5. CASE Run(s)
    <2>1. ScreenTypes'
      BY <1>0, <1>5, PrintType DEF Run
    <2>2. shell' \in [Shells -> States] /\ shell'[s].buf = <<>>
            /\ \A t \in Shells \ {s} : shell'[t] = shell[t]
      BY <1>5, <1>s DEF Run, AtPrompt, States, strclear
    <2> QED
      BY <1>5, <2>1, <2>2 DEF Run, TypeOK, States, driver, history, ScreenTypes, Screen
  <1>6. CASE Spin(s)
    BY <1>6, <1>s DEF Spin, Goto, TypeOK, States, driver, screen, history
  <1>7. ASSUME NEW t \in Shells, exec(s, t) PROVE TypeInv'
    <2>1. shell[t].pc = "off" /\ shell[t].buf = <<>> /\ t # s /\ shell[t] \in States
      BY <1>7 DEF exec, TypeOK
    <2>2. /\ shell' \in [Shells -> States]
          /\ shell'[s].buf = <<>> /\ shell'[t].buf = <<>>
          /\ \A u \in Shells \ {s, t} : shell'[u] = shell[u]
      BY <1>7, <1>s, <2>1 DEF exec, AtPrompt, States, strclear
    <2> QED
      BY <1>7, <2>2 DEF exec, TypeOK, States, driver, screen, history
  <1>8. ASSUME NEW t \in Shells, kill(s, t) PROVE TypeInv'
    <2>2. /\ shell' \in [Shells -> States]
          /\ shell'[s].buf = <<>> /\ shell'[t].buf = <<>>
          /\ \A u \in Shells \ {s, t} : shell'[u] = shell[u]
      <3>1. <<>> \in Seq(Chars \cup {Space})
        OBVIOUS
      <3>2. AtPrompt(shell[s].buf) \in States /\ [pc |-> "dead", buf |-> <<>>] \in States
        BY <3>1 DEF AtPrompt, States, strclear
      <3>3. CASE s = t
        BY <1>8, <3>2, <3>3 DEF kill
      <3>4. CASE s # t
        BY <1>8, <3>2, <3>4 DEF kill, AtPrompt, strclear
      <3> QED
        BY <3>3, <3>4
    <2> QED
      BY <1>8, <2>2 DEF kill, TypeOK, States, driver, screen, history
  <1> QED
    BY <1>1, <1>2, <1>3, <1>4, <1>5, <1>6, <1>7, <1>8 DEF Step, Command

\* A shell that was started never goes off: a shell that is alone after a step was
\* alone before it, and the step was its own.
LEMMA StaysAlone ==
    ASSUME TypeInv, NEW s \in Shells, NEW t \in Shells, Start(t) \/ Step(t), Alone(s)'
    PROVE  t = s /\ Alone(s) /\ \A u \in Shells : ~exec(t, u) /\ (kill(t, u) => u = s)
  <1>1. CASE Start(t) \/ PrintPrompt(t) \/ keyboard_state_activate(t) \/ get_input(t) \/ Run(t) \/ Spin(t)
    <2>1. \A u \in Shells \ {t} : shell'[u] = shell[u]
      BY <1>1 DEF TypeInv, Start, Boot, PrintPrompt, keyboard_state_activate, get_input, Run, Spin, Goto
    <2>2. shell'[t].pc # "off"
      BY <1>1 DEF TypeInv, States, Start, Boot, PrintPrompt, keyboard_state_activate, get_input, Run, Spin,
                  AtPrompt, Goto
    <2>3. t = s /\ Alone(s)
      BY <2>1, <2>2 DEF Alone
    <2>4. \A u \in Shells : exec(t, u) \/ kill(t, u) => shell'[u].pc # "off"
      BY DEF TypeInv, States, exec, kill, AtPrompt
    <2>5. \A u \in Shells : exec(t, u) => u # t
      BY DEF exec
    <2> QED
      BY <2>3, <2>4, <2>5 DEF Alone
  <1>2. ASSUME NEW v \in Shells, exec(t, v) \/ kill(t, v)
        PROVE  t = s /\ Alone(s) /\ \A u \in Shells : ~exec(t, u) /\ (kill(t, u) => u = s)
    <2>1. \A u \in Shells : exec(t, u) \/ kill(t, u) => shell'[u].pc # "off" /\ shell'[t].pc # "off"
      BY DEF TypeInv, States, exec, kill, AtPrompt
    <2>2. \A u \in Shells : exec(t, u) => u # t
      BY DEF exec
    <2>3. t = s /\ v = s
      BY <1>2, <2>1 DEF Alone
    <2>4. \A u \in Shells \ {s} : shell'[u] = shell[u]
      BY <1>2, <2>3 DEF TypeInv, exec, kill
    <2> QED
      BY <2>1, <2>2, <2>3, <2>4 DEF Alone
  <1> QED
    BY <1>1, <1>2 DEF Step, Command

\* The keyboard's interrupt keeps the history and Enter's place.
LEMMA KeyKeeps ==
    ASSUME TerminalInv, NEW key \in Keys, keyboard_isr(key)
    PROVE  NoKeyTwice' /\ OpenBeforeEnter'
  <1>1. keys \in Nat /\ taken \in Nat /\ taken <= keys
    BY TerminalAssumption DEF TerminalInv, TypeOK
  <1>2. NoKeyTwice'
    BY <1>1 DEF TerminalInv, NoKeyTwice, keyboard_isr, driver
  <1>3. OpenBeforeEnter'
    BY DEF TerminalInv, OpenBeforeEnter, keyboard_isr, driver, Ascii, InputOnAfter, NUL
  <1> QED
    BY <1>2, <1>3

\* So does a step of a shell.
LEMMA ShellKeeps ==
    ASSUME TerminalInv, NEW s \in Shells, Start(s) \/ Step(s)
    PROVE  NoKeyTwice' /\ OpenBeforeEnter'
  <1>1. keyboard_input' \in {keyboard_input, NUL}
    BY DEF Start, Boot, Step, PrintPrompt, keyboard_state_activate, get_input, Command, Run, Spin, exec, kill,
           driver, Flushed
  <1>2. keyboard_input' # NUL => stamp' = stamp /\ taken' = taken /\ keyboard_input_on' = keyboard_input_on
    BY DEF Start, Boot, Step, PrintPrompt, keyboard_state_activate, get_input, Command, Run, Spin, exec, kill,
           driver, history, Flushed
  <1> QED
    BY <1>1, <1>2 DEF TerminalInv, NoKeyTwice, OpenBeforeEnter, NUL

\* Writing at the cursor or right of it leaves the line where it is.
LEMMA LeftKept ==
    ASSUME NEW n \in Nat, NEW col \in Nat, NEW s, NEW r, NEW line, Left(n, col, s, line),
           \A i \in Nat : i < col => r[i] = s[i]
    PROVE  Left(n, col, r, line)
  <1>1. ASSUME NEW k \in 1..n PROVE r[col - n + k - 1] = line[k]
    <2>1. col - n + k - 1 \in Nat /\ col - n + k - 1 < col
      BY DEF Left
    <2>2. \A i \in Nat : i = col - n + k - 1 => r[i] = s[i]
      BY <2>1
    <2>3. s[col - n + k - 1] = line[k]
      BY DEF Left
    <2> QED
      BY <2>1, <2>2, <2>3
  <1> QED
    BY <1>1 DEF Left

\* Writing one more character at the cursor makes the line longer.
LEMMA LeftGrown ==
    ASSUME NEW n \in Nat, NEW col \in Nat, NEW s, NEW r, NEW S, NEW line \in Seq(S), NEW c \in S,
           Left(n, col, s, line),
           \A i \in Nat : i < col => r[i] = s[i], r[col] = c
    PROVE  Left(n + 1, col + 1, r, Append(line, c))
  <1>0. n = Len(line) /\ n <= col
    BY DEF Left
  <1>1. ASSUME NEW k \in 1..(n + 1) PROVE r[(col + 1) - (n + 1) + k - 1] = Append(line, c)[k]
    <2>1. (col + 1) - (n + 1) + k - 1 = col - n + k - 1
      BY <1>0
    <2>2. CASE k \in 1..n
      <3>1. Left(n, col, r, line)
        BY LeftKept
      <3>2. r[col - n + k - 1] = line[k]
        BY <2>2, <3>1 DEF Left
      <3> QED
        BY <1>0, <2>1, <2>2, <3>2
    <2>3. CASE k = n + 1
      <3>1. col - n + k - 1 = col
        BY <1>0, <2>3
      <3> QED
        BY <1>0, <2>1, <2>3, <3>1
    <2>4. k \in 1..n \/ k = n + 1
      OBVIOUS
    <2> QED
      BY <2>2, <2>3, <2>4
  <1> QED
    BY <1>0, <1>1 DEF Left

\* Stepping back over the last character makes it shorter.
LEMMA LeftShrunk ==
    ASSUME NEW n \in Nat, n > 0, NEW col \in Nat, NEW s, NEW r, NEW S, NEW line \in Seq(S),
           Left(n, col, s, line),
           \A i \in Nat : i < col - 1 => r[i] = s[i]
    PROVE  Left(n - 1, col - 1, r, SubSeq(line, 1, Len(line) - 1))
  <1> DEFINE short == SubSeq(line, 1, Len(line) - 1)
  <1>0. n = Len(line) /\ n <= col
    BY DEF Left
  <1>1. Len(short) = n - 1 /\ \A k \in 1..(n - 1) : short[k] = line[k]
    BY <1>0
  <1> HIDE DEF short
  <1>2. Left(n - 1, col - 1, s, short)
    <2>1. ASSUME NEW k \in 1..(n - 1) PROVE s[(col - 1) - (n - 1) + k - 1] = short[k]
      <3>1. (col - 1) - (n - 1) + k - 1 = col - n + k - 1 /\ k \in 1..n
        BY <1>0
      <3>2. s[col - n + k - 1] = line[k]
        BY <3>1 DEF Left
      <3> QED
        BY <1>1, <3>1, <3>2
    <2> QED
      BY <1>0, <1>1, <2>1 DEF Left
  <1>3. Left(n - 1, col - 1, r, short)
    <2>1. n - 1 \in Nat /\ col - 1 \in Nat
      BY <1>0
    <2> QED
      BY <1>2, <2>1, LeftKept
  <1> QED
    BY <1>3 DEF short

\* While one shell runs alone, a key it echoes on an open keyboard leaves left of
\* the cursor the line the shell will have: keyboard_isr's three counts move with
\* the line that get_input will build.
LEMMA EchoFollows ==
    ASSUME TypeInv, NEW key \in Keys, key # "enter", Echo(key), ~Drifts(key),
           NEW buf \in Seq(Chars \cup {Space}), ShownLeft(buf)
    PROVE  ShownLeft(Received(buf, Ascii(key)))'
  <1>0. /\ Byte \in Nat /\ Byte > 1
        /\ l \in Nat /\ l < Byte /\ col_now \in Nat /\ col_now < Byte /\ col_now \in Columns
        /\ cells \in [Columns -> Screen]
        /\ {NUL, Space, Text} \subseteq Screen /\ Chars \subseteq Screen
        /\ Len(buf) = l /\ l <= col_now
    BY TerminalAssumption DEF Columns, Screen, TypeInv, TypeOK, ShownLeft, Left
  <1>b. Left(l, col_now, cells, buf)
    BY DEF ShownLeft
  <1>1. CASE NoEcho /\ (key = "unmapped" \/ (key = "backspace" /\ l = 0))
    <2>1. \A i \in Columns : cells'[i] = IF i = col_now THEN NUL ELSE cells[i]
      BY <1>0, <1>1, PutIs DEF NoEcho
    <2>2. l' = l /\ col_now' = col_now
      BY <1>1 DEF NoEcho
    <2>3. Received(buf, Ascii(key)) = buf
      <3>1. CASE key = "unmapped"
        BY <3>1, ReceivedIs DEF Ascii
      <3>2. CASE key = "backspace" /\ l = 0
        <4>1. buf = <<>> /\ SubSeq(buf, 1, Len(buf) - 1) = <<>>
          BY <1>0, <3>2
        <4> QED
          BY <3>2, <4>1, ReceivedIs DEF Ascii
      <3> QED
        BY <1>1, <3>1, <3>2
    <2>4. \A i \in Nat : i < col_now => cells'[i] = cells[i]
      BY <1>0, <2>1 DEF Columns
    <2>5. Left(l, col_now, cells', buf)
      BY <1>0, <1>b, <2>4, LeftKept
    <2> QED
      BY <2>2, <2>3, <2>5 DEF ShownLeft
  <1>2. CASE key = "backspace" /\ EchoBackspace
    <2>1. l > 0 /\ col_now > 0
      BY <1>0, <1>2 DEF EchoBackspace
    <2>2. (col_now + Byte - 1) % Byte = col_now - 1
      BY <1>0, <2>1, Before
    <2>3. l' = l - 1 /\ col_now' = col_now - 1
      BY <1>2, <2>2 DEF EchoBackspace
    <2>4. cells' = [[cells EXCEPT ![col_now] = Space] EXCEPT ![col_now - 1] = NUL]
      BY <1>0, <1>2, <2>2, NoWrap DEF EchoBackspace, Put
    <2>5. \A i \in Nat : i < col_now - 1 => cells'[i] = cells[i]
      BY <1>0, <2>4 DEF Columns
    <2>6. Left(l - 1, col_now - 1, cells', SubSeq(buf, 1, Len(buf) - 1))
      BY <1>0, <1>b, <2>1, <2>5, LeftShrunk
    <2>7. Received(buf, Ascii(key)) = SubSeq(buf, 1, Len(buf) - 1)
      BY <1>2, ReceivedIs DEF Ascii
    <2> QED
      BY <2>3, <2>6, <2>7 DEF ShownLeft
  <1>3. CASE key = "tab" /\ EchoTab
    <2>1. col_now + 2 < Byte /\ l + 2 < Byte /\ col_now + 1 < Byte
      BY <1>0, <1>3 DEF Drifts
    <2>2. /\ col_now % Byte = col_now
          /\ (col_now + 1) % Byte = col_now + 1
          /\ (col_now + 2) % Byte = col_now + 2
          /\ (l + 2) % Byte = l + 2
      BY <1>0, <2>1, NoWrap
    <2>3. l' = l + 2 /\ col_now' = col_now + 2
      BY <1>3, <2>2 DEF EchoTab
    <2>4. cells' = [[[cells EXCEPT ![col_now] = Space] EXCEPT ![col_now + 1] = Space]
                        EXCEPT ![col_now + 2] = NUL]
      BY <1>3, <2>2 DEF EchoTab, Put
    <2>5. /\ \A i \in Nat : i < col_now => cells'[i] = cells[i]
          /\ cells'[col_now] = Space /\ cells'[col_now + 1] = Space
      BY <1>0, <2>1, <2>4 DEF Columns
    <2>6. Left(l + 1, col_now + 1, cells', Append(buf, Space))
      BY <1>0, <1>b, <2>5, LeftGrown
    <2>7. /\ l + 1 \in Nat /\ col_now + 1 \in Nat
          /\ Append(buf, Space) \in Seq(Chars \cup {Space}) /\ Space \in Chars \cup {Space}
      BY <1>0
    <2>8. Left((l + 1) + 1, (col_now + 1) + 1, cells', Append(Append(buf, Space), Space))
      BY <2>5, <2>6, <2>7, LeftGrown
    <2>9. Append(Append(buf, Space), Space) = buf \o <<Space, Space>>
      OBVIOUS
    <2>10. Received(buf, Ascii(key)) = buf \o <<Space, Space>>
      BY <1>3, ReceivedIs DEF Ascii
    <2>11. (l + 1) + 1 = l + 2 /\ (col_now + 1) + 1 = col_now + 2
      BY <1>0
    <2> QED
      BY <2>3, <2>8, <2>9, <2>10, <2>11 DEF ShownLeft
  <1>4. CASE key \in Chars /\ EchoChar(key)
    <2>1. col_now + 1 < Byte /\ l + 1 < Byte
      BY <1>0, <1>4 DEF Drifts
    <2>2. /\ col_now % Byte = col_now
          /\ (col_now + 1) % Byte = col_now + 1
          /\ (l + 1) % Byte = l + 1
      BY <1>0, <2>1, NoWrap
    <2>3. l' = l + 1 /\ col_now' = col_now + 1
      BY <1>4, <2>2 DEF EchoChar
    <2>4. cells' = [[cells EXCEPT ![col_now] = key] EXCEPT ![col_now + 1] = NUL]
      BY <1>4, <2>2 DEF EchoChar, Put
    <2>5. /\ \A i \in Nat : i < col_now => cells'[i] = cells[i]
          /\ cells'[col_now] = key
      BY <1>0, <2>1, <2>4 DEF Columns
    <2>6. Left(l + 1, col_now + 1, cells', Append(buf, key))
      BY <1>0, <1>4, <1>b, <2>5, LeftGrown
    <2>7. Received(buf, Ascii(key)) = Append(buf, key)
      BY <1>4, ReceivedIs, TerminalAssumption DEF Ascii
    <2> QED
      BY <2>3, <2>6, <2>7 DEF ShownLeft
  <1>5. ~(key \in Chars /\ l >= KEYBOARD_BUFFER_SIZE - 1)
    BY DEF Drifts
  <1> QED
    BY <1>1, <1>2, <1>3, <1>4, <1>5 DEF Echo

\* The keyboard's interrupt, seen by a shell that runs alone.
LEMMA KeyAlone ==
    ASSUME TerminalInv, NEW key \in Keys, keyboard_isr(key), NEW s \in Shells
    PROVE  Handed(s)' /\ Echoed(s)'
  <1>0. TypeInv /\ Handed(s) /\ Echoed(s) /\ shell[s].buf \in Seq(Chars \cup {Space})
    BY DEF TerminalInv, TypeInv, States
  <1>1. shell' = shell /\ Alone(s)' = Alone(s)
    BY DEF keyboard_isr, Alone
  <1>2. CASE ~keyboard_input_on
    BY <1>0, <1>1, <1>2 DEF keyboard_isr, driver, screen, Handed, Echoed, ShownLeft
  <1>3. CASE ~Alone(s)
    BY <1>1, <1>3 DEF Handed, Echoed
  <1>4. CASE keyboard_input_on /\ Alone(s)
    <2>1. /\ keyboard_input' = Ascii(key) /\ Echo(key)
          /\ keyboard_input_on' = (key # "enter")
          /\ drift' = (drift \/ Drifts(key))
      BY <1>4 DEF keyboard_isr, InputOnAfter
    <2>2. shell[s].pc = "read"
      BY <1>0, <1>4 DEF Handed
    <2>3. CASE key = "enter"
      <3>1. keyboard_input' = "enter" /\ ~keyboard_input_on' /\ l' = 0
        BY <2>1, <2>3, TerminalAssumption DEF Ascii, Echo, NewLine
      <3> QED
        BY <1>1, <2>2, <3>1 DEF Handed, Echoed
    <2>4. CASE key # "enter"
      <3>1. Handed(s)'
        BY <1>1, <2>1, <2>2, <2>4 DEF Handed
      <3>2. ASSUME ~drift' PROVE ShownLeft(Received(shell[s].buf, Ascii(key)))'
        <4>1. ~drift /\ ~Drifts(key) /\ keyboard_input = NUL
          BY <2>1, <3>2 DEF Drifts
        <4>2. ShownLeft(shell[s].buf)
          BY <1>0, <1>4, <2>2, <4>1, ReceivedIs DEF Echoed
        <4> DEFINE buf == shell[s].buf
        <4>3. buf \in Seq(Chars \cup {Space}) /\ ShownLeft(buf) /\ buf' = buf
          BY <1>0, <1>1, <4>2
        <4> HIDE DEF buf
        <4>4. PICK b \in Seq(Chars \cup {Space}) : b = buf
          BY <4>3
        <4>5. ShownLeft(Received(b, Ascii(key)))'
          BY <1>0, <2>1, <2>4, <4>1, <4>3, <4>4, EchoFollows
        <4>6. Left(l', col_now', cells', Received(b, Ascii(key)))
          BY <4>5 DEF ShownLeft
        <4>7. b = shell[s].buf /\ b = shell'[s].buf
          BY <1>1, <4>4 DEF buf
        <4> QED
          BY <4>6, <4>7 DEF ShownLeft
      <3>3. Echoed(s)'
        BY <1>1, <2>1, <3>2 DEF Echoed
      <3> QED
        BY <3>1, <3>3
    <2> QED
      BY <2>3, <2>4
  <1> QED
    BY <1>2, <1>3, <1>4

\* A step of a shell, seen by a shell that runs alone.
LEMMA ShellAlone ==
    ASSUME TerminalInv, NEW t \in Shells, Start(t) \/ Step(t), NEW s \in Shells
    PROVE  Handed(s)' /\ Echoed(s)'
  <1>0. TypeInv /\ Handed(s) /\ Echoed(s) /\ shell[s] \in States
    BY DEF TerminalInv, TypeInv
  <1>1. CASE ~Alone(s)'
    BY <1>1 DEF Handed, Echoed
  <1>2. CASE Alone(s)'
    <2>0. t = s /\ Alone(s) /\ \A u \in Shells : ~exec(s, u) /\ (kill(s, u) => u = s)
      BY <1>0, <1>2, StaysAlone
    <2>1. CASE Start(s) \/ PrintPrompt(s)
      <3>1. /\ shell[s].pc # "read" /\ shell'[s].pc # "read"
            /\ UNCHANGED <<keyboard_input_on, keyboard_input, l>>
        BY <1>0, <2>1 DEF TypeInv, States, Start, Boot, PrintPrompt, Goto, PutText, driver, screen
      <3> QED
        BY <1>0, <2>0, <3>1 DEF Handed, Echoed
    <2>2. CASE keyboard_state_activate(s)
      <3>1. /\ shell[s].pc = "activate" /\ shell'[s].pc = "read" /\ shell'[s].buf = shell[s].buf
            /\ keyboard_input_on' /\ keyboard_input' = NUL
            /\ UNCHANGED <<l, col_now, cells>>
        BY <1>0, <2>2 DEF TypeInv, States, keyboard_state_activate, Goto, screen
      <3>2. shell[s].buf = <<>> /\ l = 0 /\ col_now \in Nat
        BY <1>0, <2>0, <3>1, TerminalAssumption DEF TypeInv, TypeOK, Handed, Columns
      <3>3. Left(l', col_now', cells', <<>>)
        BY <3>1, <3>2 DEF Left
      <3>4. Received(shell'[s].buf, keyboard_input') = <<>>
        BY <3>1, <3>2, ReceivedIs
      <3> QED
        BY <3>1, <3>3, <3>4 DEF Handed, Echoed, ShownLeft
    <2>3. CASE get_input(s)
      <3>1. /\ shell[s].pc = "read"
            /\ shell'[s].buf = Received(shell[s].buf, keyboard_input)
            /\ shell'[s].pc = IF keyboard_input = "enter" THEN "run" ELSE "read"
            /\ keyboard_input' = NUL
            /\ UNCHANGED <<keyboard_input_on, l, col_now, cells, drift>>
        BY <1>0, <2>3 DEF TypeInv, States, get_input, screen, Flushed, LineComplete
      <3>2. keyboard_input = "enter" => ~keyboard_input_on
        BY DEF TerminalInv, OpenBeforeEnter
      <3>3. Handed(s)'
        BY <1>0, <2>0, <3>1, <3>2 DEF Handed
      <3>4. Received(shell'[s].buf, keyboard_input') = shell'[s].buf
        BY <3>1, ReceivedIs
      <3>5. Echoed(s)'
        BY <1>0, <2>0, <3>1, <3>4 DEF Echoed, ShownLeft
      <3> QED
        BY <3>3, <3>5
    <2>4. CASE Run(s) \/ Spin(s) \/ kill(s, s)
      <3>1. /\ shell[s].pc = "run" /\ shell'[s].pc \in {"prompt", "spin", "dead"}
            /\ UNCHANGED <<keyboard_input_on, keyboard_input>>
            /\ l' \in {l, 0}
        BY <1>0, <2>4 DEF TypeInv, States, Run, Spin, kill, AtPrompt, Goto, NewLine, PutText, ClearScreen, driver, screen
      <3> QED
        BY <1>0, <2>0, <3>1 DEF Handed, Echoed
    <2> QED
      BY <2>0, <2>1, <2>2, <2>3, <2>4 DEF Step, Command
  <1> QED
    BY <1>1, <1>2

\* The invariant holds at boot.
LEMMA TerminalInit == Init => TerminalInv
  <1> SUFFICES ASSUME Init PROVE TerminalInv
    OBVIOUS
  <1>1. <<>> \in Seq(Chars \cup {Space})
    OBVIOUS
  <1>2. shell \in [Shells -> States] /\ \A s \in Shells : shell[s].pc = "off" /\ shell[s].buf = <<>>
    BY <1>1 DEF Init, States
  <1>3. ScreenTypes
    BY TerminalAssumption DEF Init, ScreenTypes, Columns, Screen
  <1>4. TypeOK
    <2>1. keyboard_input_on \in BOOLEAN /\ keyboard_input \in Waiting /\ drift \in BOOLEAN
      BY DEF Init, Waiting, NUL
    <2>2. keys \in 0..MaxKeys /\ stamp \in 0..keys /\ taken \in 0..keys
      BY TerminalAssumption DEF Init
    <2> QED
      BY <1>1, <1>2, <1>3, <2>1, <2>2 DEF TypeOK, ScreenTypes, Screen, Waiting
  <1>5. NoKeyTwice /\ OpenBeforeEnter
    BY DEF Init, NoKeyTwice, OpenBeforeEnter
  <1>6. \A s \in Shells : Handed(s) /\ Echoed(s)
    BY <1>2 DEF Init, Handed, Echoed
  <1> QED
    BY <1>2, <1>4, <1>5, <1>6 DEF TerminalInv

\* Every step keeps the invariant.
LEMMA TerminalNext == TerminalInv /\ [Next]_vars => TerminalInv'
  <1> SUFFICES ASSUME TerminalInv, [Next]_vars PROVE TerminalInv'
    OBVIOUS
  <1>0. TypeInv
    BY DEF TerminalInv, TypeInv
  <1>1. ASSUME NEW key \in Keys, keyboard_isr(key) PROVE TerminalInv'
    BY <1>0, <1>1, TypeKey, KeyKeeps, KeyAlone DEF TerminalInv, TypeInv
  <1>2. ASSUME NEW s \in Shells, Start(s) \/ Step(s) PROVE TerminalInv'
    BY <1>0, <1>2, TypeShell, ShellKeeps, ShellAlone DEF TerminalInv, TypeInv
  <1>3. CASE UNCHANGED vars
    BY <1>3 DEF vars, driver, screen, history, TerminalInv, TypeOK, NoKeyTwice, OpenBeforeEnter,
                Handed, Echoed, Alone, ShownLeft
  <1>4. CASE Boot
    <2>1. 1 \in Shells
      BY TerminalAssumption DEF Shells
    <2> QED
      BY <1>2, <1>4, <2>1 DEF Start
  <1> QED
    BY <1>1, <1>2, <1>3, <1>4 DEF Next, Silence

-----------------------------------------------------------------------------
(* Theorems.                                                                *)

\* The inductive invariant of the keyboard, its echo and the shells holds for
\* ever (keyboard_isr, keyboard_state_activate, get_keyboard_buffer, get_input).
THEOREM TerminalCorrect == Spec => []TerminalInv
  BY TerminalInit, TerminalNext, PTL DEF Spec

\* Types: the counters never leave their byte, and a shell holds characters only
\* while it reads or runs a line.
THEOREM TerminalTypeCorrect == Spec => []TypeOK
  <1>1. TerminalInv => TypeOK
    BY DEF TerminalInv
  <1> QED
    BY <1>1, TerminalCorrect, PTL

\* What the user sees left of the cursor is the line the shell has, for any
\* limit of the echo, any width and any prompt (keyboard_isr and get_input).
THEOREM EchoMatchesLineHolds == Spec => []EchoMatchesLine
  <1>1. TerminalInv => EchoMatchesLine
    BY ReceivedIs DEF TerminalInv, EchoMatchesLine, Echoed, ShownLeft, Left
  <1> QED
    BY <1>1, TerminalCorrect, PTL

\* No keystroke is taken twice, however many shells poll (get_keyboard_buffer).
THEOREM NoKeyTwiceHolds == Spec => []NoKeyTwice
  <1>1. TerminalInv => NoKeyTwice
    BY DEF TerminalInv
  <1> QED
    BY <1>1, TerminalCorrect, PTL

\* While one shell runs, only its own poll removes an Enter (keyboard_isr switches
\* the driver off, keyboard_state_activate comes after the poll).
THEOREM EnterSurvivesHolds == Spec => EnterSurvives
  <1> DEFINE Kept(s) == Alone(s) /\ keyboard_input = "enter" /\ keyboard_input' # "enter"
                            => taken' = stamp /\ shell'[s].pc = "run"
  <1>1. ASSUME TerminalInv, [Next]_vars, NEW s \in Shells PROVE Kept(s)
    <2> SUFFICES ASSUME Alone(s), keyboard_input = "enter", keyboard_input' # "enter"
                 PROVE  taken' = stamp /\ shell'[s].pc = "run"
      OBVIOUS
    <2>0. ~keyboard_input_on /\ shell[s].pc = "read" /\ shell[s] \in States
      BY <1>1 DEF TerminalInv, OpenBeforeEnter, Handed, NUL
    <2>1. ~ \E key \in Keys : keyboard_isr(key)
      BY <2>0 DEF keyboard_isr, driver
    <2>2. ~ UNCHANGED vars
      BY DEF vars, driver
    <2>3. PICK t \in Shells : Step(t)
      BY <1>1, <2>1, <2>2 DEF Next, Silence, Boot, driver
    <2>4. keyboard_state_activate(t) \/ get_input(t)
      BY <2>3 DEF Step, PrintPrompt, Command, Run, Spin, exec, kill, driver
    <2>5. t = s
      BY <2>4 DEF Alone, keyboard_state_activate, get_input
    <2>6. get_input(s)
      BY <2>0, <2>4, <2>5 DEF keyboard_state_activate
    <2> QED
      BY <1>1, <2>0, <2>6 DEF get_input, LineComplete, TerminalInv, States, NUL
  <1>2. TerminalInv /\ [Next]_vars => [\A s \in Shells : Kept(s)]_vars
    BY <1>1
  <1> QED
    BY <1>2, TerminalCorrect, PTL DEF Spec, EnterSurvives

=============================================================================
