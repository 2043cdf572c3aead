-------------------------------- MODULE Clock --------------------------------
(***************************************************************************)
(* The clock in the corner of the screen (src/src/clock.c, cmos.c).        *)
(*                                                                         *)
(* The clock program asks the kernel, over and over, to print the time.    *)
(* read_rtc reads six registers of the real-time clock one after the other *)
(* while the device runs, and accepts a reading when two in a row agree.   *)
(* Interrupts are off meanwhile, so the only other actor is the device.    *)
(*                                                                         *)
(* The device is external: it raises its flag, rewrites the registers that *)
(* change, one by one and in any order, and lowers the flag.               *)
(***************************************************************************)
EXTENDS Naturals, Sequences

CONSTANTS Starts,      \* times at which the device may be when the program starts
          Modes,       \* what register B may say: [bcd : BOOLEAN, twelve : BOOLEAN]
          MaxTicks     \* bound on the updates of the device

CURRENT_YEAR == 2024
LastYear     == 2123   \* bound: the last year two digits can name to this kernel
Fields       == {"second", "minute", "hour", "day", "month", "year"}

DaysIn(t) ==
    CASE t.month = 2               -> IF t.year % 4 = 0 THEN 29 ELSE 28
      [] t.month \in {4, 6, 9, 11} -> 30
      [] OTHER                     -> 31

ASSUME ClockAssumption ==
    /\ MaxTicks \in Nat
    /\ Modes \subseteq [bcd : BOOLEAN, twelve : BOOLEAN]
    /\ Starts \subseteq [second : 0..59, minute : 0..59, hour : 0..23,
                         day : 1..31, month : 1..12, year : CURRENT_YEAR..LastYear]
    /\ \A t \in Starts : t.day <= DaysIn(t)

VARIABLES time,     \* what the device means to say
          rtc,      \* its registers
          updating, \* the update-in-progress flag
          pending,  \* registers the update still has to rewrite
          mode,     \* register B
          ticks,    \* number of updates begun
          pc,       \* where print_current_time is
          left,     \* registers this reading still has to read
          now,      \* second, minute, hour, day, month and year of cmos.c
          last,     \* last_second ... last_year
          first,    \* this reading is the one before the loop
          beyond,   \* the byte behind the buffer of itoa is not zero
          screen,   \* the cells in the corner
          instants  \* history: the times that held, in order, since the call began

device  == <<time, rtc, updating, pending, mode, ticks>>
program == <<pc, left, now, last, first, beyond, screen>>
vars    == <<device, program, instants>>

-----------------------------------------------------------------------------
(* The device.                                                              *)

BCD(v) == (v \div 10) * 16 + (v % 10)
Coded(m, v) == IF m.bcd THEN BCD(v) ELSE v

\* In twelve-hour mode midnight and noon are 12 and bit 7 marks the afternoon.
HourRegister(m, h) ==
    IF m.twelve
    THEN Coded(m, IF h % 12 = 0 THEN 12 ELSE h % 12) + (IF h < 12 THEN 0 ELSE 128)
    ELSE Coded(m, h)

Registers(m, t) ==
    [f \in Fields |-> CASE f = "hour" -> HourRegister(m, t.hour)
                        [] f = "year" -> Coded(m, t.year % 100)
                        [] OTHER      -> Coded(m, t[f])]

\* The time one second later: a field moves on when all below it start again.
Later(t) ==
    LET minute == t.second = 59
        hour   == minute /\ t.minute = 59
        day    == hour /\ t.hour = 23
        month  == day /\ t.day = DaysIn(t)
        year   == month /\ t.month = 12
    IN  [second |-> IF minute THEN 0 ELSE t.second + 1,
         minute |-> IF hour THEN 0 ELSE IF minute THEN t.minute + 1 ELSE t.minute,
         hour   |-> IF day THEN 0 ELSE IF hour THEN t.hour + 1 ELSE t.hour,
         day    |-> IF month THEN 1 ELSE IF day THEN t.day + 1 ELSE t.day,
         month  |-> IF year THEN 1 ELSE IF month THEN t.month + 1 ELSE t.month,
         year   |-> IF year THEN t.year + 1 ELSE t.year]

BeginUpdate ==
    /\ ~updating
    /\ ticks < MaxTicks /\ Later(time).year <= LastYear
    /\ updating' = TRUE
    /\ time' = Later(time)
    /\ pending' = {f \in Fields : Registers(mode, Later(time))[f] # rtc[f]}
    /\ ticks' = ticks + 1
    /\ instants' = Append(instants, Later(time))
    /\ UNCHANGED <<rtc, mode, program>>

UpdateRegister(f) ==
    /\ f \in pending
    /\ rtc' = [rtc EXCEPT ![f] = Registers(mode, time)[f]]
    /\ pending' = pending \ {f}
    /\ UNCHANGED <<time, updating, mode, ticks, program, instants>>

EndUpdate ==
    /\ updating /\ pending = {}
    /\ updating' = FALSE
    /\ UNCHANGED <<time, rtc, pending, mode, ticks, program, instants>>

-----------------------------------------------------------------------------
(* read_rtc.                                                                *)

ReadingOrder == <<"second", "minute", "hour", "day", "month", "year">>

Zeros == [f \in Fields |-> 0]

\* System call 15, from the clock program's loop or a shell's clock command.
print_current_time ==
    /\ pc = "idle"
    /\ pc' = "wait"
    /\ left' = ReadingOrder
    /\ first' = TRUE
    /\ instants' = <<time>>
    /\ UNCHANGED <<device, now, last, beyond, screen>>

SlipMayRead == updating

\* get_update_in_progress_flag is clear: the wait ends.
MayRead == ~updating

Wait ==
    /\ pc = "wait"
    /\ MayRead
    /\ pc' = "read"
    /\ UNCHANGED <<device, left, now, last, first, beyond, screen, instants>>

get_RTC_register ==
    /\ pc = "read" /\ left # <<>>
    /\ now' = [now EXCEPT ![Head(left)] = rtc[Head(left)]]
    /\ left' = Tail(left)
    /\ UNCHANGED <<device, pc, last, first, beyond, screen, instants>>

SlipAgree == now.second = last.second

\* The loop's condition.  century is never read (century_register is 0), and the
\* two copies of it compare equal.
Agree == now = last

\* The end of a reading: another one follows unless it agrees with the one before.
ReadAgain ==
    /\ pc = "read" /\ left = <<>>
    /\ first \/ ~Agree
    /\ pc' = "wait"
    /\ left' = ReadingOrder
    /\ last' = now
    /\ first' = FALSE
    /\ UNCHANGED <<device, now, beyond, screen, instants>>

\* (v & 0x0F) + (v / 16) * 10
Binary(v) == (v % 16) + (v \div 16) * 10

\* The afternoon's bit is kept aside.
Afternoon(h) == h >= 128

Hour(m, h) ==
    LET value == IF m.bcd THEN Binary(h % 128) ELSE h % 128
    IN  IF ~m.twelve /\ Afternoon(h) THEN value + 128
        ELSE IF Afternoon(h) THEN (value + 12) % 24 ELSE value

\* The full year, for a device without a century register.
Year(y) ==
    LET full == y + (CURRENT_YEAR \div 100) * 100
    IN  IF full < CURRENT_YEAR THEN full + 100 ELSE full

Converted(m, r) ==
    [f \in Fields |->
        LET v == IF m.bcd THEN Binary(r[f]) ELSE r[f]
        IN  CASE f = "hour" -> Hour(m, r.hour)
              [] f = "year" -> Year(v)
              [] OTHER      -> v]

-----------------------------------------------------------------------------
(* The corner of the screen.                                                *)

Junk == 10   \* not a digit

\* The two cells of a number below 100.  itoa(0) is the empty string at the end of
\* its buffer, so the second cell shows the byte behind the buffer.
Digits(v) ==
    IF v = 0 THEN <<0, IF beyond THEN Junk ELSE 0>> ELSE <<v \div 10, v % 10>>

Shown(t) == <<Digits((t.hour + 7) % 24), Digits(t.minute), Digits(t.second)>>

\* Two readings agree: they are converted and printed.
Display ==
    /\ pc = "read" /\ left = <<>>
    /\ ~first /\ Agree
    /\ now' = Converted(mode, now)
    /\ screen' = Shown(Converted(mode, now))
    /\ pc' = "idle"
    /\ UNCHANGED <<device, left, last, first, beyond, instants>>

Init ==
    /\ time \in Starts
    /\ mode \in Modes
    /\ rtc = Registers(mode, time)
    /\ updating = FALSE
    /\ pending = {}
    /\ ticks = 0
    /\ pc = "idle"
    /\ left = <<>>
    /\ now = Zeros /\ last = Zeros
    /\ first = TRUE
    /\ beyond \in BOOLEAN
    /\ screen = <<>>
    /\ instants = <<time>>

Kernel == print_current_time \/ Wait \/ get_RTC_register \/ ReadAgain \/ Display

Device == BeginUpdate \/ (\E f \in Fields : UpdateRegister(f)) \/ EndUpdate

Next == Kernel \/ Device

\* The program runs (ReadyRuns of Process), and an update of the device ends.
Spec == Init /\ [][Next]_vars /\ WF_vars(Kernel)
             /\ WF_vars((\E f \in Fields : UpdateRegister(f)) \/ EndUpdate)

-----------------------------------------------------------------------------
(* Properties.                                                              *)

\* The one case the conversion gets wrong: in twelve-hour mode it leaves a morning's
\* 12 as it is and makes 0 of an afternoon's, so the hours after midnight and after
\* noon change places (TwelveHourConverted).
Swapped(t) == mode.twelve /\ t.hour % 12 = 0

\* The fields n are those of the moment t.
IsMoment(n, t) == \A f \in Fields : n[f] = t[f] \/ (f = "hour" /\ Swapped(t))

\* Two cells show the number v, unless it is zero and itoa lets a foreign byte in.
ShowsNumber(cells, v) == cells = <<v \div 10, v % 10>> \/ (v = 0 /\ beyond)

\* The corner c shows the moment t in the time of Western Indonesia.
ShowsMoment(c, t) ==
    /\ Swapped(t) \/ ShowsNumber(c[1], (t.hour + 7) % 24)
    /\ ShowsNumber(c[2], t.minute)
    /\ ShowsNumber(c[3], t.second)

\* The call has not seen a second twice: later than that, two readings may agree
\* and both be torn.
WithinAMinute == Len(instants) <= 60

\* No torn time is ever shown: when read_rtc accepts a reading within a minute, what
\* it leaves in second ... year and what is printed are those of one moment since
\* the call began, however the updates of the device fall between the reads of its
\* registers (the two-reading loop of cmos.c:49-71 and the conversions after it).
\* The hours after noon and after midnight in twelve-hour mode are left out.
ShowsOneMoment ==
    [][Display /\ WithinAMinute =>
        \E i \in 1..Len(instants) :
            IsMoment(now', instants[i]) /\ ShowsMoment(screen', instants[i])]_vars

\* The clock catches up: once the device rests, the corner comes to show its time.
\* In particular neither wait of read_rtc, nor its loop, holds the kernel for ever
\* with interrupts off.
CatchesUp == ticks = MaxTicks ~> screen # <<>> /\ ShowsMoment(screen, time)

\* "Convert 12 hour clock to 24 hour clock" (cmos.c:89): the hour read_rtc leaves is
\* the hour, counted from 0 to 23, of some moment since the call began.
TwelveHourConverted ==
    [][Display /\ WithinAMinute =>
        \E i \in 1..Len(instants) : now'.hour = instants[i].hour]_vars
=============================================================================
