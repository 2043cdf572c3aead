---------------------------- MODULE ClockProofs ----------------------------
(***************************************************************************)
(* Proofs about the clock: whatever the device's format, whenever it       *)
(* updates and however often, a reading that read_rtc accepts within a     *)
(* minute is the time of one moment, rightly converted.                    *)
(*                                                                         *)
(* The argument numbers the moments of a call.  A reading begins with the  *)
(* flag low, at moment w, so it reads each register as it was at w or      *)
(* later, and the reading before it read each as it was at w or earlier.   *)
(* Within a minute the seconds tell the moments apart, so two readings     *)
(* that agree both took the seconds of w.  The first of them can then have *)
(* met at most the update to w itself, half done.                          *)
(***************************************************************************)
EXTENDS Clock, TLAPS

Times == {t \in [second : 0..59, minute : 0..59, hour : 0..23,
                 day : 1..31, month : 1..12, year : CURRENT_YEAR..LastYear] :
            t.day <= DaysIn(t)}

Formats == [bcd : BOOLEAN, twelve : BOOLEAN]

\* The register f as it is at moment i.
Val(m, inst, i, f) == Registers(m, inst[i])[f]

\* Two times of the same minute.
SameMinute(t, u) ==
    /\ t.minute = u.minute /\ t.hour = u.hour
    /\ t.day = u.day /\ t.month = u.month /\ t.year = u.year

\* The moments follow one another by a second.
Ordered(inst) ==
    /\ \A i \in 1..Len(inst), j \in 1..Len(inst) :
        i <= j => inst[j].second = (inst[i].second + (j - i)) % 60
    /\ \A i \in 1..Len(inst), j \in 1..Len(inst) :
        i <= j /\ (\A k \in (i + 1)..j : inst[k].second # 0) => SameMinute(inst[i], inst[j])

\* The registers in done were read between the moments lo and hi: the seconds as
\* they were at moment j, the others, which are read later, at most one moment before.
ReadBetween(m, inst, lo, hi, r, done) ==
    \E j \in lo..hi :
        /\ r["second"] = Val(m, inst, j, "second")
        /\ \A f \in done \ {"second"} :
            \E i \in lo..hi : i + 1 >= j /\ r[f] = Val(m, inst, i, f)

Unread(q) == {q[i] : i \in 1..Len(q)}

Moment == Len(instants)

\* The last reading is over, and was over at moment w.
LastRead(w) == ~first => ReadBetween(mode, instants, 1, w, last, Fields)

\* Registers an update has still to rewrite are those of the moment before, and that
\* moment is not before w.
OneBehind(w) ==
    \A f \in pending : Moment > w /\ rtc[f] = Val(mode, instants, Moment - 1, f)

\* This reading began at moment w.
NowRead(w) ==
    left # ReadingOrder =>
        ReadBetween(mode, instants, w, Moment, now, Fields \ Unread(left))

ClockTypes ==
    /\ mode \in Formats
    /\ time \in Times
    /\ rtc \in [Fields -> Nat] /\ now \in [Fields -> Nat] /\ last \in [Fields -> Nat]
    /\ updating \in BOOLEAN /\ first \in BOOLEAN
    /\ pending \subseteq Fields
    /\ pc \in {"idle", "wait", "read"}
    /\ left = ReadingOrder \/ left \in Seq(Fields \ {"second"})
    /\ instants \in Seq(Times) /\ Moment >= 1

Running ==
    /\ instants[Moment] = time
    /\ Ordered(instants)
    /\ \A f \in Fields \ pending : rtc[f] = Val(mode, instants, Moment, f)
    /\ ~updating => pending = {}

Reading ==
    /\ pc = "wait" => left = ReadingOrder
    /\ pc = "wait" /\ ~first => LastRead(Moment)
    /\ pc = "read" => \E w \in 1..Moment : OneBehind(w) /\ NowRead(w) /\ LastRead(w)

ClockInv == ClockTypes /\ Running /\ Reading

-----------------------------------------------------------------------------
(* The device's numbers and the kernel's.                                   *)

\* Reading back a number in binary-coded decimal (cmos.c:78).
LEMMA BinaryOfBCD == \A v \in 0..99 : BCD(v) \in Nat /\ Binary(BCD(v)) = v
  <1> SUFFICES ASSUME NEW v \in 0..99 PROVE BCD(v) \in Nat /\ Binary(BCD(v)) = v
    OBVIOUS
  <1> DEFINE a == v \div 10
             b == v % 10
  <1>1. a \in 0..9 /\ b \in 0..9 /\ v = a * 10 + b
    BY Z3
  <1>2. BCD(v) = a * 16 + b
    BY DEF BCD
  <1> HIDE DEF a, b
  <1>3. (a * 16 + b) % 16 = b /\ (a * 16 + b) \div 16 = a
    BY <1>1, Z3
  <1> QED
    BY <1>1, <1>2, <1>3 DEF Binary

\* The same in either format.
LEMMA CodedInjective ==
    ASSUME NEW m \in Formats, NEW v \in 0..99, NEW w \in 0..99, Coded(m, v) = Coded(m, w)
    PROVE  v = w
  BY BinaryOfBCD DEF Coded

\* The hour, in each of the four formats; twelve-hour mode changes the places of the
\* hours after noon and after midnight (cmos.c:80-92).
LEMMA HourConverted ==
    ASSUME NEW m \in Formats, NEW h \in 0..23
    PROVE  /\ HourRegister(m, h) \in Nat
           /\ Hour(m, HourRegister(m, h)) = IF m.twelve /\ h % 12 = 0 THEN (h + 12) % 24 ELSE h
  <1> DEFINE twelfth == IF h % 12 = 0 THEN 12 ELSE h % 12
  <1>1. CASE ~m.twelve
    <2>1. Coded(m, h) \in 0..99 /\ (IF m.bcd THEN Binary(Coded(m, h)) ELSE Coded(m, h)) = h
      <3>1. BCD(h) \in 0..99
        BY Z3 DEF BCD
      <3> QED
        BY <3>1, BinaryOfBCD DEF Coded, Formats
    <2>2. HourRegister(m, h) = Coded(m, h)
      BY <1>1 DEF HourRegister
    <2>3. \A c \in 0..99 : c % 128 = c /\ ~Afternoon(c)
      BY Z3 DEF Afternoon
    <2> QED
      BY <1>1, <2>1, <2>2, <2>3 DEF Hour
  <1>2. CASE m.twelve
    <2>1. twelfth \in 1..12
      BY Z3
    <2> DEFINE c == Coded(m, twelfth)
    <2> HIDE DEF twelfth
    <2>2. c \in 0..99 /\ (IF m.bcd THEN Binary(c) ELSE c) = twelfth
      <3>1. BCD(twelfth) \in 0..99
        BY <2>1, Z3 DEF BCD
      <3> QED
        BY <2>1, <3>1, BinaryOfBCD DEF Coded, Formats
    <2>3. HourRegister(m, h) = c + (IF h < 12 THEN 0 ELSE 128)
      BY <1>2 DEF HourRegister, twelfth
    <2> HIDE DEF c
    <2>4. c % 128 = c /\ (c + 128) % 128 = c /\ ~Afternoon(c) /\ Afternoon(c + 128)
      BY <2>2, Z3 DEF Afternoon
    <2>5. Hour(m, HourRegister(m, h)) = IF h < 12 THEN twelfth ELSE (twelfth + 12) % 24
      <3>1. CASE h < 12
        BY <1>2, <2>2, <2>3, <2>4, <3>1 DEF Hour
      <3>2. CASE h >= 12
        BY <1>2, <2>2, <2>3, <2>4, <3>2 DEF Hour
      <3> QED
        BY <3>1, <3>2
    <2>6. (IF h < 12 THEN twelfth ELSE (twelfth + 12) % 24)
            = IF h % 12 = 0 THEN (h + 12) % 24 ELSE h
      BY Z3 DEF twelfth
    <2>7. HourRegister(m, h) \in Nat
      BY <2>2, <2>3
    <2> QED
      BY <1>2, <2>5, <2>6, <2>7
  <1> QED
    BY <1>1, <1>2

\* The year, from its last two digits (cmos.c:94-100).
LEMMA YearConverted == \A y \in CURRENT_YEAR..LastYear : y % 100 \in 0..99 /\ Year(y % 100) = y
  BY Z3 DEF Year, CURRENT_YEAR, LastYear

\* The registers of a time, one by one.
LEMMA RegistersAre ==
    ASSUME NEW m, NEW t
    PROVE  /\ Registers(m, t)["second"] = Coded(m, t.second)
           /\ Registers(m, t)["minute"] = Coded(m, t.minute)
           /\ Registers(m, t)["hour"] = HourRegister(m, t.hour)
           /\ Registers(m, t)["day"] = Coded(m, t.day)
           /\ Registers(m, t)["month"] = Coded(m, t.month)
           /\ Registers(m, t)["year"] = Coded(m, t.year % 100)
  BY DEF Registers, Fields

\* What is in the registers is a number.
LEMMA RegistersType ==
    ASSUME NEW m \in Formats, NEW t \in Times
    PROVE  Registers(m, t) \in [Fields -> Nat]
  <1>1. \A v \in 0..99 : Coded(m, v) \in Nat
    BY BinaryOfBCD DEF Coded
  <1>2. /\ t.second \in 0..99 /\ t.minute \in 0..99 /\ t.hour \in 0..23
        /\ t.day \in 0..99 /\ t.month \in 0..99 /\ t.year % 100 \in 0..99
    BY YearConverted DEF Times
  <1>3. \A f \in Fields : Registers(m, t)[f] \in Nat
    BY <1>1, <1>2, HourConverted, RegistersAre DEF Fields
  <1> QED
    BY <1>3 DEF Registers

\* What read_rtc's conversions make of a moment.
Told(t) == IF Swapped(t) THEN [t EXCEPT !.hour = (t.hour + 12) % 24] ELSE t

\* read_rtc's conversions undo the device's, but for the hours after noon and after
\* midnight in twelve-hour mode.
LEMMA ConvertedIsTold ==
    ASSUME mode \in Formats, NEW t \in Times
    PROVE  Converted(mode, Registers(mode, t)) = Told(t)
  <1> DEFINE r == Registers(mode, t)
             c == Converted(mode, r)
  <1>0. /\ t.second \in 0..99 /\ t.minute \in 0..99 /\ t.hour \in 0..23
        /\ t.day \in 0..99 /\ t.month \in 0..99 /\ t.year \in CURRENT_YEAR..LastYear
        /\ t = [second |-> t.second, minute |-> t.minute, hour |-> t.hour,
                day |-> t.day, month |-> t.month, year |-> t.year]
    BY DEF Times
  <1>1. \A v \in 0..99 : (IF mode.bcd THEN Binary(Coded(mode, v)) ELSE Coded(mode, v)) = v
    BY BinaryOfBCD DEF Coded
  <1>2. /\ c["second"] = IF mode.bcd THEN Binary(r["second"]) ELSE r["second"]
        /\ c["minute"] = IF mode.bcd THEN Binary(r["minute"]) ELSE r["minute"]
        /\ c["hour"] = Hour(mode, r["hour"])
        /\ c["day"] = IF mode.bcd THEN Binary(r["day"]) ELSE r["day"]
        /\ c["month"] = IF mode.bcd THEN Binary(r["month"]) ELSE r["month"]
        /\ c["year"] = Year(IF mode.bcd THEN Binary(r["year"]) ELSE r["year"])
        /\ c = [f \in Fields |-> c[f]]
    BY DEF Converted, Fields
  <1> HIDE DEF c
  <1>3. /\ c["second"] = t.second /\ c["minute"] = t.minute
        /\ c["day"] = t.day /\ c["month"] = t.month
    BY <1>0, <1>1, <1>2, RegistersAre
  <1>4. c["year"] = t.year
    <2>1. t.year % 100 \in 0..99 /\ Year(t.year % 100) = t.year
      BY <1>0, YearConverted
    <2>2. (IF mode.bcd THEN Binary(Coded(mode, t.year % 100)) ELSE Coded(mode, t.year % 100))
            = t.year % 100
      BY <1>1, <2>1
    <2> QED
      BY <1>2, <2>1, <2>2, RegistersAre
  <1>5. c["hour"] = IF mode.twelve /\ t.hour % 12 = 0 THEN (t.hour + 12) % 24 ELSE t.hour
    BY <1>0, <1>2, HourConverted, RegistersAre
  <1>6. \A f \in Fields : c[f] = Told(t)[f]
    BY <1>0, <1>3, <1>4, <1>5 DEF Told, Swapped, Fields
  <1>7. Told(t) = [f \in Fields |-> Told(t)[f]]
    BY <1>0 DEF Told, Fields
  <1> QED
    BY <1>2, <1>6, <1>7 DEF c

\* A moment so converted is that moment, and so is what the corner shows of it.
LEMMA ToldIsMoment ==
    ASSUME mode \in Formats, NEW t \in Times
    PROVE  IsMoment(Told(t), t) /\ ShowsMoment(Shown(Told(t)), t)
  <1>0. /\ t.second \in 0..59 /\ t.minute \in 0..59 /\ t.hour \in 0..23
        /\ t = [second |-> t.second, minute |-> t.minute, hour |-> t.hour,
                day |-> t.day, month |-> t.month, year |-> t.year]
    BY DEF Times
  <1>1. /\ \A f \in Fields : f # "hour" => Told(t)[f] = t[f]
        /\ ~Swapped(t) => Told(t) = t
    BY <1>0 DEF Told, Fields
  <1>2. \A v \in Nat : ShowsNumber(Digits(v), v)
    BY DEF ShowsNumber, Digits
  <1>3. /\ Shown(Told(t))[1] = Digits((Told(t).hour + 7) % 24)
        /\ Shown(Told(t))[2] = Digits(t.minute)
        /\ Shown(Told(t))[3] = Digits(t.second)
    BY <1>1 DEF Shown, Fields
  <1>4. (t.hour + 7) % 24 \in Nat
    BY <1>0
  <1>5. ShowsMoment(Shown(Told(t)), t)
    BY <1>0, <1>1, <1>2, <1>3, <1>4 DEF ShowsMoment
  <1> QED
    BY <1>1, <1>5 DEF IsMoment

\* A second later: only a new minute changes more than the seconds.
LEMMA LaterIs ==
    ASSUME NEW t \in Times
    PROVE  /\ Later(t).second = (t.second + 1) % 60
           /\ Later(t).second # 0 => SameMinute(t, Later(t))
           /\ Later(t).year <= LastYear => Later(t) \in Times
  <1>0. /\ t.second \in 0..59 /\ t.minute \in 0..59 /\ t.hour \in 0..23
        /\ t.day \in 1..31 /\ t.month \in 1..12 /\ t.year \in CURRENT_YEAR..LastYear
        /\ t.day <= DaysIn(t)
    BY DEF Times
  <1>1. Later(t).second = IF t.second = 59 THEN 0 ELSE t.second + 1
    BY DEF Later
  <1>2. Later(t).second = (t.second + 1) % 60
    BY <1>0, <1>1, Z3
  <1>3. Later(t).second # 0 => SameMinute(t, Later(t))
    BY <1>0, <1>1 DEF Later, SameMinute
  <1>4. ASSUME Later(t).year <= LastYear PROVE Later(t) \in Times
    <2> DEFINE u == Later(t)
    <2>1. \A x : DaysIn(x) \in {28, 29, 30, 31}
      BY DEF DaysIn
    <2>2. /\ u.second \in 0..59 /\ u.minute \in 0..59 /\ u.hour \in 0..23
          /\ u.month \in 1..12 /\ u.year \in CURRENT_YEAR..LastYear
      BY <1>0, <1>4, SMT DEF Later, CURRENT_YEAR, LastYear
    <2>3. \/ u.day = 1
          \/ u.day = t.day + 1 /\ t.day # DaysIn(t) /\ u.month = t.month /\ u.year = t.year
          \/ u.day = t.day /\ u.month = t.month /\ u.year = t.year
      BY DEF Later
    <2>4. u.month = t.month /\ u.year = t.year => DaysIn(u) = DaysIn(t)
      BY DEF DaysIn
    <2>5. u.day \in 1..31 /\ u.day <= DaysIn(u)
      BY <1>0, <2>1, <2>3, <2>4
    <2>6. u = [second |-> u.second, minute |-> u.minute, hour |-> u.hour,
               day |-> u.day, month |-> u.month, year |-> u.year]
      BY DEF Later
    <2> HIDE DEF u
    <2>7. u \in Times
      BY <2>2, <2>5, <2>6 DEF Times
    <2> QED
      BY <2>7 DEF u
  <1> QED
    BY <1>2, <1>3, <1>4

\* Two times of one minute differ in the seconds' register only.
LEMMA SameMinuteSame ==
    ASSUME NEW m, NEW t, NEW u, SameMinute(t, u), NEW f \in Fields \ {"second"}
    PROVE  Registers(m, t)[f] = Registers(m, u)[f]
  BY RegistersAre DEF SameMinute, Fields

-----------------------------------------------------------------------------
(* The moments of a call.                                                   *)

\* The seconds of a moment.
LEMMA SecondType ==
    ASSUME NEW inst \in Seq(Times), NEW i \in 1..Len(inst)
    PROVE  inst[i] \in Times /\ inst[i].second \in 0..59
  <1>1. inst[i] \in Times
    OBVIOUS
  <1>2. \A t \in Times : t.second \in 0..59
    BY DEF Times
  <1> QED
    BY <1>1, <1>2

\* Within a minute the seconds tell the moments apart.
LEMMA SecondsTell ==
    ASSUME NEW m \in Formats, NEW inst \in Seq(Times), Ordered(inst), Len(inst) <= 60,
           NEW i \in 1..Len(inst), NEW j \in 1..Len(inst),
           Val(m, inst, i, "second") = Val(m, inst, j, "second")
    PROVE  i = j
  <1>1. inst[i].second \in 0..59 /\ inst[j].second \in 0..59
    BY SMTT(30), SecondType
  <1>2. inst[i].second = inst[j].second
    <2>1. Coded(m, inst[i].second) = Coded(m, inst[j].second)
      BY RegistersAre DEF Val
    <2>2. inst[i].second \in 0..99 /\ inst[j].second \in 0..99
      BY <1>1
    <2> QED
      BY <2>1, <2>2, CodedInjective
  <1>3. \A a \in 0..59, d \in 0..59 : (a + d) % 60 = a => d = 0
    BY Z3
  <1>4. ASSUME NEW a \in 1..Len(inst), NEW b \in 1..Len(inst), a <= b, inst[a].second = inst[b].second
        PROVE  a = b
    <2>1. inst[b].second = (inst[a].second + (b - a)) % 60
      BY <1>4 DEF Ordered
    <2>2. b - a \in 0..59 /\ inst[a].second \in 0..59
      <3>1. inst[a].second \in 0..59
        BY SecondType
      <3>2. /\ Len(inst) \in Nat /\ a \in Nat /\ b \in Nat
            /\ 1 <= a /\ a <= b /\ b <= Len(inst) /\ Len(inst) <= 60
        BY <1>4
      <3>3. b - a \in 0..59
        BY ONLY <3>2
      <3> QED
        BY <3>1, <3>3
    <2>3. b - a = 0
      BY <1>3, <1>4, <2>1, <2>2
    <2> QED
      BY <1>4, <2>3
  <1> QED
    BY <1>2, <1>4

\* The moments stay ordered when one more is added.
LEMMA OrderedNext ==
    ASSUME NEW inst \in Seq(Times), Len(inst) >= 1, Ordered(inst)
    PROVE  Ordered(Append(inst, Later(inst[Len(inst)])))
  <1> DEFINE n == Len(inst)
             t == inst[n]
             more == Append(inst, Later(t))
  <1>0. n \in Nat /\ n >= 1 /\ t \in Times
    OBVIOUS
  <1>1. Len(more) = n + 1 /\ more[n + 1] = Later(t) /\ \A i \in 1..n : more[i] = inst[i]
    OBVIOUS
  <1>2. Later(t).second = (t.second + 1) % 60 /\ (Later(t).second # 0 => SameMinute(t, Later(t)))
    BY <1>0, LaterIs
  <1>i. \A i \in 1..n, j \in 1..n : i <= j => inst[j].second = (inst[i].second + (j - i)) % 60
    BY DEF Ordered
  <1>s. \A i \in 1..n : inst[i].second \in 0..59
    BY SecondType
  <1> HIDE DEF more, n
  <1>3. ASSUME NEW i \in 1..(n + 1), NEW j \in 1..(n + 1), i <= j
        PROVE  more[j].second = (more[i].second + (j - i)) % 60
    <2>1. CASE j \in 1..n
      <3>1. i \in 1..n
        BY <1>0, <1>3, <2>1
      <3> QED
        BY <1>1, <1>3, <1>i, <2>1, <3>1
    <2>2. CASE j = n + 1 /\ i = n + 1
      <3>1. Later(t).second \in 0..59
        <4>1. t.second \in 0..59
          BY <1>0, <1>s
        <4>2. \A a \in 0..59 : (a + 1) % 60 \in 0..59
          BY Z3
        <4> QED
          BY <1>2, <4>1, <4>2
      <3>2. (Later(t).second + (j - i)) % 60 = Later(t).second
        <4>1. \A a \in 0..59 : (a + 0) % 60 = a
          BY Z3
        <4>2. j - i = 0
          BY <1>0, <2>2
        <4> QED
          BY <3>1, <4>1, <4>2
      <3> QED
        BY <1>0, <1>1, <2>2, <3>2
    <2>3. CASE j = n + 1 /\ i \in 1..n
      <3>1. t.second = (inst[i].second + (n - i)) % 60 /\ inst[i].second \in 0..59
        BY <1>0, <1>i, <1>s, <2>3
      <3>2. \A a \in Nat : ((a % 60) + 1) % 60 = (a + 1) % 60
        BY Z3
      <3>3. /\ inst[i].second + (n - i) \in Nat
            /\ (inst[i].second + (n - i)) + 1 = inst[i].second + (j - i)
        <4>1. \A a \in 0..59 : a + (n - i) \in Nat /\ (a + (n - i)) + 1 = a + (j - i)
          BY <1>0, <2>3
        <4> QED
          BY <3>1, <4>1
      <3>4. Later(t).second = (inst[i].second + (j - i)) % 60
        BY <1>2, <3>1, <3>2, <3>3
      <3> QED
        BY <1>1, <2>3, <3>4
    <2> QED
      BY <1>0, <1>3, <2>1, <2>2, <2>3
  <1>4. ASSUME NEW i \in 1..(n + 1), NEW j \in 1..(n + 1), i <= j,
               \A k \in (i + 1)..j : more[k].second # 0
        PROVE  SameMinute(more[i], more[j])
    <2>1. CASE j \in 1..n
      <3>1. i \in 1..n /\ \A k \in (i + 1)..j : k \in 1..n
        BY <1>0, <1>4, <2>1
      <3>2. \A k \in (i + 1)..j : inst[k].second # 0
        BY <1>1, <1>4, <3>1
      <3> QED
        BY <1>1, <1>4, <2>1, <3>1, <3>2 DEF Ordered, n
    <2>2. CASE i = n + 1 /\ j = n + 1
      BY <2>2 DEF SameMinute
    <2>3. CASE j = n + 1 /\ i \in 1..n
      <3>1. n \in 1..n /\ i <= n /\ \A k \in (i + 1)..n : k \in (i + 1)..j /\ k \in 1..n
        BY <1>0, <2>3
      <3>2. \A k \in (i + 1)..n : inst[k].second # 0
        BY <1>1, <1>4, <3>1
      <3>3. SameMinute(inst[i], t)
        BY <2>3, <3>1, <3>2 DEF Ordered, n
      <3>4. n + 1 \in (i + 1)..j
        BY <1>0, <2>3
      <3>5. SameMinute(t, Later(t))
        BY <1>1, <1>2, <1>4, <3>4
      <3> QED
        BY <1>1, <2>3, <3>3, <3>5 DEF SameMinute
    <2> QED
      BY <1>0, <1>4, <2>1, <2>2, <2>3
  <1>5. Ordered(more)
    BY <1>1, <1>3, <1>4 DEF Ordered
  <1> QED
    BY <1>5 DEF more, n

\* Two readings that agree, one over at moment w and one begun at it: both have the
\* registers of w.
LEMMA Agreement ==
    ASSUME NEW m \in Formats, NEW inst \in Seq(Times), Ordered(inst), Len(inst) <= 60,
           NEW w \in 1..Len(inst), NEW r,
           ReadBetween(m, inst, 1, w, r, Fields),
           ReadBetween(m, inst, w, Len(inst), r, Fields)
    PROVE  \A f \in Fields : r[f] = Val(m, inst, w, f)
  <1> DEFINE n == Len(inst)
  <1>0. n \in Nat /\ w \in 1..n
    OBVIOUS
  <1>1. PICK a \in 1..w :
            /\ r["second"] = Val(m, inst, a, "second")
            /\ \A f \in Fields \ {"second"} :
                \E i \in 1..w : i + 1 >= a /\ r[f] = Val(m, inst, i, f)
    BY DEF ReadBetween
  <1>2. PICK b \in w..n :
            /\ r["second"] = Val(m, inst, b, "second")
            /\ \A f \in Fields \ {"second"} :
                \E i \in w..n : i + 1 >= b /\ r[f] = Val(m, inst, i, f)
    BY DEF ReadBetween
  <1>3. a = b
    <2>1. a \in 1..Len(inst) /\ b \in 1..Len(inst)
      BY <1>0
    <2>2. Val(m, inst, a, "second") = Val(m, inst, b, "second")
      BY <1>1, <1>2
    <2> QED
      BY <2>1, <2>2, SecondsTell
  <1>4. a = w
    BY <1>0, <1>3
  <1> SUFFICES ASSUME NEW f \in Fields \ {"second"} PROVE r[f] = Val(m, inst, w, f)
    BY <1>1, <1>4
  <1>5. PICK i \in 1..w : i + 1 >= w /\ r[f] = Val(m, inst, i, f)
    BY <1>1, <1>4
  <1>6. PICK j \in w..n : r[f] = Val(m, inst, j, f)
    BY <1>2
  <1>7. CASE i = w
    BY <1>5, <1>7
  <1>8. CASE i + 1 = w /\ inst[w].second # 0
    <2>1. i \in 1..Len(inst) /\ i <= w /\ \A k \in (i + 1)..w : k = w
      BY <1>0, <1>8
    <2>2. SameMinute(inst[i], inst[w])
      BY <1>8, <2>1 DEF Ordered
    <2> QED
      BY <1>5, <2>2, SameMinuteSame DEF Val
  <1>9. CASE inst[w].second = 0
    <2>1. ASSUME NEW k \in (w + 1)..j PROVE inst[k].second # 0
      <3>1. k \in 1..Len(inst) /\ w <= k /\ k - w \in 1..59
        BY <1>0
      <3>2. inst[k].second = (0 + (k - w)) % 60
        BY <1>9, <3>1 DEF Ordered
      <3>3. \A d \in 1..59 : (0 + d) % 60 # 0
        BY Z3
      <3> QED
        BY <3>1, <3>2, <3>3
    <2>2. j \in 1..Len(inst) /\ w <= j
      BY <1>0
    <2>3. SameMinute(inst[w], inst[j])
      BY <2>1, <2>2 DEF Ordered
    <2> QED
      BY <1>6, <2>3, SameMinuteSame DEF Val
  <1> QED
    BY <1>0, <1>5, <1>7, <1>8, <1>9

-----------------------------------------------------------------------------
(* Readings.                                                                *)

\* A reading stays what it was when more moments follow, or less is asked of it.
LEMMA ReadKept ==
    ASSUME NEW m, NEW inst \in Seq(Times), NEW more \in Seq(Times),
           Len(inst) <= Len(more), \A i \in 1..Len(inst) : more[i] = inst[i],
           NEW lo \in Nat, NEW hi \in Nat, NEW lo2 \in Nat, NEW hi2 \in Nat,
           1 <= lo2, lo2 <= lo, hi <= hi2, hi <= Len(inst),
           NEW r, NEW done, ReadBetween(m, inst, lo, hi, r, done)
    PROVE  ReadBetween(m, more, lo2, hi2, r, done)
  <1>1. PICK j \in lo..hi :
            /\ r["second"] = Val(m, inst, j, "second")
            /\ \A f \in done \ {"second"} :
                \E i \in lo..hi : i + 1 >= j /\ r[f] = Val(m, inst, i, f)
    BY DEF ReadBetween
  <1>2. \A i \in lo..hi : i \in lo2..hi2 /\ i \in 1..Len(inst)
    OBVIOUS
  <1>3. \A i \in lo..hi : \A f : Val(m, more, i, f) = Val(m, inst, i, f)
    BY <1>2 DEF Val
  <1>4. \A f \in done \ {"second"} :
            \E i \in lo2..hi2 : i + 1 >= j /\ r[f] = Val(m, more, i, f)
    BY <1>1, <1>2, <1>3
  <1>5. j \in lo2..hi2 /\ r["second"] = Val(m, more, j, "second")
    BY <1>1, <1>2, <1>3
  <1> QED
    BY <1>4, <1>5 DEF ReadBetween

\* The same when one moment follows.
LEMMA ReadAppend ==
    ASSUME NEW m, NEW inst \in Seq(Times), NEW t \in Times,
           NEW lo \in Nat, NEW hi \in Nat, NEW hi2 \in Nat,
           1 <= lo, hi <= hi2, hi <= Len(inst),
           NEW r, NEW done, ReadBetween(m, inst, lo, hi, r, done)
    PROVE  ReadBetween(m, Append(inst, t), lo, hi2, r, done)
  <1> DEFINE more == Append(inst, t)
  <1>1. more \in Seq(Times) /\ Len(inst) <= Len(more) /\ \A i \in 1..Len(inst) : more[i] = inst[i]
    OBVIOUS
  <1> HIDE DEF more
  <1>2. ReadBetween(m, more, lo, hi2, r, done)
    BY <1>1, ReadKept
  <1> QED
    BY <1>2 DEF more

\* One more register is read.
LEMMA ReadMore ==
    ASSUME NEW m, NEW inst, NEW lo \in Nat, NEW hi \in Nat,
           NEW r \in [Fields -> Nat], NEW done, NEW g \in Fields \ {"second"}, NEW v \in Nat,
           ReadBetween(m, inst, lo, hi, r, done),
           NEW i \in lo..hi, i + 1 >= hi, v = Val(m, inst, i, g),
           NEW done2, done2 \subseteq done \cup {g}
    PROVE  ReadBetween(m, inst, lo, hi, [r EXCEPT ![g] = v], done2)
  <1> DEFINE q == [r EXCEPT ![g] = v]
  <1>1. PICK j \in lo..hi :
            /\ r["second"] = Val(m, inst, j, "second")
            /\ \A f \in done \ {"second"} :
                \E k \in lo..hi : k + 1 >= j /\ r[f] = Val(m, inst, k, f)
    BY DEF ReadBetween
  <1>2. q[g] = v /\ \A f \in Fields \ {g} : q[f] = r[f]
    OBVIOUS
  <1>3. \A f : f \notin Fields => q[f] = r[f]
    OBVIOUS
  <1>4. q["second"] = r["second"]
    BY <1>2 DEF Fields
  <1> HIDE DEF q
  <1>5. ASSUME NEW f \in done2 \ {"second"}
        PROVE  \E k \in lo..hi : k + 1 >= j /\ q[f] = Val(m, inst, k, f)
    <2>1. CASE f = g
      <3>1. i + 1 >= j
        OBVIOUS
      <3> QED
        BY <1>2, <2>1, <3>1
    <2>2. CASE f # g
      <3>1. f \in done \ {"second"} /\ q[f] = r[f]
        BY <1>2, <1>3, <2>2
      <3> QED
        BY <1>1, <3>1
    <2> QED
      BY <2>1, <2>2
  <1> QED
    BY <1>1, <1>4, <1>5 DEF ReadBetween, q

\* The registers a reading has still to read.
LEMMA UnreadTail ==
    ASSUME NEW S, NEW q \in Seq(S), q # <<>>
    PROVE  Unread(q) \subseteq Unread(Tail(q)) \cup {Head(q)}
  <1> SUFFICES ASSUME NEW i \in 1..Len(q), i # 1 PROVE q[i] \in Unread(Tail(q))
    BY DEF Unread
  <1>1. i - 1 \in 1..Len(Tail(q)) /\ Tail(q)[i - 1] = q[i]
    OBVIOUS
  <1> QED
    BY <1>1 DEF Unread

\* A reading starts with the seconds.
LEMMA FirstUnread ==
    /\ Head(ReadingOrder) = "second"
    /\ Tail(ReadingOrder) = <<"minute", "hour", "day", "month", "year">>
    /\ ReadingOrder # <<>>
    /\ Fields \ Unread(Tail(ReadingOrder)) \subseteq {"second"}
  <1> DEFINE q == <<"minute", "hour", "day", "month", "year">>
  <1>1. Tail(ReadingOrder) = q
    BY DEF ReadingOrder
  <1>2. q[1] = "minute" /\ q[2] = "hour" /\ q[3] = "day" /\ q[4] = "month" /\ q[5] = "year"
          /\ Len(q) = 5
    OBVIOUS
  <1> HIDE DEF q
  <1>3. {"minute", "hour", "day", "month", "year"} \subseteq Unread(q)
    BY <1>2 DEF Unread
  <1>4. Head(ReadingOrder) = "second" /\ ReadingOrder # <<>>
    BY DEF ReadingOrder
  <1> QED
    BY <1>1, <1>3, <1>4 DEF Fields, q

-----------------------------------------------------------------------------
(* The invariant.                                                           *)

\* The invariant holds when the program starts.
LEMMA ClockInit == Init => ClockInv
  <1> SUFFICES ASSUME Init PROVE ClockInv
    OBVIOUS
  <1>1. time \in Times /\ mode \in Formats
    BY ClockAssumption DEF Init, Times, Formats
  <1>2. instants \in Seq(Times) /\ Len(instants) = 1 /\ instants[1] = time
    BY <1>1 DEF Init
  <1>3. rtc \in [Fields -> Nat]
    BY <1>1, RegistersType DEF Init
  <1>4. ClockTypes
    <2>1. <<>> \in Seq(Fields \ {"second"})
      OBVIOUS
    <2>2. Zeros \in [Fields -> Nat]
      BY DEF Zeros
    <2> QED
      <3>1. now \in [Fields -> Nat] /\ last \in [Fields -> Nat]
        BY <2>2 DEF Init
      <3>2. updating \in BOOLEAN /\ first \in BOOLEAN /\ pending \subseteq Fields /\ pc = "idle"
        BY DEF Init
      <3>3. left \in Seq(Fields \ {"second"})
        BY <2>1 DEF Init
      <3>4. instants \in Seq(Times) /\ Moment >= 1
        BY <1>2 DEF Moment
      <3> QED
        BY <1>1, <1>3, <3>1, <3>2, <3>3, <3>4 DEF ClockTypes
  <1>5. Ordered(instants)
    <2>1. \A i \in 1..Len(instants) : i = 1
      BY <1>2
    <2>2. instants[1].second \in 0..59
      <3>1. 1 \in 1..Len(instants)
        BY <1>2
      <3> QED
        BY <1>2, <3>1, SecondType
    <2>3. \A a \in 0..59 : (a + (1 - 1)) % 60 = a
      BY Z3
    <2> QED
      BY <2>1, <2>2, <2>3 DEF Ordered, SameMinute
  <1>6. Running
    BY <1>2, <1>5 DEF Init, Running, Moment, Val
  <1>7. Reading
    BY DEF Init, Reading
  <1> QED
    BY <1>4, <1>6, <1>7 DEF ClockInv

\* A new moment begins.
LEMMA BeginUpdateKeeps ==
    ASSUME ClockInv, BeginUpdate
    PROVE  ClockInv'
  <1> DEFINE next == Later(time)
             n == Moment
  <1>0. /\ n \in Nat /\ n >= 1 /\ instants \in Seq(Times) /\ instants[n] = time
        /\ time \in Times /\ mode \in Formats /\ pending = {} /\ Len(instants) = n
    BY DEF ClockInv, ClockTypes, Running, Moment, BeginUpdate
  <1>1. next \in Times
    BY <1>0, LaterIs DEF BeginUpdate
  <1>2. /\ instants' = Append(instants, next) /\ instants' \in Seq(Times)
        /\ Len(instants') = n + 1 /\ Moment' = n + 1
        /\ instants'[n + 1] = next
        /\ \A i \in 1..n : instants'[i] = instants[i]
    BY <1>0, <1>1 DEF BeginUpdate, Moment
  <1>3. /\ UNCHANGED <<rtc, mode, pc, left, now, last, first>>
        /\ time' = next /\ updating' = TRUE
        /\ pending' = {f \in Fields : Registers(mode, next)[f] # rtc[f]}
    BY DEF BeginUpdate, program
  <1> HIDE DEF next, n
  <1>4. ClockTypes'
    BY <1>0, <1>1, <1>2, <1>3 DEF ClockInv, ClockTypes
  <1>5. Ordered(instants')
    BY <1>0, <1>2, OrderedNext DEF ClockInv, Running, next
  <1>6. Running'
    BY <1>0, <1>2, <1>3, <1>5 DEF Running, Val
  <1>7. ASSUME NEW w \in 1..n, LastRead(w) PROVE LastRead(w)'
    <2>1. w \in Nat /\ 1 \in Nat /\ w <= n
      BY <1>0
    <2>2. ASSUME ~first PROVE ReadBetween(mode, instants', 1, w, last, Fields)
      <3>1. ReadBetween(mode, instants, 1, w, last, Fields)
        BY <1>7, <2>2 DEF LastRead
      <3> QED
        BY <1>0, <1>1, <1>2, <2>1, <3>1, ReadAppend
    <2> QED
      BY <1>3, <2>2 DEF LastRead
  <1>8. ASSUME NEW w \in 1..n, NowRead(w) PROVE NowRead(w)'
    <2>1. w \in Nat /\ w >= 1 /\ n + 1 \in Nat
      BY <1>0
    <2>2. ASSUME left # ReadingOrder
          PROVE  ReadBetween(mode, instants', w, n + 1, now, Fields \ Unread(left))
      <3> DEFINE done == Fields \ Unread(left)
      <3>1. ReadBetween(mode, instants, w, n, now, done)
        BY <1>8, <2>2 DEF NowRead, n
      <3> HIDE DEF done
      <3>2. ReadBetween(mode, instants', w, n + 1, now, done)
        <4>1. PICK k \in Nat : k = n + 1
          BY <2>1
        <4>2. ReadBetween(mode, Append(instants, next), w, k, now, done)
          BY <1>0, <1>1, <2>1, <3>1, <4>1, ReadAppend
        <4> QED
          BY <1>2, <4>1, <4>2
      <3> QED
        BY <3>2 DEF done
    <2> QED
      BY <1>2, <1>3, <2>2 DEF NowRead
  <1>9. ASSUME NEW w \in 1..n PROVE OneBehind(w)'
    <2>1. (n + 1) - 1 = n /\ n + 1 > w
      BY <1>0
    <2>2. \A f \in Fields : rtc[f] = Val(mode, instants, n, f)
      BY <1>0 DEF ClockInv, Running, n
    <2>3. \A f : Val(mode, instants', n, f) = Val(mode, instants, n, f)
      BY <1>0, <1>2 DEF Val
    <2> QED
      BY <1>2, <1>3, <2>1, <2>2, <2>3 DEF OneBehind
  <1>10. Reading'
    <2>1. (pc = "wait" => left = ReadingOrder)'
      BY <1>3 DEF ClockInv, Reading
    <2>2. (pc = "wait" /\ ~first => LastRead(Moment))'
      <3> SUFFICES ASSUME pc = "wait", ~first PROVE LastRead(Moment)'
        BY <1>3
      <3>1. ReadBetween(mode, instants, 1, n, last, Fields)
        BY DEF ClockInv, Reading, LastRead, n
      <3>2. n + 1 \in Nat /\ 1 \in Nat /\ n <= n + 1
        BY <1>0
      <3>3. ReadBetween(mode, instants', 1, n + 1, last, Fields)
        <4>1. PICK k \in Nat : k = n + 1
          BY <3>2
        <4>2. ReadBetween(mode, Append(instants, next), 1, k, last, Fields)
          BY <1>0, <1>1, <3>1, <3>2, <4>1, ReadAppend
        <4> QED
          BY <1>2, <4>1, <4>2
      <3> QED
        BY <1>2, <1>3, <3>3 DEF LastRead
    <2>3. (pc = "read" => \E w \in 1..Moment : OneBehind(w) /\ NowRead(w) /\ LastRead(w))'
      <3> SUFFICES ASSUME pc = "read"
                   PROVE  \E w \in 1..Moment' : OneBehind(w)' /\ NowRead(w)' /\ LastRead(w)'
        BY <1>3
      <3>1. PICK w \in 1..n : OneBehind(w) /\ NowRead(w) /\ LastRead(w)
        BY DEF ClockInv, Reading, n
      <3>2. w \in 1..Moment'
        BY <1>0, <1>2
      <3> QED
        BY <1>7, <1>8, <1>9, <3>1, <3>2
    <2> QED
      BY <2>1, <2>2, <2>3 DEF Reading
  <1> QED
    BY <1>4, <1>6, <1>10 DEF ClockInv

\* The device rewrites a register, or ends its update.
LEMMA UpdateKeeps ==
    ASSUME ClockInv, (\E f \in Fields : UpdateRegister(f)) \/ EndUpdate
    PROVE  ClockInv'
  <1>0. UNCHANGED <<time, mode, instants, pc, left, now, last, first>>
    BY DEF UpdateRegister, EndUpdate, program
  <1>1. pending' \subseteq pending
    BY DEF UpdateRegister, EndUpdate
  <1>2. /\ rtc' \in [Fields -> Nat] /\ updating' \in BOOLEAN
        /\ \A f \in Fields \ pending' : rtc'[f] = Val(mode, instants, Moment, f)
        /\ \A f \in pending' : rtc'[f] = rtc[f]
        /\ ~updating' => pending' = {}
    <2>1. CASE EndUpdate
      BY <2>1 DEF EndUpdate, ClockInv, ClockTypes, Running
    <2>2. ASSUME NEW g \in Fields, UpdateRegister(g)
          PROVE  /\ rtc' \in [Fields -> Nat] /\ updating' \in BOOLEAN
                 /\ \A f \in Fields \ pending' : rtc'[f] = Val(mode, instants, Moment, f)
                 /\ \A f \in pending' : rtc'[f] = rtc[f]
                 /\ ~updating' => pending' = {}
      <3>1. /\ rtc' = [rtc EXCEPT ![g] = Registers(mode, time)[g]] /\ pending' = pending \ {g}
            /\ g \in pending /\ updating' = updating
        BY <2>2 DEF UpdateRegister
      <3>2. Registers(mode, time)[g] \in Nat
        BY RegistersType DEF ClockInv, ClockTypes
      <3>3. Registers(mode, time)[g] = Val(mode, instants, Moment, g)
        BY DEF ClockInv, Running, Val
      <3>4. rtc \in [Fields -> Nat] /\ pending \subseteq Fields /\ updating \in BOOLEAN
        BY DEF ClockInv, ClockTypes
      <3>5. \A f \in Fields \ pending : rtc[f] = Val(mode, instants, Moment, f)
        BY DEF ClockInv, Running
      <3>6. updating
        BY <3>1 DEF ClockInv, Running
      <3> QED
        BY <3>1, <3>2, <3>3, <3>4, <3>5, <3>6
    <2> QED
      BY <2>1, <2>2
  <1>3. ClockTypes'
    BY <1>0, <1>1, <1>2 DEF ClockInv, ClockTypes, Moment
  <1>4. Running'
    BY <1>0, <1>2 DEF ClockInv, Running, Moment
  <1>5. Reading'
    <2>1. Moment' = Moment
      BY <1>0 DEF Moment
    <2>2. \A w : OneBehind(w) => OneBehind(w)'
      BY <1>0, <1>1, <1>2, <2>1 DEF OneBehind
    <2>3. \A w : (NowRead(w) => NowRead(w)') /\ (LastRead(w) => LastRead(w)')
      BY <1>0, <2>1 DEF NowRead, LastRead
    <2> QED
      BY <1>0, <2>1, <2>2, <2>3 DEF ClockInv, Reading
  <1> QED
    BY <1>3, <1>4, <1>5 DEF ClockInv

\* A call begins.
LEMMA CallKeeps ==
    ASSUME ClockInv, print_current_time
    PROVE  ClockInv'
  <1>0. /\ UNCHANGED <<time, rtc, updating, pending, mode, now, last>>
        /\ pc' = "wait" /\ left' = ReadingOrder /\ first' = TRUE /\ instants' = <<time>>
    BY DEF print_current_time, device
  <1>1. instants' \in Seq(Times) /\ Len(instants') = 1 /\ instants'[1] = time /\ Moment' = 1
    BY <1>0 DEF ClockInv, ClockTypes, Moment
  <1>2. ClockTypes'
    BY <1>0, <1>1 DEF ClockInv, ClockTypes
  <1>3. Ordered(instants')
    <2>1. \A i \in 1..Len(instants') : i = 1
      BY <1>1
    <2>2. instants'[1].second \in 0..59
      <3>1. 1 \in 1..Len(instants')
        BY <1>1
      <3> QED
        BY <1>1, <3>1, SecondType
    <2>3. \A a \in 0..59 : (a + (1 - 1)) % 60 = a
      BY Z3
    <2> QED
      BY <2>1, <2>2, <2>3 DEF Ordered, SameMinute
  <1>4. Running'
    <2>1. \A f : Val(mode, instants', 1, f) = Val(mode, instants, Moment, f)
      BY <1>1 DEF Val, ClockInv, Running
    <2> QED
      BY <1>0, <1>1, <1>3, <2>1 DEF ClockInv, Running
  <1>5. Reading'
    BY <1>0 DEF Reading
  <1> QED
    BY <1>2, <1>4, <1>5 DEF ClockInv

\* A reading begins: at this moment no register is behind.
LEMMA WaitKeeps ==
    ASSUME ClockInv, Wait
    PROVE  ClockInv'
  <1>0. /\ UNCHANGED <<time, rtc, updating, pending, mode, left, now, last, first, instants>>
        /\ pc = "wait" /\ pc' = "read" /\ ~updating
    BY DEF Wait, device, MayRead
  <1>1. ClockTypes' /\ Running'
    BY <1>0 DEF ClockInv, ClockTypes, Running, Moment
  <1>2. Moment' = Moment /\ Moment \in 1..Moment
    BY <1>0 DEF ClockInv, ClockTypes, Moment
  <1>3. OneBehind(Moment)' /\ NowRead(Moment)' /\ LastRead(Moment)'
    BY <1>0, <1>2 DEF ClockInv, Running, Reading, OneBehind, NowRead, LastRead
  <1>4. Reading'
    BY <1>0, <1>2, <1>3 DEF Reading
  <1> QED
    BY <1>1, <1>4 DEF ClockInv

\* The second reading and those after it: what was read becomes the last reading.
LEMMA AgainKeeps ==
    ASSUME ClockInv, ReadAgain
    PROVE  ClockInv'
  <1>0. /\ UNCHANGED <<time, rtc, updating, pending, mode, now, instants>>
        /\ pc = "read" /\ left = <<>>
        /\ pc' = "wait" /\ left' = ReadingOrder /\ last' = now /\ first' = FALSE
    BY DEF ReadAgain, device
  <1>1. ClockTypes' /\ Running'
    BY <1>0 DEF ClockInv, ClockTypes, Running, Moment
  <1>2. PICK w \in 1..Moment : NowRead(w)
    BY <1>0 DEF ClockInv, Reading
  <1>3. Unread(left) = {}
    BY <1>0 DEF Unread
  <1>4. ReadBetween(mode, instants, w, Moment, now, Fields)
    <2>1. Fields \ Unread(left) = Fields
      BY <1>3
    <2> QED
      BY <1>0, <1>2, <2>1, FirstUnread DEF NowRead
  <1>5. instants \in Seq(Times) /\ Moment \in Nat /\ Moment = Len(instants) /\ w \in Nat /\ 1 <= w
    BY <1>2 DEF ClockInv, ClockTypes, Moment
  <1>6. ReadBetween(mode, instants, 1, Moment, now, Fields)
    BY <1>4, <1>5, ReadKept
  <1>7. Reading'
    BY <1>0, <1>6 DEF Reading, LastRead, Moment
  <1> QED
    BY <1>1, <1>7 DEF ClockInv

\* One register is read: it is that of this moment, or of the one before.
LEMMA RegisterKeeps ==
    ASSUME ClockInv, get_RTC_register
    PROVE  ClockInv'
  <1> DEFINE g == Head(left)
             n == Moment
  <1>0. /\ UNCHANGED <<time, rtc, updating, pending, mode, pc, last, first, instants>>
        /\ pc = "read" /\ left # <<>>
        /\ now' = [now EXCEPT ![g] = rtc[g]] /\ left' = Tail(left)
    BY DEF get_RTC_register, device
  <1>t. /\ n \in Nat /\ n >= 1 /\ n = Len(instants) /\ Moment' = n
        /\ now \in [Fields -> Nat] /\ rtc \in [Fields -> Nat]
        /\ left = ReadingOrder \/ left \in Seq(Fields \ {"second"})
    BY <1>0 DEF ClockInv, ClockTypes, Moment
  <1>1. left = ReadingOrder => g = "second" /\ left' \in Seq(Fields \ {"second"})
    <2>1. <<"minute", "hour", "day", "month", "year">> \in Seq(Fields \ {"second"})
      BY DEF Fields
    <2> QED
      BY <1>0, <2>1, FirstUnread
  <1>2. left # ReadingOrder => g \in Fields \ {"second"} /\ left' \in Seq(Fields \ {"second"})
    BY <1>0, <1>t
  <1>3. g \in Fields /\ rtc[g] \in Nat /\ left' \in Seq(Fields \ {"second"})
    BY <1>1, <1>2, <1>t DEF Fields
  <1>4. left' # ReadingOrder
    <2>1. \A q \in Seq(Fields \ {"second"}) : q # <<>> => Head(q) # "second"
      OBVIOUS
    <2> QED
      BY <1>3, <2>1, FirstUnread
  <1>5. ClockTypes' /\ Running'
    <2>1. now' \in [Fields -> Nat]
      BY <1>0, <1>3, <1>t
    <2> QED
      BY <1>0, <1>3, <2>1 DEF ClockInv, ClockTypes, Running, Moment
  <1>6. PICK w \in 1..n : OneBehind(w) /\ NowRead(w) /\ LastRead(w)
    BY <1>0 DEF ClockInv, Reading
  <1>7. PICK i \in w..n : i + 1 >= n /\ rtc[g] = Val(mode, instants, i, g)
    <2>1. CASE g \in pending
      <3>1. n > w /\ rtc[g] = Val(mode, instants, n - 1, g)
        BY <1>6, <2>1 DEF OneBehind
      <3>2. n - 1 \in w..n /\ (n - 1) + 1 >= n
        BY <1>6, <1>t, <3>1
      <3> QED
        BY <3>1, <3>2
    <2>2. CASE g \notin pending
      <3>1. rtc[g] = Val(mode, instants, n, g) /\ n \in w..n /\ n + 1 >= n
        BY <1>3, <1>6, <1>t, <2>2 DEF ClockInv, Running
      <3> QED
        BY <3>1
    <2> QED
      BY <2>1, <2>2
  <1> HIDE DEF n
  <1>8. ReadBetween(mode, instants, w, n, now', Fields \ Unread(left'))
    <2> DEFINE done == Fields \ Unread(left)
               done2 == Fields \ Unread(left')
    <2>1. CASE left = ReadingOrder
      <3>1. done2 \subseteq {"second"}
        BY <1>0, <2>1, FirstUnread
      <3>2. now'["second"] = rtc["second"]
        BY <1>0, <1>1, <1>t, <2>1 DEF Fields
      <3>3. now'["second"] = Val(mode, instants, i, "second")
        BY <1>1, <1>7, <2>1, <3>2
      <3> QED
        BY <1>7, <3>1, <3>3 DEF ReadBetween
    <2>2. CASE left # ReadingOrder
      <3>1. ReadBetween(mode, instants, w, n, now, done)
        BY <1>6, <2>2 DEF NowRead, n
      <3>2. Unread(left) \subseteq Unread(left') \cup {g}
        BY <1>0, <1>t, <2>2, UnreadTail
      <3>3. done2 \subseteq done \cup {g} /\ g \in Fields \ {"second"}
        BY <1>2, <2>2, <3>2
      <3> HIDE DEF done, done2
      <3>4. w \in Nat
        BY <1>6, <1>t
      <3>5. ReadBetween(mode, instants, w, n, [now EXCEPT ![g] = rtc[g]], done2)
        BY <1>3, <1>7, <1>t, <3>1, <3>3, <3>4, ReadMore
      <3> QED
        BY <1>0, <3>5 DEF done2
    <2> QED
      BY <2>1, <2>2
  <1>9. OneBehind(w)' /\ NowRead(w)' /\ LastRead(w)'
    BY <1>0, <1>6, <1>8, <1>t DEF OneBehind, NowRead, LastRead, n
  <1>10. Reading'
    BY <1>0, <1>6, <1>9, <1>t DEF Reading, n
  <1> QED
    BY <1>5, <1>10 DEF ClockInv

\* The conversions of read_rtc yield numbers.
LEMMA ConvertedType ==
    ASSUME mode \in Formats, NEW r \in [Fields -> Nat]
    PROVE  Converted(mode, r) \in [Fields -> Nat]
  <1>1. \A v \in Nat : Binary(v) \in Nat
    BY Z3 DEF Binary
  <1>2. \A h \in Nat : Hour(mode, h) \in Nat
    <2>1. \A h \in Nat : h % 128 \in Nat
      BY Z3
    <2>2. \A h \in Nat : (h + 12) % 24 \in Nat
      BY Z3
    <2> QED
      BY <1>1, <2>1, <2>2 DEF Hour
  <1>3. \A v \in Nat : Year(v) \in Nat
    BY Z3 DEF Year, CURRENT_YEAR
  <1>4. \A f \in Fields : r[f] \in Nat
    OBVIOUS
  <1>h. "hour" \in Fields /\ r.hour = r["hour"]
    BY DEF Fields
  <1>5. ASSUME NEW f \in Fields PROVE Converted(mode, r)[f] \in Nat
    <2> DEFINE v == IF mode.bcd THEN Binary(r[f]) ELSE r[f]
    <2>1. v \in Nat
      BY <1>1, <1>4
    <2> HIDE DEF v
    <2>2. Converted(mode, r)[f] = CASE f = "hour" -> Hour(mode, r.hour)
                                    [] f = "year" -> Year(v)
                                    [] OTHER      -> v
      BY DEF Converted, v
    <2>3. Hour(mode, r.hour) \in Nat /\ Year(v) \in Nat
      BY <1>2, <1>3, <1>4, <1>h, <2>1
    <2> QED
      BY <2>1, <2>2, <2>3
  <1> QED
    BY <1>5 DEF Converted

\* The call ends.
LEMMA DisplayKeeps ==
    ASSUME ClockInv, Display
    PROVE  ClockInv'
  <1>0. /\ UNCHANGED <<time, rtc, updating, pending, mode, left, last, first, instants>>
        /\ now' = Converted(mode, now) /\ pc' = "idle"
    BY DEF Display, device
  <1>1. now' \in [Fields -> Nat]
    BY <1>0, ConvertedType DEF ClockInv, ClockTypes
  <1>2. ClockTypes' /\ Running'
    BY <1>0, <1>1 DEF ClockInv, ClockTypes, Running, Moment
  <1>3. Reading'
    BY <1>0 DEF Reading
  <1> QED
    BY <1>2, <1>3 DEF ClockInv

\* Every step of the kernel and of the device keeps it.
LEMMA ClockNext == ClockInv /\ [Next]_vars => ClockInv'
  <1> SUFFICES ASSUME ClockInv, [Next]_vars PROVE ClockInv'
    OBVIOUS
  <1>1. CASE Kernel
    BY <1>1, CallKeeps, WaitKeeps, RegisterKeeps, AgainKeeps, DisplayKeeps DEF Kernel
  <1>2. CASE Device
    BY <1>2, BeginUpdateKeeps, UpdateKeeps DEF Device
  <1>3. CASE UNCHANGED vars
    BY <1>3 DEF vars, device, program, ClockInv, ClockTypes, Running, Reading, Moment,
                OneBehind, NowRead, LastRead
  <1> QED
    BY <1>1, <1>2, <1>3 DEF Next

\* When a reading is accepted within a minute, it is that of one moment.
LEMMA Accepted ==
    ASSUME ClockInv, Display, WithinAMinute
    PROVE  \E i \in 1..Len(instants) :
                IsMoment(now', instants[i]) /\ ShowsMoment(screen', instants[i])
  <1>0. /\ pc = "read" /\ left = <<>> /\ ~first /\ now = last
        /\ now' = Converted(mode, now) /\ screen' = Shown(Converted(mode, now))
    BY DEF Display, Agree
  <1>t. /\ instants \in Seq(Times) /\ Len(instants) <= 60 /\ Ordered(instants)
        /\ mode \in Formats /\ now \in [Fields -> Nat]
    BY DEF ClockInv, ClockTypes, Running, WithinAMinute
  <1>1. PICK w \in 1..Len(instants) : NowRead(w) /\ LastRead(w)
    BY <1>0 DEF ClockInv, Reading, Moment
  <1>2. ReadBetween(mode, instants, 1, w, now, Fields)
    BY <1>0, <1>1 DEF LastRead
  <1>3. ReadBetween(mode, instants, w, Len(instants), now, Fields)
    <2>1. Fields \ Unread(left) = Fields
      BY <1>0 DEF Unread
    <2> QED
      BY <1>0, <1>1, <2>1, FirstUnread DEF NowRead, Moment
  <1>4. \A f \in Fields : now[f] = Val(mode, instants, w, f)
    BY <1>1, <1>2, <1>3, <1>t, Agreement
  <1>5. instants[w] \in Times
    BY <1>1, <1>t
  <1>6. now = Registers(mode, instants[w])
    <2>1. Registers(mode, instants[w]) \in [Fields -> Nat]
      BY <1>5, <1>t, RegistersType
    <2> QED
      BY <1>4, <1>t, <2>1 DEF Val
  <1>7. Converted(mode, now) = Told(instants[w])
    BY <1>5, <1>6, <1>t, ConvertedIsTold
  <1>8. IsMoment(Told(instants[w]), instants[w]) /\ ShowsMoment(Shown(Told(instants[w])), instants[w])
    BY <1>5, <1>t, ToldIsMoment
  <1> QED
    BY <1>0, <1>1, <1>7, <1>8

-----------------------------------------------------------------------------
(* Theorems.                                                                *)

\* The inductive invariant of the clock, the device and the reading between them
\* holds for ever (read_rtc and get_RTC_register of cmos.c).
THEOREM ClockCorrect == Spec => []ClockInv
  BY ClockInit, ClockNext, PTL DEF Spec

\* No torn time is ever shown, whatever the format, for any number of updates and
\* from any start: what read_rtc accepts within a minute and print_current_time
\* shows are the time of one moment of the call, the hours that change places in
\* twelve-hour mode left out.
THEOREM ShowsOneMomentHolds == Spec => ShowsOneMoment
  <1> DEFINE Right == Display /\ WithinAMinute =>
                        \E i \in 1..Len(instants) :
                            IsMoment(now', instants[i]) /\ ShowsMoment(screen', instants[i])
  <1>1. ClockInv => Right
    BY Accepted
  <1>2. ClockInv /\ [Next]_vars => [Right]_vars
    BY <1>1
  <1> HIDE DEF Right
  <1>3. Spec => [][Right]_vars
    BY <1>2, ClockCorrect, PTL DEF Spec
  <1> QED
    BY <1>3 DEF ShowsOneMoment, Right

=============================================================================
