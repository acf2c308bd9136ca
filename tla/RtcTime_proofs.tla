----------------------------- MODULE RtcTime_proofs --------------------------------
(***************************************************************************)
(* Proofs about RtcTime, for every set of times in the range of the rtc    *)
(* core, every resolution of the virtual clock and all bounds.  The        *)
(* calendar comes first (localtime and mktime undo each other), then the   *)
(* registers (so do the conversions to BCD and back, with whatever masks), *)
(* the order of times, the timers, and a lemma for each part of the        *)
(* inductive invariant IInv.                                               *)
(***************************************************************************)
EXTENDS RtcTime, SequenceTheorems, TLAPS

-----------------------------------------------------------------------------
(* The calendar                                                            *)

\* A year has 365 days, or 366.
LEMMA YearLength ==
  ASSUME NEW y \in Int
  PROVE  /\ YearStart(y) \in Int
         /\ YearStart(y + 1) = YearStart(y) + IF Leap(y) THEN 366 ELSE 365
  BY SMT DEF YearStart, Leap

\* A later year starts later.
LEMMA YearsGrow ==
  ASSUME NEW y \in Int, NEW z \in Int, y < z
  PROVE  YearStart(y) + 365 =< YearStart(z)
  BY SMT DEF YearStart

Near(d) == 1970 + (400 * d) \div 146097

\* The year of a day is the one its proportion of 400 years gives, or next to it.
LEMMA YearFound ==
  ASSUME NEW d \in Int
  PROVE  /\ Near(d) \in Int
         /\ YearStart(Near(d) - 1) =< d
         /\ d < YearStart(Near(d) + 2)
  BY SMT DEF YearStart, Near

\* A month has 28 to 31 days, and the twelve make up the year.
LEMMA MonthLength ==
  ASSUME NEW y \in Int, NEW m \in 0..11
  PROVE  /\ MonthStart(y, m) \in Int /\ MonthStart(y, 0) = YearStart(y)
         /\ m < 11 => /\ MonthStart(y, m) + 28 =< MonthStart(y, m + 1)
                      /\ MonthStart(y, m + 1) =< MonthStart(y, m) + 31
         /\ MonthStart(y, 11) + 31 = YearStart(y + 1)
         /\ YearStart(y) =< MonthStart(y, m)
         /\ MonthStart(y, m) + 31 =< YearStart(y + 1)
<1>0. /\ YearStart(y) \in Int
      /\ YearStart(y + 1) = YearStart(y) + IF Leap(y) THEN 366 ELSE 365
  BY YearLength
<1>1. m \in {0, 1, 2, 3, 4, 5, 6, 7, 8, 9, 10, 11}
  OBVIOUS
<1> HIDE DEF YearStart, Leap
<1> QED
  BY <1>0, <1>1, SMT DEF MonthStart

\* A later month starts when the earlier one has ended, or later.
LEMMA MonthsGrow ==
  ASSUME NEW y \in Int, NEW m \in 0..11, NEW n \in 0..11, m < n
  PROVE  MonthStart(y, m + 1) =< MonthStart(y, n)
<1> DEFINE S(i) == MonthStart(y, i)
<1>1. \A i \in 0..11 : S(i) \in Int
  BY MonthLength
<1>2. \A i \in 0..10 : S(i) =< S(i + 1)
  <2> TAKE i \in 0..10
  <2>1. i \in 0..11 /\ i + 1 \in 0..11 /\ i < 11
    OBVIOUS
  <2>2. S(i) \in Int /\ S(i + 1) \in Int /\ S(i) + 28 =< S(i + 1)
    BY <2>1, <1>1, MonthLength
  <2> QED
    BY <2>2
<1> HIDE DEF S
<1>3. /\ S(0) =< S(1) /\ S(1) =< S(2) /\ S(2) =< S(3) /\ S(3) =< S(4) /\ S(4) =< S(5)
      /\ S(5) =< S(6) /\ S(6) =< S(7) /\ S(7) =< S(8) /\ S(8) =< S(9) /\ S(9) =< S(10)
      /\ S(10) =< S(11)
  BY <1>2
<1>4. /\ S(0) \in Int /\ S(1) \in Int /\ S(2) \in Int /\ S(3) \in Int /\ S(4) \in Int
      /\ S(5) \in Int /\ S(6) \in Int /\ S(7) \in Int /\ S(8) \in Int /\ S(9) \in Int
      /\ S(10) \in Int /\ S(11) \in Int
  BY <1>1
<1>5. /\ m + 1 \in {1, 2, 3, 4, 5, 6, 7, 8, 9, 10, 11}
      /\ n \in {1, 2, 3, 4, 5, 6, 7, 8, 9, 10, 11}
      /\ m + 1 =< n
  OBVIOUS
<1>6. S(m + 1) =< S(n)
  BY <1>3, <1>4, <1>5
<1> QED
  BY <1>6 DEF S

\* Every day of a year is in one of its months.
LEMMA MonthFound ==
  ASSUME NEW y \in Int, NEW d \in Int, YearStart(y) =< d
  PROVE  \E m \in 0..11 :
           MonthStart(y, m) =< d /\ (m = 11 \/ d < MonthStart(y, m + 1))
<1> DEFINE S(i) == MonthStart(y, i)
           In(i) == S(i) =< d /\ (i = 11 \/ d < S(i + 1))
<1>1. \A i \in 0..11 : S(i) \in Int
  BY MonthLength
<1>2. S(0) =< d
  BY MonthLength
<1> HIDE DEF S
<1>3. /\ S(0) \in Int /\ S(1) \in Int /\ S(2) \in Int /\ S(3) \in Int /\ S(4) \in Int
      /\ S(5) \in Int /\ S(6) \in Int /\ S(7) \in Int /\ S(8) \in Int /\ S(9) \in Int
      /\ S(10) \in Int /\ S(11) \in Int
  BY <1>1
<1>4. \/ (S(0) =< d /\ d < S(1)) \/ (S(1) =< d /\ d < S(2)) \/ (S(2) =< d /\ d < S(3))
      \/ (S(3) =< d /\ d < S(4)) \/ (S(4) =< d /\ d < S(5)) \/ (S(5) =< d /\ d < S(6))
      \/ (S(6) =< d /\ d < S(7)) \/ (S(7) =< d /\ d < S(8)) \/ (S(8) =< d /\ d < S(9))
      \/ (S(9) =< d /\ d < S(10)) \/ (S(10) =< d /\ d < S(11)) \/ S(11) =< d
  BY <1>2, <1>3
<1>5. \/ In(0) \/ In(1) \/ In(2) \/ In(3) \/ In(4) \/ In(5)
      \/ In(6) \/ In(7) \/ In(8) \/ In(9) \/ In(10) \/ In(11)
  BY <1>4
<1> HIDE DEF In
<1>6. \E m \in 0..11 : In(m)
  BY <1>5
<1> QED
  BY <1>6 DEF In, S

\* The second of the day is that of its fields.
LEMMA ClockFields ==
  ASSUME NEW s \in Nat, s < 86400
  PROVE  /\ s % 60 \in 0..59 /\ (s \div 60) % 60 \in 0..59 /\ s \div 3600 \in 0..23
         /\ (s \div 3600) * 3600 + ((s \div 60) % 60) * 60 + (s % 60) = s
  OBVIOUS

\* What localtime returns: fields in their ranges, which name the day and the second.
LEMMA LocaltimeFields ==
  ASSUME NEW t \in Times
  PROVE  LET l == Localtime(t) IN
         /\ l.sec \in 0..59 /\ l.min \in 0..59 /\ l.hour \in 0..23
         /\ l.mday \in 1..31 /\ l.mon \in 0..11 /\ l.wday \in 0..6 /\ l.year \in Int
         /\ YearStart(1900 + l.year) =< t.day /\ t.day < YearStart(1901 + l.year)
         /\ MonthStart(1900 + l.year, l.mon) \in Int
         /\ MonthStart(1900 + l.year, l.mon) + l.mday - 1 = t.day
         /\ l.mon < 11 => t.day < MonthStart(1900 + l.year, l.mon + 1)
         /\ l.hour * 3600 + l.min * 60 + l.sec = t.sec
<1> DEFINE near == Near(t.day)
           IsYear(z) == YearStart(z) =< t.day /\ t.day < YearStart(z + 1)
           y == CHOOSE z \in near - 1..near + 1 : IsYear(z)
           IsMonth(z) == MonthStart(y, z) =< t.day /\ (z = 11 \/ t.day < MonthStart(y, z + 1))
           m == CHOOSE z \in 0..11 : IsMonth(z)
<1>1. t.day \in Int /\ t.sec \in Nat /\ t.sec < 86400
  BY DEF Times
<1>n. near \in Int /\ YearStart(near - 1) =< t.day /\ t.day < YearStart(near + 2)
  BY <1>1, YearFound
<1> HIDE DEF near
<1>2. y \in near - 1..near + 1 /\ IsYear(y)
  <2>2. \E z \in near - 1..near + 1 : IsYear(z)
    <3>1. \A z \in {near - 1, near, near + 1} : z \in near - 1..near + 1 /\ YearStart(z) \in Int
      BY <1>n, YearLength
    <3>2. near - 1 + 1 = near /\ near + 1 + 1 = near + 2
      BY <1>n
    <3> DEFINE a == YearStart(near - 1)
               b == YearStart(near)
               c == YearStart(near + 1)
               e == YearStart(near + 2)
    <3>a. a \in Int /\ b \in Int /\ c \in Int /\ a =< t.day /\ t.day < e
      BY <1>n, <3>1
    <3>b. /\ IsYear(near - 1) <=> a =< t.day /\ t.day < b
          /\ IsYear(near) <=> b =< t.day /\ t.day < c
          /\ IsYear(near + 1) <=> c =< t.day /\ t.day < e
      BY <3>2
    <3> HIDE DEF near, a, b, c, e, IsYear
    <3>3. IsYear(near - 1) \/ IsYear(near) \/ IsYear(near + 1)
      BY <1>1, <1>n, <3>a, <3>b
    <3> QED
      BY <3>1, <3>3
  <2> HIDE DEF near, IsYear
  <2> QED
    BY <2>2
<1>3. y \in Int
  BY <1>n, <1>2
<1> HIDE DEF y
<1>4. m \in 0..11 /\ IsMonth(m)
  <2>1. \E z \in 0..11 : IsMonth(z)
    BY <1>1, <1>2, <1>3, MonthFound
  <2> HIDE DEF IsMonth
  <2> QED
    BY <2>1
<1> HIDE DEF m, near
<1>5. Localtime(t) =
        [sec |-> t.sec % 60, min |-> (t.sec \div 60) % 60, hour |-> t.sec \div 3600,
         mday |-> t.day - MonthStart(y, m) + 1, wday |-> (t.day + 4) % 7,
         mon |-> m, year |-> y - 1900]
  BY DEF Localtime, y, m, near, Near
<1>6. t.day - MonthStart(y, m) + 1 \in 1..31
  <2>1. /\ MonthStart(y, m) \in Int /\ MonthStart(y, m) =< t.day
        /\ t.day < MonthStart(y, m) + 31
    <3>1. CASE m = 11
      <4>1. MonthStart(y, 11) + 31 = YearStart(y + 1) /\ MonthStart(y, 11) \in Int
        BY <1>3, MonthLength
      <4> QED
        BY <1>2, <1>4, <3>1, <4>1
    <3>2. CASE m # 11
      <4>1. m < 11 /\ m + 1 \in 0..11
        BY <1>4, <3>2
      <4>2. /\ MonthStart(y, m) \in Int /\ MonthStart(y, m + 1) \in Int
            /\ MonthStart(y, m + 1) =< MonthStart(y, m) + 31
        BY <1>3, <1>4, <4>1, MonthLength
      <4> QED
        BY <1>1, <1>4, <3>2, <4>2
    <3> QED
      BY <3>1, <3>2
  <2> QED
    BY <1>1, <2>1
<1>7. /\ t.sec % 60 \in 0..59 /\ (t.sec \div 60) % 60 \in 0..59 /\ t.sec \div 3600 \in 0..23
      /\ (t.sec \div 3600) * 3600 + ((t.sec \div 60) % 60) * 60 + (t.sec % 60) = t.sec
      /\ (t.day + 4) % 7 \in 0..6
  BY <1>1, ClockFields
<1>8. 1900 + (y - 1900) = y /\ 1901 + (y - 1900) = y + 1 /\ y - 1900 \in Int
  BY <1>3
<1>9. MonthStart(y, m) \in Int
  BY <1>3, <1>4, MonthLength
<1> DEFINE l == Localtime(t)
<1>10. /\ l.sec = t.sec % 60 /\ l.min = (t.sec \div 60) % 60 /\ l.hour = t.sec \div 3600
       /\ l.mday = t.day - MonthStart(y, m) + 1 /\ l.wday = (t.day + 4) % 7
       /\ l.mon = m /\ l.year = y - 1900
  BY <1>5
<1> HIDE DEF l
<1>11. /\ l.sec \in 0..59 /\ l.min \in 0..59 /\ l.hour \in 0..23 /\ l.wday \in 0..6
       /\ l.hour * 3600 + l.min * 60 + l.sec = t.sec
  BY <1>7, <1>10
<1>12. l.mday \in 1..31 /\ l.mon \in 0..11 /\ l.year \in Int
  BY <1>4, <1>6, <1>8, <1>10
<1>13. YearStart(1900 + l.year) =< t.day /\ t.day < YearStart(1901 + l.year)
  BY <1>2, <1>8, <1>10
<1>14. /\ MonthStart(1900 + l.year, l.mon) \in Int
       /\ MonthStart(1900 + l.year, l.mon) + l.mday - 1 = t.day
       /\ l.mon < 11 => t.day < MonthStart(1900 + l.year, l.mon + 1)
  <2>1. 1900 + l.year = y
    BY <1>8, <1>10
  <2>2. MonthStart(y, m) + (t.day - MonthStart(y, m) + 1) - 1 = t.day
    BY <1>1, <1>9
  <2> QED
    BY <1>4, <1>9, <1>10, <2>1, <2>2
<1> QED
  BY <1>11, <1>12, <1>13, <1>14 DEF l

\* mktime undoes localtime; it looks at neither the day of the week nor anything else.
LEMMA MktimeOfFields ==
  ASSUME NEW t \in Times, NEW r,
         r.sec = Localtime(t).sec, r.min = Localtime(t).min, r.hour = Localtime(t).hour,
         r.mday = Localtime(t).mday, r.mon = Localtime(t).mon, r.year = Localtime(t).year
  PROVE  Mktime(r) = t
<1> DEFINE l == Localtime(t)
           secs == r.hour * 3600 + r.min * 60 + r.sec
<1>1. /\ l.sec \in 0..59 /\ l.min \in 0..59 /\ l.hour \in 0..23
      /\ l.mday \in 1..31 /\ l.mon \in 0..11 /\ l.year \in Int
      /\ MonthStart(1900 + l.year, l.mon) \in Int
      /\ MonthStart(1900 + l.year, l.mon) + l.mday - 1 = t.day
      /\ l.hour * 3600 + l.min * 60 + l.sec = t.sec
  BY LocaltimeFields
<1> HIDE DEF l
<1>2. /\ r.sec = l.sec /\ r.min = l.min /\ r.hour = l.hour
      /\ r.mday = l.mday /\ r.mon = l.mon /\ r.year = l.year
  BY DEF l
<1>3. t.day \in Int /\ t.sec \in Nat /\ t.sec < 86400 /\ t = [day |-> t.day, sec |-> t.sec]
  BY DEF Times
<1>4. r.mon \div 12 = 0 /\ r.mon % 12 = r.mon
  BY <1>1, <1>2
<1>5. secs = t.sec
  BY <1>1, <1>2
<1>6. secs \div 86400 = 0 /\ secs % 86400 = t.sec
  BY <1>3, <1>5
<1>7. 1900 + r.year + r.mon \div 12 = 1900 + l.year
  BY <1>1, <1>2, <1>4
<1>8. MonthStart(1900 + r.year + r.mon \div 12, r.mon % 12) + r.mday - 1 + secs \div 86400
        = t.day
  <2>1. MonthStart(1900 + r.year + r.mon \div 12, r.mon % 12) = MonthStart(1900 + l.year, l.mon)
    BY <1>2, <1>4, <1>7
  <2> HIDE DEF secs
  <2>3. MonthStart(1900 + l.year, l.mon) + l.mday - 1 + 0 = t.day
    BY <1>1, <1>3
  <2> QED
    BY <1>2, <1>6, <2>1, <2>3
<1> QED
  BY <1>3, <1>6, <1>8 DEF Mktime

\* The times the clock may have: neither the host nor the driver sets an earlier one.
Modern == {t \in Times : t.day >= YearStart(2000)}

\* The times set_time and a reset give the clock are such times.
LEMMA ModernTimes ==
  /\ \A t \in Modern : t \in Times
  /\ \A t \in SetTimes : t \in Modern /\ InRange(t)
  /\ \A t \in HostTimes : t \in Modern
  BY Pcf8563Assumption, RtcTimeAssumption DEF Modern, InRange

\* The years two digits and a century bit hold.
LEMMA YearsInRange ==
  ASSUME NEW t \in Modern
  PROVE  /\ Localtime(t).year >= 100
         /\ InRange(t) => Localtime(t).year =< 199
<1> DEFINE y == Localtime(t).year
<1>0. t \in Times /\ t.day >= YearStart(2000)
  BY DEF Modern
<1>1. /\ y \in Int /\ t.day \in Int
      /\ YearStart(1900 + y) =< t.day /\ t.day < YearStart(1901 + y)
  BY <1>0, LocaltimeFields DEF Times
<1> HIDE DEF y
<1>2. /\ YearStart(1900 + y) \in Int /\ YearStart(1901 + y) \in Int
      /\ YearStart(2000) \in Int /\ YearStart(2100) \in Int
  BY <1>1, YearLength
<1>3. y >= 100
  <2>1. 1901 + y < 2000 => YearStart(1901 + y) + 365 =< YearStart(2000)
    BY <1>1, YearsGrow
  <2>2. 1901 + y # 2000
    BY <1>0, <1>1, <1>2
  <2> QED
    BY <1>0, <1>1, <1>2, <2>1, <2>2
<1>4. InRange(t) => y =< 199
  <2>1. 2100 < 1900 + y => YearStart(2100) + 365 =< YearStart(1900 + y)
    BY <1>1, YearsGrow
  <2>2. InRange(t) => 1900 + y # 2100
    BY <1>1, <1>2 DEF InRange
  <2> QED
    BY <1>1, <1>2, <2>1, <2>2 DEF InRange
<1> QED
  BY <1>3, <1>4 DEF y

-----------------------------------------------------------------------------
(* Registers                                                               *)

\* What the registers are.
RegSet == [0..REG_MAX -> Byte]

\* Two digits come out of BCD as they went in.
LEMMA Bcd ==
  ASSUME NEW v \in Nat, v =< 99
  PROVE  /\ to_bcd(v) \in Nat /\ to_bcd(v) =< 153 /\ decToBcd(v) = to_bcd(v)
         /\ v =< 59 => to_bcd(v) < 90
         /\ v =< 31 => to_bcd(v) < 50
         /\ v =< 12 => to_bcd(v) < 19
         /\ from_bcd(to_bcd(v)) = v /\ bcdToDec(to_bcd(v)) = v
  BY DEF to_bcd, from_bcd, decToBcd, bcdToDec

\* Byte, without the range.
LEMMA ByteIs == \A b : b \in Byte <=> b \in Nat /\ b =< 255
  BY DEF Byte

\* The registers of the time are the seven from REG_SEC to REG_YEAR.
LEMMA Registers ==
  /\ {REG_SEC, REG_MIN, REG_HOUR, REG_DAY, REG_WEEKDAY, REG_MONTH, REG_YEAR}
       \subseteq REG_SEC..REG_YEAR
  /\ {REG_SEC, REG_MIN, REG_HOUR, REG_DAY, REG_WEEKDAY, REG_MONTH, REG_YEAR}
       \subseteq 0..REG_MAX
  /\ \A r \in REG_SEC..REG_YEAR :
       /\ r \in {REG_SEC, REG_MIN, REG_HOUR, REG_DAY, REG_WEEKDAY, REG_MONTH, REG_YEAR}
       /\ r \in 0..REG_MAX
  BY DEF REG_SEC, REG_MIN, REG_HOUR, REG_DAY, REG_WEEKDAY, REG_MONTH, REG_YEAR, REG_MAX

\* The byte of register r at a time.
ByteAt(t, r) == UpdateTime([q \in 0..REG_MAX |-> 0], t)[r]

\* What the registers always hold: a month, a day and a century bit, so that whatever
\* mixture of old and new bytes the device converts is a time since 2000.
Since2000(r) ==
  /\ r[REG_MONTH] >= 128
  /\ from_bcd(r[REG_MONTH] % 32) \in 1..12
  /\ from_bcd(r[REG_DAY] % 64) >= 1

\* Those bytes are the fields of localtime, the month with the century bit.
LEMMA ByteValues ==
  ASSUME NEW t \in Modern
  PROVE  LET l == Localtime(t) IN
         /\ ByteAt(t, REG_SEC) = to_bcd(l.sec) /\ ByteAt(t, REG_MIN) = to_bcd(l.min)
         /\ ByteAt(t, REG_HOUR) = to_bcd(l.hour) /\ ByteAt(t, REG_DAY) = to_bcd(l.mday)
         /\ ByteAt(t, REG_WEEKDAY) = l.wday
         /\ ByteAt(t, REG_MONTH) = to_bcd(l.mon + 1) + 128
         /\ ByteAt(t, REG_YEAR) = to_bcd(l.year % 100)
<1> DEFINE l == Localtime(t)
<1>1. l.year >= 100
  BY YearsInRange
<1> HIDE DEF l
<1> QED
  BY <1>1 DEF ByteAt, UpdateTime, l, REG_SEC, REG_MIN, REG_HOUR, REG_DAY, REG_WEEKDAY,
     REG_MONTH, REG_YEAR, REG_MAX

\* The fields come out of the bytes again, whatever masks are used.
LEMMA ByteFields ==
  ASSUME NEW t \in Modern
  PROVE  LET l == Localtime(t) IN
         /\ \A r \in REG_SEC..REG_YEAR : ByteAt(t, r) \in Byte
         /\ ByteAt(t, REG_SEC) < 128 /\ ByteAt(t, REG_MONTH) >= 128
         /\ from_bcd(ByteAt(t, REG_SEC) % 128) = l.sec
         /\ from_bcd(ByteAt(t, REG_MIN) % 128) = l.min
         /\ from_bcd(ByteAt(t, REG_HOUR) % 64) = l.hour
         /\ from_bcd(ByteAt(t, REG_DAY) % 64) = l.mday
         /\ ByteAt(t, REG_WEEKDAY) % 8 = l.wday
         /\ from_bcd(ByteAt(t, REG_MONTH) % 32) = l.mon + 1
         /\ from_bcd(ByteAt(t, REG_YEAR)) = l.year % 100
<1> DEFINE l == Localtime(t)
<1>1. /\ l.sec \in 0..59 /\ l.min \in 0..59 /\ l.hour \in 0..23 /\ l.mday \in 1..31
      /\ l.wday \in 0..6 /\ l.mon \in 0..11 /\ l.year \in Int
  BY ModernTimes, LocaltimeFields
<1>2. /\ ByteAt(t, REG_SEC) = to_bcd(l.sec) /\ ByteAt(t, REG_MIN) = to_bcd(l.min)
      /\ ByteAt(t, REG_HOUR) = to_bcd(l.hour) /\ ByteAt(t, REG_DAY) = to_bcd(l.mday)
      /\ ByteAt(t, REG_WEEKDAY) = l.wday
      /\ ByteAt(t, REG_MONTH) = to_bcd(l.mon + 1) + 128
      /\ ByteAt(t, REG_YEAR) = to_bcd(l.year % 100)
  BY ByteValues
<1> HIDE DEF l
<1>3. /\ to_bcd(l.sec) \in Nat /\ to_bcd(l.sec) < 90 /\ from_bcd(to_bcd(l.sec)) = l.sec
      /\ to_bcd(l.min) \in Nat /\ to_bcd(l.min) < 90 /\ from_bcd(to_bcd(l.min)) = l.min
  <2>1. /\ l.sec \in Nat /\ l.sec =< 99 /\ l.sec =< 59
        /\ l.min \in Nat /\ l.min =< 99 /\ l.min =< 59
    BY <1>1
  <2> QED
    BY <2>1, Bcd
<1>4. /\ to_bcd(l.hour) \in Nat /\ to_bcd(l.hour) < 50 /\ from_bcd(to_bcd(l.hour)) = l.hour
      /\ to_bcd(l.mday) \in Nat /\ to_bcd(l.mday) < 50 /\ from_bcd(to_bcd(l.mday)) = l.mday
  <2>1. /\ l.hour \in Nat /\ l.hour =< 99 /\ l.hour =< 31
        /\ l.mday \in Nat /\ l.mday =< 99 /\ l.mday =< 31
    BY <1>1
  <2> QED
    BY <2>1, Bcd
<1>5. /\ to_bcd(l.mon + 1) \in Nat /\ to_bcd(l.mon + 1) < 19
      /\ from_bcd(to_bcd(l.mon + 1)) = l.mon + 1
  <2>1. l.mon + 1 \in Nat /\ l.mon + 1 =< 99 /\ l.mon + 1 =< 12
    BY <1>1
  <2> QED
    BY <2>1, Bcd
<1>6. /\ to_bcd(l.year % 100) \in Nat /\ to_bcd(l.year % 100) =< 153
      /\ from_bcd(to_bcd(l.year % 100)) = l.year % 100
  <2>1. l.year % 100 \in Nat /\ l.year % 100 =< 99
    BY <1>1
  <2> QED
    BY <2>1, Bcd
<1>7. /\ to_bcd(l.sec) % 128 = to_bcd(l.sec) /\ to_bcd(l.min) % 128 = to_bcd(l.min)
      /\ to_bcd(l.hour) % 64 = to_bcd(l.hour) /\ to_bcd(l.mday) % 64 = to_bcd(l.mday)
      /\ l.wday % 8 = l.wday
      /\ (to_bcd(l.mon + 1) + 128) % 32 = to_bcd(l.mon + 1)
  BY <1>1, <1>3, <1>4, <1>5
<1>8. \A r \in REG_SEC..REG_YEAR : ByteAt(t, r) \in Byte
  <2>1. /\ ByteAt(t, REG_SEC) \in Byte /\ ByteAt(t, REG_MIN) \in Byte
        /\ ByteAt(t, REG_HOUR) \in Byte /\ ByteAt(t, REG_DAY) \in Byte
        /\ ByteAt(t, REG_WEEKDAY) \in Byte /\ ByteAt(t, REG_MONTH) \in Byte
        /\ ByteAt(t, REG_YEAR) \in Byte
    BY <1>1, <1>2, <1>3, <1>4, <1>5, <1>6, ByteIs
  <2> QED
    BY <2>1, Registers
<1>9. ByteAt(t, REG_SEC) < 128 /\ ByteAt(t, REG_MONTH) >= 128
  BY <1>2, <1>3, <1>5
<1> QED
  BY <1>2, <1>3, <1>4, <1>5, <1>6, <1>7, <1>8, <1>9 DEF l

\* A conversion of the clock leaves the other registers alone.
LEMMA UpdatedRegs ==
  ASSUME NEW t \in Modern, NEW r \in RegSet
  PROVE  /\ UpdateTime(r, t) \in RegSet
         /\ \A q \in REG_SEC..REG_YEAR : UpdateTime(r, t)[q] = ByteAt(t, q)
         /\ Since2000(UpdateTime(r, t))
<1>1. \A q \in REG_SEC..REG_YEAR : UpdateTime(r, t)[q] = ByteAt(t, q)
  BY DEF RegSet, UpdateTime, ByteAt, REG_SEC, REG_MIN, REG_HOUR, REG_DAY, REG_WEEKDAY,
     REG_MONTH, REG_YEAR, REG_MAX
<1>2. \A q \in 0..REG_MAX : q \notin REG_SEC..REG_YEAR => UpdateTime(r, t)[q] = r[q]
  BY DEF RegSet, UpdateTime, REG_SEC, REG_MIN, REG_HOUR, REG_DAY, REG_WEEKDAY, REG_MONTH,
     REG_YEAR, REG_MAX
<1>3. \A q \in REG_SEC..REG_YEAR : ByteAt(t, q) \in Byte
  BY ByteFields
<1>5. UpdateTime(r, t) \in RegSet
  <2> DEFINE l == Localtime(t)
             D == 0..REG_MAX
             B == Byte
             R == [D -> B]
             century == IF l.year >= 100 THEN 128 ELSE 0
             a == [r EXCEPT ![REG_SEC] = to_bcd(l.sec)]
             b == [a EXCEPT ![REG_MIN] = to_bcd(l.min)]
             c == [b EXCEPT ![REG_HOUR] = to_bcd(l.hour)]
             d == [c EXCEPT ![REG_DAY] = to_bcd(l.mday)]
             e == [d EXCEPT ![REG_WEEKDAY] = l.wday]
             f == [e EXCEPT ![REG_MONTH] = to_bcd(l.mon + 1) + century]
             g == [f EXCEPT ![REG_YEAR] = to_bcd(l.year % 100)]
  <2>1. UpdateTime(r, t) = g
    BY DEF UpdateTime
  <2>2. century = 128
    BY YearsInRange
  <2>3. /\ to_bcd(l.sec) \in B /\ to_bcd(l.min) \in B /\ to_bcd(l.hour) \in B
        /\ to_bcd(l.mday) \in B /\ l.wday \in B
        /\ to_bcd(l.mon + 1) + century \in B /\ to_bcd(l.year % 100) \in B
    <3> HIDE DEF century
    <3> QED
      BY <1>3, <2>2, ByteValues, Registers
  <2>5. r \in R
    BY DEF RegSet
  <2>13. /\ REG_SEC \in D /\ REG_MIN \in D /\ REG_HOUR \in D /\ REG_DAY \in D
         /\ REG_WEEKDAY \in D /\ REG_MONTH \in D /\ REG_YEAR \in D
    BY Registers
  <2> HIDE DEF l, century, D, B
  <2>6. a \in R
    BY <2>3, <2>5, <2>13
  <2> HIDE DEF a
  <2>7. b \in R
    BY <2>3, <2>6, <2>13
  <2> HIDE DEF b
  <2>8. c \in R
    BY <2>3, <2>7, <2>13
  <2> HIDE DEF c
  <2>9. d \in R
    BY <2>3, <2>8, <2>13
  <2> HIDE DEF d
  <2>10. e \in R
    BY <2>3, <2>9, <2>13
  <2> HIDE DEF e
  <2>11. f \in R
    BY <2>3, <2>10, <2>13
  <2> HIDE DEF f
  <2>12. g \in R
    BY <2>3, <2>11, <2>13
  <2> QED
    BY <2>1, <2>12 DEF RegSet, D, B
<1>6. Since2000(UpdateTime(r, t))
  <2>1. /\ UpdateTime(r, t)[REG_MONTH] = ByteAt(t, REG_MONTH)
        /\ UpdateTime(r, t)[REG_DAY] = ByteAt(t, REG_DAY)
    BY <1>1 DEF REG_SEC, REG_DAY, REG_MONTH, REG_YEAR
  <2>2. /\ ByteAt(t, REG_MONTH) >= 128
        /\ from_bcd(ByteAt(t, REG_MONTH) % 32) = Localtime(t).mon + 1
        /\ from_bcd(ByteAt(t, REG_DAY) % 64) = Localtime(t).mday
    BY ByteFields
  <2>3. Localtime(t).mon \in 0..11 /\ Localtime(t).mday \in 1..31
    BY ModernTimes, LocaltimeFields
  <2> DEFINE u == UpdateTime(r, t)
             l == Localtime(t)
  <2> HIDE DEF l
  <2>6. l.mon \in 0..11 /\ l.mday \in 1..31
    BY <2>3 DEF l
  <2>4. l.mon + 1 \in 1..12 /\ l.mday >= 1
    BY <2>6
  <2> HIDE DEF u
  <2>5. /\ u[REG_MONTH] >= 128 /\ from_bcd(u[REG_MONTH] % 32) \in 1..12
        /\ from_bcd(u[REG_DAY] % 64) >= 1
    BY <2>1, <2>2, <2>4 DEF u, l
  <2> QED
    BY <2>5 DEF Since2000, u
<1> QED
  BY <1>1, <1>5, <1>6

\* The driver writes the bytes that the device would make of the time.
LEMMA SetBytesAre ==
  ASSUME NEW t \in SetTimes
  PROVE  /\ BytesOf(Localtime(t)) \in Seq(Byte) /\ Len(BytesOf(Localtime(t))) = 7
         /\ \A r \in REG_SEC..REG_YEAR : BytesOf(Localtime(t))[r - REG_SEC + 1] = ByteAt(t, r)
<1> DEFINE l == Localtime(t)
<1>1. t \in Modern /\ t \in Times /\ InRange(t)
  BY ModernTimes
<1>2. /\ l.sec \in 0..59 /\ l.min \in 0..59 /\ l.hour \in 0..23 /\ l.mday \in 1..31
      /\ l.wday \in 0..6 /\ l.mon \in 0..11 /\ l.year \in Int
  BY <1>1, LocaltimeFields
<1>3. l.year \in 100..199
  BY <1>1, <1>2, YearsInRange
<1>4. /\ ByteAt(t, REG_SEC) = to_bcd(l.sec) /\ ByteAt(t, REG_MIN) = to_bcd(l.min)
      /\ ByteAt(t, REG_HOUR) = to_bcd(l.hour) /\ ByteAt(t, REG_DAY) = to_bcd(l.mday)
      /\ ByteAt(t, REG_WEEKDAY) = l.wday
      /\ ByteAt(t, REG_MONTH) = to_bcd(l.mon + 1) + 128
      /\ ByteAt(t, REG_YEAR) = to_bcd(l.year % 100)
  BY <1>1, ByteValues
<1>5. \A r \in REG_SEC..REG_YEAR : ByteAt(t, r) \in Byte
  BY <1>1, ByteFields
<1> HIDE DEF l
<1>6. /\ decToBcd(l.sec) = to_bcd(l.sec) /\ decToBcd(l.min) = to_bcd(l.min)
      /\ decToBcd(l.hour) = to_bcd(l.hour) /\ decToBcd(l.mday) = to_bcd(l.mday)
      /\ decToBcd(l.mon + 1) = to_bcd(l.mon + 1)
      /\ decToBcd(l.year - 100) = to_bcd(l.year % 100) /\ l.wday % 8 = l.wday
  <2>1. l.year - 100 = l.year % 100 /\ l.wday % 8 = l.wday
    BY <1>2, <1>3
  <2> QED
    BY <2>1 DEF decToBcd, to_bcd
<1>8. /\ ByteAt(t, REG_SEC) \in Byte /\ ByteAt(t, REG_MIN) \in Byte
      /\ ByteAt(t, REG_HOUR) \in Byte /\ ByteAt(t, REG_DAY) \in Byte
      /\ ByteAt(t, REG_WEEKDAY) \in Byte /\ ByteAt(t, REG_MONTH) \in Byte
      /\ ByteAt(t, REG_YEAR) \in Byte
  BY <1>5 DEF REG_SEC, REG_MIN, REG_HOUR, REG_DAY, REG_WEEKDAY, REG_MONTH, REG_YEAR
<1>7. BytesOf(l) = <<ByteAt(t, REG_SEC), ByteAt(t, REG_MIN), ByteAt(t, REG_HOUR),
                     ByteAt(t, REG_DAY), ByteAt(t, REG_WEEKDAY), ByteAt(t, REG_MONTH),
                     ByteAt(t, REG_YEAR)>>
  <2>1. BytesOf(l) = <<decToBcd(l.sec), decToBcd(l.min), decToBcd(l.hour), decToBcd(l.mday),
                       l.wday % 8>> \o <<decToBcd(l.mon + 1) + 128, decToBcd(l.year - 100)>>
    BY <1>3 DEF BytesOf
  <2> DEFINE a == <<ByteAt(t, REG_SEC), ByteAt(t, REG_MIN), ByteAt(t, REG_HOUR),
                    ByteAt(t, REG_DAY), ByteAt(t, REG_WEEKDAY)>>
             b == <<ByteAt(t, REG_MONTH), ByteAt(t, REG_YEAR)>>
  <2>2. BytesOf(l) = a \o b
    BY <2>1, <1>4, <1>6
  <2>3. a \in Seq(Byte) /\ b \in Seq(Byte) /\ Len(a) = 5 /\ Len(b) = 2
    BY <1>8
  <2>4. /\ a[1] = ByteAt(t, REG_SEC) /\ a[2] = ByteAt(t, REG_MIN) /\ a[3] = ByteAt(t, REG_HOUR)
        /\ a[4] = ByteAt(t, REG_DAY) /\ a[5] = ByteAt(t, REG_WEEKDAY)
        /\ b[1] = ByteAt(t, REG_MONTH) /\ b[2] = ByteAt(t, REG_YEAR)
    OBVIOUS
  <2> HIDE DEF a, b
  <2>9. /\ Len(a \o b) = Len(a) + Len(b) /\ a \o b \in Seq(Byte)
        /\ \A i \in 1..Len(a) + Len(b) :
             (a \o b)[i] = IF i =< Len(a) THEN a[i] ELSE b[i - Len(a)]
    BY <2>3, ConcatProperties, Zenon
  <2>5. /\ Len(a \o b) = 7 /\ a \o b \in Seq(Byte)
        /\ (a \o b)[1] = a[1] /\ (a \o b)[2] = a[2] /\ (a \o b)[3] = a[3]
        /\ (a \o b)[4] = a[4] /\ (a \o b)[5] = a[5]
        /\ (a \o b)[6] = b[1] /\ (a \o b)[7] = b[2]
    BY <2>3, <2>9
  <2> DEFINE c == a \o b
  <2> HIDE DEF c
  <2>6. c \in Seq(Byte) /\ Len(c) = 7
    BY <2>5 DEF c
  <2>7. c = <<c[1], c[2], c[3], c[4], c[5], c[6], c[7]>>
    BY <2>6
  <2>8. /\ c[1] = ByteAt(t, REG_SEC) /\ c[2] = ByteAt(t, REG_MIN) /\ c[3] = ByteAt(t, REG_HOUR)
        /\ c[4] = ByteAt(t, REG_DAY) /\ c[5] = ByteAt(t, REG_WEEKDAY)
        /\ c[6] = ByteAt(t, REG_MONTH) /\ c[7] = ByteAt(t, REG_YEAR)
    BY <2>4, <2>5 DEF c
  <2> QED
    BY <2>2, <2>7, <2>8, Zenon DEF c
<1>9. \A r \in REG_SEC..REG_YEAR : BytesOf(l)[r - REG_SEC + 1] = ByteAt(t, r)
  BY <1>7 DEF REG_SEC, REG_MIN, REG_HOUR, REG_DAY, REG_WEEKDAY, REG_MONTH, REG_YEAR
<1> QED
  BY <1>7, <1>8, <1>9 DEF l

\* When all seven are there, the device has the time.
LEMMA StoredTime ==
  ASSUME NEW t \in SetTimes, NEW r,
         \A q \in REG_SEC..REG_YEAR : r[q] = ByteAt(t, q)
  PROVE  StoreTime(r) = t
<1> DEFINE l == Localtime(t)
           f == [sec |-> from_bcd(r[REG_SEC] % 128), min |-> from_bcd(r[REG_MIN] % 128),
                 hour |-> from_bcd(r[REG_HOUR] % 64), mday |-> from_bcd(r[REG_DAY] % 64),
                 mon |-> from_bcd(r[REG_MONTH] % 32) - 1,
                 year |-> from_bcd(r[REG_YEAR]) + IF r[REG_MONTH] >= 128 THEN 100 ELSE 0]
<1>1. t \in Modern /\ t \in Times /\ InRange(t)
  BY ModernTimes
<1>2. l.mon \in 0..11 /\ l.year \in 100..199
  BY <1>1, LocaltimeFields, YearsInRange
<1>3. /\ ByteAt(t, REG_MONTH) >= 128
      /\ from_bcd(ByteAt(t, REG_SEC) % 128) = l.sec
      /\ from_bcd(ByteAt(t, REG_MIN) % 128) = l.min
      /\ from_bcd(ByteAt(t, REG_HOUR) % 64) = l.hour
      /\ from_bcd(ByteAt(t, REG_DAY) % 64) = l.mday
      /\ from_bcd(ByteAt(t, REG_MONTH) % 32) = l.mon + 1
      /\ from_bcd(ByteAt(t, REG_YEAR)) = l.year % 100
  BY <1>1, ByteFields
<1> HIDE DEF l
<1>4. /\ r[REG_SEC] = ByteAt(t, REG_SEC) /\ r[REG_MIN] = ByteAt(t, REG_MIN)
      /\ r[REG_HOUR] = ByteAt(t, REG_HOUR) /\ r[REG_DAY] = ByteAt(t, REG_DAY)
      /\ r[REG_MONTH] = ByteAt(t, REG_MONTH) /\ r[REG_YEAR] = ByteAt(t, REG_YEAR)
  BY DEF REG_SEC, REG_MIN, REG_HOUR, REG_DAY, REG_MONTH, REG_YEAR
<1>5. l.mon + 1 - 1 = l.mon /\ (l.year % 100) + 100 = l.year
  BY <1>2
<1>6. /\ f.sec = l.sec /\ f.min = l.min /\ f.hour = l.hour /\ f.mday = l.mday
      /\ f.mon = l.mon /\ f.year = l.year
  <2>1. /\ f.sec = from_bcd(r[REG_SEC] % 128) /\ f.min = from_bcd(r[REG_MIN] % 128)
        /\ f.hour = from_bcd(r[REG_HOUR] % 64) /\ f.mday = from_bcd(r[REG_DAY] % 64)
        /\ f.mon = from_bcd(r[REG_MONTH] % 32) - 1
        /\ f.year = from_bcd(r[REG_YEAR]) + IF r[REG_MONTH] >= 128 THEN 100 ELSE 0
    OBVIOUS
  <2> HIDE DEF f
  <2>2. f.sec = l.sec /\ f.min = l.min /\ f.hour = l.hour /\ f.mday = l.mday
    BY <1>3, <1>4, <2>1
  <2>3. f.mon = l.mon
    <3> DEFINE v == from_bcd(r[REG_MONTH] % 32)
    <3>1. v = l.mon + 1 /\ f.mon = v - 1
      BY <1>3, <1>4, <2>1
    <3> HIDE DEF v
    <3> QED
      BY <1>2, <3>1
  <2>4. f.year = (l.year % 100) + 100
    BY <1>3, <1>4, <2>1, Zenon
  <2> QED
    BY <1>5, <2>2, <2>3, <2>4
<1> HIDE DEF f
<1>7. Mktime(f) = t
  BY <1>1, <1>6, MktimeOfFields DEF l
<1> QED
  BY <1>7 DEF StoreTime, f

\* Whatever is stored in between is a time since 2000.
LEMMA StoredSince2000 ==
  ASSUME NEW r \in RegSet, Since2000(r)
  PROVE  StoreTime(r) \in Modern
<1> DEFINE mon == from_bcd(r[REG_MONTH] % 32) - 1
           year == from_bcd(r[REG_YEAR]) + 100
           mday == from_bcd(r[REG_DAY] % 64)
           secs == from_bcd(r[REG_HOUR] % 64) * 3600 + from_bcd(r[REG_MIN] % 128) * 60
                     + from_bcd(r[REG_SEC] % 128)
<1>1. /\ r[REG_SEC] \in Nat /\ r[REG_MIN] \in Nat /\ r[REG_HOUR] \in Nat
      /\ r[REG_DAY] \in Nat /\ r[REG_MONTH] \in Nat /\ r[REG_YEAR] \in Nat
  <2>1. /\ r[REG_SEC] \in Byte /\ r[REG_MIN] \in Byte /\ r[REG_HOUR] \in Byte
        /\ r[REG_DAY] \in Byte /\ r[REG_MONTH] \in Byte /\ r[REG_YEAR] \in Byte
    BY Registers DEF RegSet
  <2> QED
    BY <2>1, ByteIs
<1>n. \A n \in Nat : from_bcd(n) \in Nat /\ n % 128 \in Nat /\ n % 64 \in Nat /\ n % 32 \in Nat
  BY DEF from_bcd
<1>2. mon \in 0..11 /\ year \in Nat /\ year >= 100 /\ mday \in Nat /\ mday >= 1
  <2>1. mon \in 0..11
    BY DEF Since2000
  <2>2. from_bcd(r[REG_YEAR]) \in Nat /\ mday \in Nat
    BY <1>1, <1>n
  <2> QED
    BY <2>1, <2>2 DEF Since2000
<1>3. secs \in Nat
  <2>1. /\ from_bcd(r[REG_HOUR] % 64) \in Nat /\ from_bcd(r[REG_MIN] % 128) \in Nat
        /\ from_bcd(r[REG_SEC] % 128) \in Nat
    BY <1>1, <1>n
  <2> QED
    BY <2>1
<1>4. StoreTime(r) = [day |-> MonthStart(1900 + year + mon \div 12, mon % 12) + mday - 1
                                + secs \div 86400,
                      sec |-> secs % 86400]
  BY DEF StoreTime, Mktime, Since2000
<1> HIDE DEF mon, year, mday, secs
<1>5. mon \div 12 = 0 /\ mon % 12 = mon /\ 1900 + year + 0 = 1900 + year /\ 1900 + year \in Int
  BY <1>2
<1>6. /\ MonthStart(1900 + year, mon) \in Int
      /\ YearStart(1900 + year) =< MonthStart(1900 + year, mon)
  <2> DEFINE y == 1900 + year
  <2> HIDE DEF y
  <2>1. y \in Int
    BY <1>5 DEF y
  <2>2. MonthStart(y, mon) \in Int /\ YearStart(y) =< MonthStart(y, mon)
    BY <1>2, <2>1, MonthLength
  <2> QED
    BY <2>2 DEF y
<1>7. /\ YearStart(2000) \in Int /\ YearStart(1900 + year) \in Int
      /\ YearStart(2000) =< YearStart(1900 + year)
  <2>1. year > 100 => YearStart(2000) + 365 =< YearStart(1900 + year)
    BY <1>2, YearsGrow
  <2>2. YearStart(2000) \in Int /\ YearStart(1900 + year) \in Int
    BY <1>5, YearLength
  <2>3. year = 100 => 1900 + year = 2000
    OBVIOUS
  <2> QED
    BY <1>2, <2>1, <2>2, <2>3
<1>8. secs \div 86400 \in Nat /\ secs % 86400 \in Nat /\ secs % 86400 < 86400
  BY <1>3
<1>9. /\ StoreTime(r).day = MonthStart(1900 + year, mon) + mday - 1 + secs \div 86400
      /\ StoreTime(r).sec = secs % 86400
      /\ StoreTime(r) = [day |-> StoreTime(r).day, sec |-> StoreTime(r).sec]
  BY <1>4, <1>5
<1>10. StoreTime(r).day \in Int /\ StoreTime(r).day >= YearStart(2000)
  BY <1>2, <1>6, <1>7, <1>8, <1>9
<1> QED
  BY <1>8, <1>9, <1>10 DEF Times, Modern

-----------------------------------------------------------------------------
(* The order of times                                                      *)

NotAfter(t, u) == t.day < u.day \/ (t.day = u.day /\ t.sec =< u.sec)
SameMinute(t, u) == t.day = u.day /\ t.sec \div 60 = u.sec \div 60

\* NotAfter is an order, and Before is its strict part.
LEMMA TimesOrdered ==
  /\ \A t \in Times : NotAfter(t, t) /\ SameMinute(t, t)
  /\ \A t, u, v \in Times : NotAfter(t, u) /\ NotAfter(u, v) => NotAfter(t, v)
  /\ \A t, u \in Times : NotAfter(t, u) => ~Before(u, t)
  BY DEF Times, NotAfter, SameMinute, Before

\* The next second is later; it is of the same minute or the minute differs.
LEMMA SecondsGoOn ==
  ASSUME NEW t \in Times
  PROVE  /\ NextSecond(t) \in Times /\ NextSecond(t) # NoTime
         /\ t \in Modern => NextSecond(t) \in Modern
         /\ NotAfter(t, NextSecond(t))
         /\ \/ SameMinute(t, NextSecond(t))
            \/ t.sec \div 60 # NextSecond(t).sec \div 60
<1>1. t.day \in Int /\ t.sec \in Nat /\ t.sec < 86400 /\ t = [day |-> t.day, sec |-> t.sec]
  BY DEF Times
<1>4. YearStart(2000) \in Int
  BY YearLength
<1>2. CASE t.sec = 86399
  <2>1. NextSecond(t) = [day |-> t.day + 1, sec |-> 0]
    BY <1>2 DEF NextSecond
  <2> QED
    BY <1>1, <1>2, <1>4, <2>1 DEF Times, Modern, NotAfter, NoTime
<1>3. CASE t.sec # 86399
  <2>1. NextSecond(t) = [day |-> t.day, sec |-> t.sec + 1]
    BY <1>1, <1>3 DEF NextSecond
  <2>2. t.sec + 1 \in Nat /\ t.sec + 1 < 86400
    BY <1>1, <1>3
  <2> QED
    BY <1>1, <1>4, <2>1, <2>2 DEF Times, Modern, NotAfter, SameMinute, NoTime
<1> QED
  BY <1>2, <1>3

\* In one minute only the seconds change.
LEMMA SameFields ==
  ASSUME NEW t \in Times, NEW u \in Times, SameMinute(t, u)
  PROVE  /\ Localtime(t).min = Localtime(u).min /\ Localtime(t).hour = Localtime(u).hour
         /\ Localtime(t).mday = Localtime(u).mday /\ Localtime(t).wday = Localtime(u).wday
         /\ Localtime(t).mon = Localtime(u).mon /\ Localtime(t).year = Localtime(u).year
<1>1. /\ t.day = u.day /\ t.sec \in Nat /\ u.sec \in Nat
      /\ t.sec \div 60 = u.sec \div 60
  BY DEF Times, SameMinute
<1>2. (t.sec \div 60) % 60 = (u.sec \div 60) % 60 /\ t.sec \div 3600 = u.sec \div 3600
  BY <1>1
<1> QED
  BY <1>1, <1>2 DEF Localtime

\* The month of a later time starts no earlier, and its year is no earlier.
LEMMA MonthNotBefore ==
  ASSUME NEW t \in Times, NEW u \in Times, t.day =< u.day
  PROVE  /\ Localtime(t).year =< Localtime(u).year
         /\ MonthStart(1900 + Localtime(t).year, Localtime(t).mon)
              =< MonthStart(1900 + Localtime(u).year, Localtime(u).mon)
<1> DEFINE y == 1900 + Localtime(t).year
           z == 1900 + Localtime(u).year
           m == Localtime(t).mon
           n == Localtime(u).mon
           d == t.day
           e == u.day
<1>1. /\ m \in 0..11 /\ n \in 0..11 /\ y \in Int /\ z \in Int
      /\ Localtime(t).year \in Int /\ Localtime(u).year \in Int
  BY LocaltimeFields
<1>2. /\ YearStart(y) =< d
      /\ MonthStart(y, m) + Localtime(t).mday - 1 = d /\ Localtime(t).mday \in 1..31
  BY LocaltimeFields
<1>3. /\ e < YearStart(1901 + Localtime(u).year)
      /\ n < 11 => e < MonthStart(z, n + 1)
  BY LocaltimeFields
<1>4. d \in Int /\ e \in Int /\ d =< e
  BY DEF Times
<1>5. 1901 + Localtime(u).year = z + 1
  BY <1>1
<1>6. Localtime(t).year =< Localtime(u).year <=> y =< z
  BY <1>1
<1>7. Localtime(t).mday \in Int
  BY <1>2
<1> DEFINE k == Localtime(t).mday
<1> HIDE DEF y, z, m, n, d, e, k
<1>8. /\ MonthStart(y, m) \in Int /\ YearStart(y) \in Int /\ YearStart(z + 1) \in Int
      /\ MonthStart(z, n) \in Int /\ YearStart(y + 1) \in Int /\ YearStart(z) \in Int
  <2>1. y + 1 \in Int /\ z + 1 \in Int
    BY <1>1
  <2> QED
    BY <1>1, <2>1, MonthLength, YearLength
<1>9. MonthStart(y, m) =< d
  BY <1>2, <1>4, <1>8 DEF k
<1>10. y =< z
  <2>1. z < y => z + 1 = y \/ YearStart(z + 1) + 365 =< YearStart(y)
    <3>1. z + 1 \in Int /\ z + 1 < y => YearStart(z + 1) + 365 =< YearStart(y)
      BY <1>1, YearsGrow
    <3> QED
      BY <1>1, <3>1
  <2>2. YearStart(y) < YearStart(z + 1)
    BY <1>2, <1>3, <1>4, <1>5, <1>8
  <2> QED
    BY <1>1, <1>8, <2>1, <2>2
<1>11. CASE y < z
  <2>1. MonthStart(y, m) + 31 =< YearStart(y + 1)
    BY <1>1, MonthLength
  <2>2. YearStart(z) =< MonthStart(z, n)
    BY <1>1, MonthLength
  <2>3. y + 1 = z \/ YearStart(y + 1) + 365 =< YearStart(z)
    BY <1>1, <1>11, YearsGrow
  <2>4. MonthStart(y, m) =< MonthStart(z, n)
    BY <1>8, <2>1, <2>2, <2>3
  <2> QED
    BY <1>6, <1>10, <2>4 DEF y, z, m, n
<1>12. CASE y = z
  <2>1. CASE m =< n
    <3>1. CASE m = n
      BY <1>6, <1>8, <1>10, <1>12, <3>1 DEF y, z, m, n
    <3>2. CASE m < n
      <4>1. m < 11 /\ m + 1 \in 0..11
        BY <1>1, <3>2
      <4>2. /\ MonthStart(y, m) + 28 =< MonthStart(y, m + 1) /\ MonthStart(y, m + 1) \in Int
            /\ MonthStart(y, m + 1) =< MonthStart(y, n)
        BY <1>1, <3>2, <4>1, MonthLength, MonthsGrow
      <4>3. MonthStart(y, m) =< MonthStart(z, n)
        BY <1>8, <1>12, <4>2
      <4> QED
        BY <1>6, <1>10, <4>3 DEF y, z, m, n
    <3> QED
      BY <1>1, <2>1, <3>1, <3>2
  <2>2. CASE n < m
    <3>1. n < 11 /\ n + 1 \in 0..11
      BY <1>1, <2>2
    <3>2. MonthStart(z, n + 1) =< MonthStart(y, m) /\ MonthStart(z, n + 1) \in Int
      BY <1>1, <1>12, <2>2, <3>1, MonthLength, MonthsGrow
    <3>3. e < MonthStart(z, n + 1)
      BY <1>3, <3>1
    <3> QED
      BY <1>4, <1>8, <1>9, <3>2, <3>3
  <2> QED
    BY <1>1, <2>1, <2>2
<1> QED
  BY <1>1, <1>10, <1>11, <1>12

\* A month of a later year starts no earlier.
LEMMA SameMonthLater ==
  ASSUME NEW y \in Int, NEW z \in Int, y =< z, NEW m \in 0..11
  PROVE  MonthStart(y, m) =< MonthStart(z, m)
<1>1. /\ MonthStart(y, m) + 31 =< YearStart(y + 1) /\ MonthStart(y, m) \in Int
      /\ YearStart(z) =< MonthStart(z, m) /\ MonthStart(z, m) \in Int
  BY MonthLength
<1>2. y + 1 \in Int /\ y + 1 < z => YearStart(y + 1) + 365 =< YearStart(z)
  BY YearsGrow
<1>3. YearStart(y + 1) \in Int /\ YearStart(z) \in Int
  <2>1. y + 1 \in Int
    OBVIOUS
  <2> QED
    BY <2>1, YearLength
<1>4. y + 1 < z \/ y + 1 = z \/ y = z
  OBVIOUS
<1> QED
  BY <1>1, <1>2, <1>3, <1>4

-----------------------------------------------------------------------------
(* The inductive invariant                                                 *)

TypesInv ==
  /\ regs \in RegSet /\ Since2000(regs)
  /\ reg \in Byte
  /\ waiting_reg \in BOOLEAN
  /\ timestamp \in Modern
  /\ timers \in Seq(0..Period) /\ timers # <<>>
  /\ op \in {"idle", "getAddress", "get", "setAddress", "set"}
  /\ op \in {"getAddress", "setAddress"} => waiting_reg
  /\ op = "getAddress" => buf = <<>>
  /\ op = "get" => buf \in Seq(Byte) /\ reg = Len(buf) /\ Len(buf) =< 9

\* In the middle of set_time: the registers up to the pointer hold the bytes of the time
\* that is set, the buffer the others.
SetInv ==
  /\ expected \in Times \cup {NoTime}
  /\ op = "setAddress" => expected \in SetTimes /\ buf = BytesOf(Localtime(expected))
  /\ op = "set" =>
       /\ expected \in SetTimes
       /\ ~waiting_reg /\ reg \in 2..8
       /\ buf \in Seq(Byte) /\ Len(buf) = 9 - reg
       /\ \A i \in 1..Len(buf) : buf[i] = ByteAt(expected, reg + i - 1)
       /\ \A r \in 2..reg - 1 : regs[r] = ByteAt(expected, r)
  /\ TimeKept

\* During get_time the times seen are between the first and the present one.
SeenInv ==
  /\ seen \subseteq Modern
  /\ Getting =>
       /\ first \in seen /\ timestamp \in seen
       /\ \A t \in seen : NotAfter(first, t) /\ NotAfter(t, timestamp)
       /\ Carried \/ \A t, u \in seen : SameMinute(t, u)

\* In the middle of it each byte is of a time the clock had since the call began, a later
\* byte of the same or a later time.
IsReading(s, b) ==
  /\ \A r \in 2..8 : r < Len(b) => b[r + 1] = ByteAt(s[r], r)
  /\ \A q, r \in 2..8 : q =< r => NotAfter(s[q], s[r])

ReadInv ==
  /\ Getting => tm = NoTm
  /\ op = "get" => \E s \in [2..8 -> seen] : IsReading(s, buf)
  /\ tm # NoTm /\ (\A t \in seen : InRange(t)) =>
       \/ \E t \in seen : tm = Localtime(t)
       \/ Carried /\ ~Before(Mktime(tm), first)

\* The timer in use will fire when the next second is due, or up to a second early for
\* each forgotten timer that has fired: that one has armed it anew.
Forgotten == Len(timers) - 1
Early == (ticks + 1) * Period - (age + timers[Len(timers)])

ClockInv ==
  /\ age \in Nat /\ ticks \in Nat /\ pending \in Nat
  /\ Forgotten =< pending
  /\ 0 =< Early /\ Early =< (pending - Forgotten) * Period

IInv == TypesInv /\ SetInv /\ SeenInv /\ ReadInv /\ ClockInv

-----------------------------------------------------------------------------
(* The timers                                                              *)

\* What TypesInv says of the timers, one by one.
LEMMA Timers ==
  ASSUME timers \in Seq(0..Period), timers # <<>>
  PROVE  /\ Period \in Nat /\ Period >= 1
         /\ Len(timers) \in Nat /\ Len(timers) >= 1
         /\ \A i \in 1..Len(timers) : timers[i] \in 0..Period
         /\ DOMAIN timers = 1..Len(timers)
  BY Pcf8563Assumption

\* Whichever timer fires, the one in use is armed; a forgotten one is gone.
LEMMA Rearmed ==
  ASSUME timers \in Seq(0..Period), timers # <<>>, NEW i \in Due
  PROVE  /\ Rearm(i) \in Seq(0..Period) /\ Rearm(i) # <<>>
         /\ Rearm(i)[Len(Rearm(i))] = Period
         /\ Len(Rearm(i)) = IF i = Len(timers) THEN Len(timers) ELSE Len(timers) - 1
         /\ i = Len(timers) => timers[Len(timers)] = 0
<1> DEFINE n == Len(timers)
           S == 0..Period
           armed == [timers EXCEPT ![n] = Period]
<1>1. /\ Period \in S /\ n \in Nat /\ n >= 1 /\ i \in 1..n /\ timers[i] = 0
      /\ timers \in Seq(S)
  BY Timers DEF Due
<1> HIDE DEF S
<1>2. armed \in Seq(S) /\ Len(armed) = n /\ armed[n] = Period
  BY <1>1
<1> HIDE DEF armed
<1>3. CASE i = n
  <2>1. Rearm(i) = armed
    BY <1>3 DEF Rearm, armed
  <2> QED
    BY <1>1, <1>2, <1>3, <2>1 DEF S
<1>4. CASE i # n
  <2> DEFINE a == SubSeq(armed, 1, i - 1)
             b == SubSeq(armed, i + 1, n)
  <2>1. Rearm(i) = a \o b
    BY <1>4 DEF Rearm, armed
  <2>2. i \in Nat /\ i >= 1 /\ i < n
    BY <1>1, <1>4
  <2>3. a \in Seq(S) /\ Len(a) = i - 1
    <3>1. i - 1 \in 0..Len(armed)
      BY <1>1, <1>2, <2>2
    <3>2. \A j \in 1..i - 1 : armed[j] \in S
      BY <1>1, <1>2, <2>2
    <3> QED
      BY <1>1, <1>2, <2>2, <3>1, <3>2
  <2>4. b \in Seq(S) /\ Len(b) = n - i /\ b[n - i] = armed[n]
    <3>1. \A j \in i + 1..n : armed[j] \in S
      BY <1>1, <1>2, <2>2
    <3> QED
      BY <1>1, <1>2, <2>2, <3>1
  <2> HIDE DEF a, b
  <2>5. /\ a \o b \in Seq(S) /\ Len(a \o b) = Len(a) + Len(b)
        /\ \A j \in 1..Len(a) + Len(b) :
             (a \o b)[j] = IF j =< Len(a) THEN a[j] ELSE b[j - Len(a)]
    BY <2>3, <2>4, ConcatProperties, Zenon
  <2>6. Len(a) + Len(b) = n - 1
    BY <1>1, <2>2, <2>3, <2>4
  <2>7. (a \o b)[n - 1] = b[n - i]
    <3>1. n - 1 \in 1..Len(a) + Len(b) /\ ~(n - 1 =< Len(a)) /\ n - 1 - Len(a) = n - i
      BY <1>1, <2>2, <2>3, <2>6
    <3> QED
      BY <2>5, <3>1
  <2>8. a \o b # <<>>
    BY <1>1, <2>2, <2>5, <2>6
  <2> QED
    BY <1>2, <1>4, <2>1, <2>4, <2>5, <2>6, <2>7, <2>8 DEF S
<1> QED
  BY <1>3, <1>4

\* When none is due, every timer may come an instant closer.
LEMMA Advanced ==
  ASSUME timers \in Seq(0..Period), timers # <<>>, Due = {}
  PROVE  LET later == [i \in DOMAIN timers |-> timers[i] - 1] IN
         /\ later \in Seq(0..Period) /\ later # <<>>
         /\ Len(later) = Len(timers) /\ later[Len(later)] = timers[Len(timers)] - 1
<1> DEFINE n == Len(timers)
           later == [i \in DOMAIN timers |-> timers[i] - 1]
<1>1. \A i \in 1..n : timers[i] - 1 \in 0..Period
  <2> TAKE i \in 1..n
  <2>1. timers[i] # 0 /\ timers[i] \in 0..Period /\ Period \in Nat
    BY Timers DEF Due
  <2> QED
    BY <2>1
<1>2. n \in Nat /\ n >= 1 /\ later = [i \in 1..n |-> timers[i] - 1]
  BY Timers
<1>3. later \in Seq(0..Period) /\ Len(later) = n /\ later[n] = timers[n] - 1
  BY <1>1, <1>2
<1>4. later # <<>>
  BY <1>2, <1>3
<1> QED
  BY <1>3, <1>4

\* Multiplication, for one more or one fewer timer.
LEMMA Products ==
  /\ \A a, b \in Nat : a * b \in Nat
  /\ \A a, b \in Int : a * b \in Int /\ (a + 1) * b = a * b + b
  /\ \A a, b, c \in Nat : a =< b => a * c =< b * c
  OBVIOUS

\* ClockInv is inductive.
LEMMA ClockKept ==
  ASSUME TypesInv, ClockInv, Next
  PROVE  ClockInv'
<1> DEFINE n == Len(timers)
           p == Period
           last == timers[n]
           left == (pending - Forgotten) * p
           due == (ticks + 1) * p
<1>1. /\ p \in Nat /\ p >= 1 /\ n \in Nat /\ n >= 1 /\ last \in 0..p
      /\ age \in Nat /\ ticks \in Nat /\ pending \in Nat /\ pending - Forgotten \in Nat
      /\ left \in Nat /\ due \in Nat
      /\ 0 =< due - (age + last) /\ due - (age + last) =< left
      /\ Forgotten = n - 1
  <2>1. /\ timers \in Seq(0..Period) /\ timers # <<>>
        /\ age \in Nat /\ ticks \in Nat /\ pending \in Nat /\ Forgotten =< pending
        /\ 0 =< Early /\ Early =< (pending - Forgotten) * Period
    BY DEF TypesInv, ClockInv
  <2>2. /\ p \in Nat /\ p >= 1 /\ n \in Nat /\ n >= 1 /\ last \in 0..p
        /\ Forgotten = n - 1
    BY <2>1, Timers DEF Forgotten
  <2>3. pending - Forgotten \in Nat /\ ticks + 1 \in Nat
    BY <2>1, <2>2
  <2>4. left \in Nat /\ due \in Nat
    BY <2>2, <2>3, Products
  <2> QED
    BY <2>1, <2>2, <2>3, <2>4 DEF Early
<1>2. ASSUME UNCHANGED <<timers, age, ticks, pending>>
      PROVE  ClockInv'
  BY <1>2 DEF ClockInv, Forgotten, Early
<1>3. CASE GetBegin
  BY <1>2, <1>3 DEF GetBegin, StartSend, clockVars
<1>4. CASE GetAddress
  BY <1>2, <1>4 DEF GetAddress, Send, clockVars
<1>5. CASE GetByte
  BY <1>2, <1>5 DEF GetByte, Recv, clockVars
<1>6. CASE GetEnd
  BY <1>2, <1>6 DEF GetEnd, device, clockVars
<1>7. CASE SetBegin
  BY <1>2, <1>7 DEF SetBegin, StartSend, clockVars
<1>8. CASE SetAddress
  BY <1>2, <1>8 DEF SetAddress, Send, clockVars
<1>9. CASE SetByte
  BY <1>2, <1>9 DEF SetByte, Send, clockVars
<1>10. CASE TransferFails
  BY <1>2, <1>10 DEF TransferFails, device, clockVars
<1>11. CASE Tick
  <2>1. PICK i \in Due : timers' = Rearm(i)
    BY <1>11 DEF Tick, TimerCb
  <2>2. ticks' = ticks + 1 /\ age' = age /\ pending' = pending
    BY <1>11 DEF Tick
  <2>3. /\ timers'[Len(timers')] = p
        /\ Len(timers') = IF i = n THEN n ELSE n - 1
        /\ i = n => last = 0
    BY <2>1, Rearmed DEF TypesInv
  <2>4. Early' = (ticks + 1 + 1) * p - (age + p) /\ Forgotten' = Len(timers') - 1
    BY <2>2, <2>3 DEF Early, Forgotten
  <2>5. (ticks + 1 + 1) * p = due + p
    BY <1>1, Products
  <2>6. Early' = due - age
    BY <1>1, <2>4, <2>5
  <2>7. 0 =< Early' /\ Forgotten' =< pending /\ Early' =< (pending - Forgotten') * p
    <3>1. CASE i = n
      <4>1. Forgotten' = Forgotten
        BY <1>1, <2>3, <2>4, <3>1
      <4> HIDE DEF due
      <4>2. 0 =< Early' /\ Early' =< left
        BY <1>1, <2>3, <2>6, <3>1
      <4> QED
        BY <1>1, <4>1, <4>2
    <3>2. CASE i # n
      <4>5. Len(timers') = n - 1
        BY <2>3, <3>2
      <4>6. Forgotten' = n - 1 - 1
        BY <2>4, <4>5
      <4>1. Forgotten' = Forgotten - 1 /\ pending - Forgotten' = (pending - Forgotten) + 1
        BY <1>1, <4>6
      <4>2. (pending - Forgotten') * p = left + p
        BY <1>1, <4>1, Products
      <4> HIDE DEF left, due
      <4>3. 0 =< Early' /\ Early' =< left + p
        BY <1>1, <2>6
      <4>4. Forgotten' =< pending
        BY <1>1, <4>1
      <4> QED
        BY <4>2, <4>3, <4>4
    <3> QED
      BY <3>1, <3>2
  <2>8. ticks + 1 \in Nat
    BY <1>1
  <2> QED
    BY <1>1, <2>2, <2>7, <2>8 DEF ClockInv
<1>12. CASE TimePasses
  <2>1. /\ Len(timers') = n /\ timers'[Len(timers')] = last - 1
        /\ age' = age + 1 /\ ticks' = ticks /\ pending' = pending
    BY <1>12, Advanced DEF TimePasses, Advance, TypesInv
  <2>2. Forgotten' = Forgotten /\ age + 1 \in Nat
    BY <1>1, <2>1 DEF Forgotten
  <2>3. Early' = due - (age + 1 + (last - 1))
    BY <2>1 DEF Early
  <2> HIDE DEF last
  <2>4. Early' = due - (age + last)
    BY <1>1, <2>3
  <2> QED
    BY <1>1, <2>1, <2>2, <2>4 DEF ClockInv
<1>13. CASE MachineReset
  <2>1. /\ age' = 0 /\ ticks' = 0 /\ pending' = n /\ timers' = Append(timers, p)
    BY <1>13 DEF MachineReset, Reset
  <2>2. /\ timers \in Seq(0..Period) /\ p \in 0..Period
    BY <1>1 DEF TypesInv
  <2>3. Len(timers') = n + 1 /\ timers'[Len(timers')] = p
    BY <2>1, <2>2
  <2>4. Forgotten' = n
    BY <1>1, <2>3 DEF Forgotten
  <2>5. Early' = 0 /\ (pending' - Forgotten') * p = 0
    BY <1>1, <2>1, <2>3, <2>4 DEF Early
  <2> QED
    BY <1>1, <2>1, <2>4, <2>5 DEF ClockInv
<1> QED
  BY <1>3, <1>4, <1>5, <1>6, <1>7, <1>8, <1>9, <1>10, <1>11, <1>12, <1>13 DEF Next

\* What it says of the rate.
LEMMA ClockRateHolds ==
  ASSUME TypesInv, ClockInv
  PROVE  ClockRate
<1> SUFFICES ASSUME Due = {}
             PROVE  ticks - age \div Period \in 0..pending
  BY DEF ClockRate
<1> DEFINE n == Len(timers)
           p == Period
           last == timers[n]
           f == pending - Forgotten
           q == age \div p
<1>1. /\ p \in Nat /\ p >= 1 /\ n \in Nat /\ n >= 1 /\ last \in 0..p
      /\ n \in DOMAIN timers
      /\ age \in Nat /\ ticks \in Nat /\ pending \in Nat /\ f \in Nat /\ f =< pending
      /\ 0 =< (ticks + 1) * p - (age + last) /\ (ticks + 1) * p - (age + last) =< f * p
  <2>1. /\ timers \in Seq(0..Period) /\ timers # <<>>
        /\ age \in Nat /\ ticks \in Nat /\ pending \in Nat /\ Forgotten =< pending
        /\ 0 =< Early /\ Early =< (pending - Forgotten) * Period
    BY DEF TypesInv, ClockInv
  <2>2. /\ p \in Nat /\ p >= 1 /\ n \in Nat /\ n >= 1 /\ last \in 0..p
        /\ Forgotten = n - 1 /\ DOMAIN timers = 1..n
    BY <2>1, Timers DEF Forgotten
  <2>3. f \in Nat /\ f =< pending /\ n \in DOMAIN timers
    BY <2>1, <2>2
  <2> QED
    BY <2>1, <2>2, <2>3 DEF Early
<1>2. last # 0
  BY <1>1 DEF Due
<1> HIDE DEF f, last, n, p
<1>3. q \in Nat /\ q * p =< age /\ age < q * p + p
  BY <1>1
<1> HIDE DEF q
<1>4. q =< ticks
  <2>1. (ticks + 1) * p \in Nat /\ q * p \in Nat
    BY <1>1, <1>3, Products
  <2>2. q * p < (ticks + 1) * p
    BY <1>1, <1>2, <1>3, <2>1
  <2>3. ticks + 1 =< q => (ticks + 1) * p =< q * p
    BY <1>1, <1>3, Products
  <2> QED
    BY <1>1, <1>3, <2>1, <2>2, <2>3
<1>5. ticks - q =< f
  <2>1. /\ (ticks + 1) * p \in Nat /\ q * p \in Nat /\ f * p \in Nat
        /\ (q + f + 1) * p = q * p + f * p + p
    BY <1>1, <1>3, Products
  <2>2. (ticks + 1) * p < q * p + f * p + p + p
    BY <1>1, <1>3, <2>1
  <2>3. q + f + 2 =< ticks + 1 => (q + f + 2) * p =< (ticks + 1) * p
    BY <1>1, <1>3, Products
  <2>4. (q + f + 2) * p = q * p + f * p + p + p
    BY <1>1, <1>3, Products
  <2> QED
    BY <1>1, <1>3, <2>1, <2>2, <2>3, <2>4
<1>6. ticks - q \in 0..pending
  BY <1>1, <1>3, <1>4, <1>5
<1> QED
  BY <1>6 DEF q, p

-----------------------------------------------------------------------------
(* Types                                                                   *)

\* A byte of the time is one of the bytes written: the registers keep a month and a day.
LEMMA Written ==
  ASSUME NEW r \in RegSet, Since2000(r), NEW q \in 2..8, NEW t \in Modern,
         NEW w, w = [r EXCEPT ![q] = ByteAt(t, q)]
  PROVE  /\ w \in RegSet /\ Since2000(w)
         /\ w[q] = ByteAt(t, q) /\ \A i \in 2..8 : i # q => w[i] = r[i]
<1> DEFINE v == ByteAt(t, q)
<1>1. /\ v \in Byte /\ REG_SEC = 2 /\ REG_YEAR = 8 /\ REG_DAY = 5 /\ REG_MONTH = 7
      /\ REG_MAX = 15
  BY ByteFields DEF REG_SEC, REG_YEAR, REG_DAY, REG_MONTH, REG_MAX
<1>2. ByteAt(t, 7) >= 128 /\ from_bcd(ByteAt(t, 7) % 32) \in 1..12
  <2> DEFINE n == Localtime(t).mon
  <2>1. n \in 0..11 /\ from_bcd(ByteAt(t, 7) % 32) = n + 1 /\ ByteAt(t, 7) >= 128
    BY <1>1, ByteFields, ModernTimes, LocaltimeFields
  <2> HIDE DEF n
  <2>2. n + 1 \in 1..12
    BY <2>1
  <2> QED
    BY <2>1, <2>2
<1>3. from_bcd(ByteAt(t, 5) % 64) >= 1
  <2> DEFINE n == Localtime(t).mday
  <2>1. n \in 1..31 /\ from_bcd(ByteAt(t, 5) % 64) = n
    BY <1>1, ByteFields, ModernTimes, LocaltimeFields
  <2> HIDE DEF n
  <2>2. n >= 1
    BY <2>1
  <2> QED
    BY <2>1, <2>2
<1>4. r[7] >= 128 /\ from_bcd(r[7] % 32) \in 1..12 /\ from_bcd(r[5] % 64) >= 1
  BY <1>1 DEF Since2000
<1>0. w = [r EXCEPT ![q] = v]
  OBVIOUS
<1>5. w \in RegSet
  <2> HIDE DEF v
  <2> QED
    BY <1>0, <1>1 DEF RegSet
<1>6. w[q] = v /\ \A i \in 2..8 : i # q => w[i] = r[i]
  <2> HIDE DEF v
  <2> QED
    BY <1>0, <1>1 DEF RegSet
<1>7. w[7] >= 128 /\ from_bcd(w[7] % 32) \in 1..12
  BY <1>2, <1>4, <1>6
<1>8. from_bcd(w[5] % 64) >= 1
  BY <1>3, <1>4, <1>6
<1>9. Since2000(w)
  BY <1>1, <1>7, <1>8 DEF Since2000
<1> QED
  BY <1>5, <1>6, <1>9

\* After a reset the registers hold the time of the host.
LEMMA HostRegs ==
  ASSUME NEW host \in HostTimes
  PROVE  /\ host \in Modern
         /\ UpdateTime([r \in 0..REG_MAX |-> 0], host) \in RegSet
         /\ Since2000(UpdateTime([r \in 0..REG_MAX |-> 0], host))
<1>1. host \in Modern
  BY ModernTimes
<1>2. [r \in 0..REG_MAX |-> 0] \in RegSet
  BY ByteIs DEF RegSet
<1> QED
  BY <1>1, <1>2, UpdatedRegs

\* A set_time that has begun writes a byte of its time to its register.
LEMMA ByteWritten ==
  ASSUME TypesInv, SetInv, SetByte
  PROVE  /\ expected \in Modern
         /\ regs' = [regs EXCEPT ![reg] = ByteAt(expected, reg)]
         /\ timestamp' = StoreTime(regs') /\ reg' = reg + 1
         /\ waiting_reg' = waiting_reg /\ timers' = timers
<1>1. /\ expected \in SetTimes /\ ~waiting_reg /\ reg \in 2..8
      /\ buf \in Seq(Byte) /\ Len(buf) = 9 - reg
      /\ \A i \in 1..Len(buf) : buf[i] = ByteAt(expected, reg + i - 1)
  BY DEF SetByte, SetInv
<1>2. Head(buf) = ByteAt(expected, reg)
  <2>1. 1 \in 1..Len(buf) /\ reg + 1 - 1 = reg /\ Head(buf) = buf[1]
    BY <1>1
  <2> QED
    BY <1>1, <2>1
<1>3. /\ regs' = [regs EXCEPT ![reg] = Head(buf)]
      /\ timestamp' = StoreTime(regs')
      /\ reg' = reg + 1
      /\ waiting_reg' = waiting_reg /\ timers' = timers
  <2>1. reg =< REG_MAX /\ IsTime(reg) /\ (reg + 1) % 256 = reg + 1
    BY <1>1 DEF REG_MAX, IsTime, REG_SEC, REG_YEAR
  <2> QED
    BY <1>1, <2>1 DEF SetByte, Send
<1>4. expected \in Modern
  BY <1>1, ModernTimes
<1>5. regs' = [regs EXCEPT ![reg] = ByteAt(expected, reg)]
  BY <1>2, <1>3
<1>6. timestamp' = StoreTime(regs') /\ reg' = reg + 1
  BY <1>1, <1>3
<1>7. waiting_reg' = waiting_reg /\ timers' = timers
  BY <1>3
<1> QED
  BY <1>4, <1>5, <1>6, <1>7, Zenon

\* TypesInv is inductive, relative to SetInv.
LEMMA TypesKept ==
  ASSUME TypesInv, SetInv, Next
  PROVE  TypesInv'
<1>1. CASE GetBegin
  BY <1>1 DEF TypesInv, GetBegin, Begin, StartSend
<1>2. CASE GetAddress
  <2>1. /\ op' = "get" /\ reg' = 0 /\ UNCHANGED <<regs, timestamp, timers, buf>>
        /\ waiting_reg' = FALSE /\ buf = <<>>
    BY <1>2 DEF TypesInv, GetAddress, Send
  <2>2. 0 \in Byte /\ <<>> \in Seq(Byte) /\ Len(<<>>) = 0
    BY ByteIs
  <2>3. waiting_reg' \in BOOLEAN
    BY <2>1, Zenon
  <2>4. buf' \in Seq(Byte) /\ reg' = Len(buf') /\ Len(buf') =< 9
    BY <2>1, <2>2
  <2>5. reg' \in Byte /\ op' # "getAddress" /\ op' # "setAddress"
    BY <2>1, <2>2
  <2>6. UNCHANGED <<regs, timestamp, timers>> /\ op' = "get"
    BY <2>1
  <2> QED
    BY <2>3, <2>4, <2>5, <2>6 DEF TypesInv
<1>3. CASE GetByte
  <2>1. /\ op' = "get" /\ op = "get" /\ UNCHANGED <<waiting_reg, timestamp, timers>>
        /\ regs' = Read /\ buf' = Append(buf, RecvValue) /\ reg' = (reg + 1) % 256
        /\ buf \in Seq(Byte) /\ reg = Len(buf) /\ Len(buf) < 9
    BY <1>3 DEF TypesInv, GetByte, Recv
  <2>2. Read \in RegSet /\ Since2000(Read)
    BY UpdatedRegs DEF TypesInv, Read
  <2>3. RecvValue \in Byte
    <3>1. reg \in Nat /\ reg =< 15 /\ REG_MAX = 15
      BY <2>1 DEF REG_MAX
    <3>2. Read[reg] \in Byte
      BY <2>2, <3>1 DEF RegSet
    <3> QED
      BY <3>1, <3>2 DEF RecvValue
  <2>4. buf' \in Seq(Byte) /\ Len(buf') = Len(buf) + 1
    BY <2>1, <2>3
  <2>5. reg' = Len(buf) + 1 /\ Len(buf) + 1 =< 9 /\ Len(buf) + 1 \in Nat
    BY <2>1
  <2>6. reg' \in Byte /\ reg' = Len(buf') /\ Len(buf') =< 9
    BY <2>4, <2>5, ByteIs
  <2> QED
    BY <2>1, <2>2, <2>4, <2>6 DEF TypesInv
<1>4. CASE GetEnd
  BY <1>4 DEF TypesInv, GetEnd, device
<1>5. CASE SetBegin
  BY <1>5 DEF TypesInv, SetBegin, Begin, StartSend
<1>6. CASE SetAddress
  <2>1. /\ op' = "set" /\ reg' = REG_SEC /\ UNCHANGED <<regs, timestamp, timers>>
        /\ waiting_reg' = FALSE
    BY <1>6 DEF TypesInv, SetAddress, Send
  <2>2. REG_SEC \in Byte
    BY ByteIs DEF REG_SEC
  <2>3. waiting_reg' \in BOOLEAN
    BY <2>1, Zenon
  <2>4. UNCHANGED <<regs, timestamp, timers>> /\ op' = "set" /\ reg' \in Byte
    BY <2>1, <2>2
  <2> QED
    BY <2>3, <2>4 DEF TypesInv
<1>7. CASE SetByte
  <2>1. /\ expected \in Modern
        /\ regs' = [regs EXCEPT ![reg] = ByteAt(expected, reg)]
        /\ timestamp' = StoreTime(regs') /\ reg' = reg + 1
        /\ waiting_reg' = waiting_reg /\ timers' = timers
    BY <1>7, ByteWritten
  <2>2. reg \in 2..8
    BY <1>7 DEF SetInv, SetByte
  <2>7. regs \in RegSet /\ Since2000(regs)
    BY DEF TypesInv
  <2>3. regs' \in RegSet /\ Since2000(regs')
    BY <2>1, <2>2, <2>7, Written
  <2>4. StoreTime(regs') \in Modern
    BY <2>3, StoredSince2000
  <2>5. reg' \in Byte
    BY <2>1, <2>2, ByteIs
  <2>6. op' \in {"idle", "set"}
    BY <1>7 DEF SetByte
  <2> QED
    BY <2>1, <2>3, <2>4, <2>5, <2>6 DEF TypesInv
<1>8. CASE TransferFails
  BY <1>8 DEF TypesInv, TransferFails, device
<1>9. CASE Tick
  <2>1. /\ UNCHANGED <<regs, reg, waiting_reg, op, buf>>
        /\ timestamp' = NextSecond(timestamp)
        /\ \E i \in Due : timers' = Rearm(i)
    BY <1>9 DEF Tick, TimerCb, driverVars
  <2>2. timers' \in Seq(0..Period) /\ timers' # <<>>
    BY <2>1, Rearmed DEF TypesInv
  <2>3. timestamp' \in Modern
    BY <2>1, ModernTimes, SecondsGoOn DEF TypesInv
  <2> QED
    BY <2>1, <2>2, <2>3 DEF TypesInv
<1>10. CASE TimePasses
  <2>1. /\ UNCHANGED <<regs, reg, waiting_reg, timestamp, op, buf>>
        /\ timers' \in Seq(0..Period) /\ timers' # <<>>
    BY <1>10, Advanced DEF TypesInv, TimePasses, Advance, driverVars
  <2> QED
    BY <2>1 DEF TypesInv
<1>11. CASE MachineReset
  <2>1. PICK host \in HostTimes : Reset(host)
    BY <1>11 DEF MachineReset
  <2>2. /\ timestamp' = host /\ reg' = 0 /\ waiting_reg' = TRUE
        /\ regs' = UpdateTime([r \in 0..REG_MAX |-> 0], host)
        /\ timers' = Append(timers, Period) /\ op' = "idle"
    BY <1>11, <2>1 DEF MachineReset, Reset
  <2>3. timers' \in Seq(0..Period) /\ timers' # <<>>
    <3>1. Period \in 0..Period
      BY Timers DEF TypesInv
    <3> QED
      BY <2>2, <3>1 DEF TypesInv
  <2>4. 0 \in Byte
    BY ByteIs
  <2>5. host \in Modern /\ regs' \in RegSet /\ Since2000(regs')
    BY <2>1, <2>2, HostRegs
  <2> QED
    BY <2>2, <2>3, <2>4, <2>5 DEF TypesInv
<1> QED
  BY <1>1, <1>2, <1>3, <1>4, <1>5, <1>6, <1>7, <1>8, <1>9, <1>10, <1>11 DEF Next

-----------------------------------------------------------------------------
(* Setting the time                                                        *)

\* NoTime is no time.
LEMMA NoTimeIsNone == NoTime \notin Times
  BY DEF Times, NoTime

\* SetInv is inductive, relative to TypesInv.
LEMMA SetKept ==
  ASSUME TypesInv, SetInv, Next
  PROVE  SetInv'
\* A step that leaves the clock alone and does not set it either.
<1>1. ASSUME op \in {"idle", "getAddress", "get"}, op' \in {"idle", "getAddress", "get"},
             UNCHANGED <<timestamp, expected>>
      PROVE  SetInv'
  BY <1>1 DEF SetInv, TimeKept, Setting
<1>2. CASE GetBegin
  BY <1>1, <1>2 DEF GetBegin, Begin, StartSend
<1>3. CASE GetAddress
  BY <1>1, <1>3 DEF GetAddress, Send, TypesInv
<1>4. CASE GetByte
  BY <1>1, <1>4 DEF GetByte, Recv
<1>5. CASE GetEnd
  BY <1>1, <1>5 DEF GetEnd, device
<1>6. CASE SetBegin
  <2>1. PICK t \in SetTimes : buf' = BytesOf(Localtime(t)) /\ expected' = t
    BY <1>6 DEF SetBegin
  <2>2. op' = "setAddress"
    BY <1>6 DEF SetBegin, Begin
  <2>3. t \in Times
    BY <2>1, ModernTimes
  <2> QED
    BY <2>1, <2>2, <2>3 DEF SetInv, TimeKept, Setting
<1>7. CASE SetAddress
  <2>1. /\ op = "setAddress" /\ op' = "set" /\ reg' = 2 /\ ~waiting_reg'
        /\ expected' = expected /\ buf' = buf
    BY <1>7 DEF SetAddress, Send, TypesInv, REG_SEC
  <2>2. expected \in SetTimes /\ buf = BytesOf(Localtime(expected))
    BY <2>1 DEF SetInv
  <2>3. /\ buf \in Seq(Byte) /\ Len(buf) = 7
        /\ \A r \in 2..8 : buf[r - 2 + 1] = ByteAt(expected, r)
    BY <2>2, SetBytesAre DEF REG_SEC, REG_YEAR
  <2>4. \A i \in 1..7 : buf[i] = ByteAt(expected, 2 + i - 1)
    <3> TAKE i \in 1..7
    <3>1. i + 1 \in 2..8 /\ i + 1 - 2 + 1 = i /\ 2 + i - 1 = i + 1
      OBVIOUS
    <3> QED
      BY <2>3, <3>1
  <2>5. expected \in Times \cup {NoTime}
    BY DEF SetInv
  <2> QED
    BY <2>1, <2>2, <2>3, <2>4, <2>5 DEF SetInv, TimeKept, Setting
<1>8. CASE SetByte
  <2>1. /\ regs' = [regs EXCEPT ![reg] = ByteAt(expected, reg)]
        /\ timestamp' = StoreTime(regs') /\ reg' = reg + 1
        /\ waiting_reg' = waiting_reg /\ expected \in Modern
    BY <1>8, ByteWritten
  <2>2. /\ op = "set" /\ expected \in SetTimes /\ ~waiting_reg /\ reg \in 2..8
        /\ buf \in Seq(Byte) /\ Len(buf) = 9 - reg
        /\ \A i \in 1..Len(buf) : buf[i] = ByteAt(expected, reg + i - 1)
        /\ \A r \in 2..reg - 1 : regs[r] = ByteAt(expected, r)
        /\ expected \in Times \cup {NoTime}
    BY <1>8 DEF SetByte, SetInv
  <2>3. /\ buf' = Tail(buf) /\ expected' = expected
        /\ op' = IF Tail(buf) = <<>> THEN "idle" ELSE "set"
    BY <1>8 DEF SetByte
  <2>4. /\ regs'[reg] = ByteAt(expected, reg)
        /\ \A i \in 2..8 : i # reg => regs'[i] = regs[i]
    <3>1. regs \in RegSet /\ Since2000(regs)
      BY DEF TypesInv
    <3>2. /\ reg \in 2..8 /\ expected \in Modern
          /\ regs' = [regs EXCEPT ![reg] = ByteAt(expected, reg)]
      BY <2>1, <2>2
    <3>3. DOMAIN regs = 0..15
      BY <3>1 DEF RegSet, REG_MAX
    <3> DEFINE v == ByteAt(expected, reg)
    <3>4. regs' = [regs EXCEPT ![reg] = v]
      BY <3>2
    <3> HIDE DEF v
    <3>5. regs'[reg] = v /\ \A i \in 2..8 : i # reg => regs'[i] = regs[i]
      BY <3>2, <3>3, <3>4
    <3> QED
      BY <3>5 DEF v
  <2>5. \A r \in 2..reg : regs'[r] = ByteAt(expected, r)
    <3> TAKE r \in 2..reg
    <3>1. r \in 2..8 /\ (r = reg \/ r \in 2..reg - 1)
      BY <2>2
    <3> QED
      BY <2>2, <2>4, <3>1
  <2>6. /\ buf' \in Seq(Byte) /\ Len(buf') = 8 - reg
        /\ \A i \in 1..8 - reg : buf'[i] = ByteAt(expected, reg + 1 + i - 1)
    <3>1. buf' \in Seq(Byte) /\ Len(buf') = 8 - reg
      BY <2>2, <2>3
    <3>2. ASSUME NEW i \in 1..8 - reg
          PROVE  buf'[i] = ByteAt(expected, reg + 1 + i - 1)
      <4>1. i + 1 \in 1..Len(buf) /\ reg + (i + 1) - 1 = reg + 1 + i - 1
        BY <2>2
      <4>2. buf'[i] = buf[i + 1]
        BY <2>2, <2>3
      <4> QED
        BY <2>2, <4>1, <4>2
    <3> QED
      BY <3>1, <3>2
  <2>7. CASE reg = 8
    <3>1. op' = "idle"
      BY <2>2, <2>3, <2>6, <2>7
    <3>2. StoreTime(regs') = expected
      <4>1. \A r \in 2..8 : regs'[r] = ByteAt(expected, r)
        BY <2>5, <2>7
      <4> QED
        BY <2>2, <4>1, StoredTime DEF REG_SEC, REG_YEAR
    <3> QED
      BY <2>1, <2>2, <2>3, <3>1, <3>2 DEF SetInv, TimeKept
  <2>8. CASE reg # 8
    <3>3. reg' \in 2..8 /\ 9 - reg' = 8 - reg /\ reg' - 1 = reg
      BY <2>1, <2>2, <2>8
    <3>4. buf' # <<>>
      BY <2>2, <2>6, <2>8
    <3>1. op' = "set" /\ reg' \in 2..8 /\ 9 - reg' = 8 - reg /\ reg' - 1 = reg
      BY <2>3, <3>3, <3>4
    <3>2. /\ \A i \in 1..Len(buf') : buf'[i] = ByteAt(expected, reg' + i - 1)
          /\ \A r \in 2..reg' - 1 : regs'[r] = ByteAt(expected, r)
      BY <2>1, <2>5, <2>6, <3>1
    <3> QED
      BY <2>1, <2>2, <2>3, <2>6, <3>1, <3>2 DEF SetInv, TimeKept, Setting
  <2> QED
    BY <2>7, <2>8
<1>9. CASE TransferFails
  <2>1. /\ op' = "idle" /\ timestamp' = timestamp
        /\ expected' = IF op = "set" THEN NoTime
                       ELSE IF op = "setAddress" THEN timestamp ELSE expected
    BY <1>9 DEF TransferFails, device
  <2>2. timestamp \in Times
    BY ModernTimes DEF TypesInv
  <2> QED
    BY <2>1, <2>2 DEF SetInv, TimeKept, Setting
<1>10. CASE Tick
  <2>1. /\ UNCHANGED <<regs, reg, waiting_reg, op, buf>>
        /\ timestamp' = NextSecond(timestamp)
        /\ expected' = IF Setting \/ expected = NoTime THEN expected ELSE NextSecond(expected)
    BY <1>10 DEF Tick, TimerCb, driverVars
  <2>2. CASE Setting
    BY <2>1, <2>2 DEF SetInv, TimeKept, Setting
  <2>3. CASE ~Setting
    <3>1. expected # NoTime => NextSecond(expected) \in Times
      BY SecondsGoOn DEF SetInv
    <3> QED
      BY <2>1, <2>3, <3>1 DEF SetInv, TimeKept, Setting
  <2> QED
    BY <2>2, <2>3
<1>11. CASE TimePasses
  BY <1>11 DEF TimePasses, Advance, driverVars, SetInv, TimeKept, Setting
<1>12. CASE MachineReset
  <2>1. PICK host \in HostTimes : Reset(host) /\ expected' = host
    BY <1>12 DEF MachineReset
  <2>2. timestamp' = host /\ op' = "idle"
    BY <1>12, <2>1 DEF MachineReset, Reset
  <2>3. host \in Times
    BY <2>1, ModernTimes
  <2> QED
    BY <2>1, <2>2, <2>3 DEF SetInv, TimeKept
<1> QED
  BY <1>2, <1>3, <1>4, <1>5, <1>6, <1>7, <1>8, <1>9, <1>10, <1>11, <1>12 DEF Next

-----------------------------------------------------------------------------
(* The times seen                                                          *)

\* SeenInv is inductive, relative to TypesInv.
LEMMA SeenKept ==
  ASSUME TypesInv, SeenInv, Next
  PROVE  SeenInv'
<1>1. ASSUME Getting' => Getting, UNCHANGED <<timestamp, first, seen>>
      PROVE  SeenInv'
  BY <1>1 DEF SeenInv, Carried
<1>2. CASE GetBegin
  <2>1. first' = timestamp /\ seen' = {timestamp} /\ timestamp' = timestamp
    BY <1>2 DEF GetBegin, StartSend
  <2>2. /\ timestamp \in Modern
        /\ NotAfter(timestamp, timestamp) /\ SameMinute(timestamp, timestamp)
    BY ModernTimes, TimesOrdered DEF TypesInv
  <2> QED
    BY <2>1, <2>2 DEF SeenInv
<1>3. CASE GetAddress
  BY <1>1, <1>3 DEF GetAddress, Send, TypesInv, Getting
<1>4. CASE GetByte
  BY <1>1, <1>4 DEF GetByte, Recv, Getting
<1>5. CASE GetEnd
  BY <1>1, <1>5 DEF GetEnd, device, Getting
<1>6. CASE SetBegin
  BY <1>1, <1>6 DEF SetBegin, Begin, StartSend, Getting
<1>7. CASE SetAddress
  BY <1>1, <1>7 DEF SetAddress, Send, TypesInv, Getting
<1>8. CASE SetByte
  <2>1. ~Getting' /\ UNCHANGED <<first, seen>>
    BY <1>8 DEF SetByte, Getting
  <2> QED
    BY <2>1 DEF SeenInv
<1>9. CASE TransferFails
  BY <1>1, <1>9 DEF TransferFails, device, Getting
<1>10. CASE Tick
  <2>1. /\ op' = op /\ first' = first
        /\ timestamp' = NextSecond(timestamp)
        /\ seen' = IF Getting THEN seen \cup {timestamp'} ELSE seen
    BY <1>10 DEF Tick, TimerCb, driverVars
  <2>2. CASE ~Getting
    BY <2>1, <2>2 DEF SeenInv, Getting
  <2>3. CASE Getting
    <3>1. /\ seen \subseteq Modern /\ first \in seen /\ timestamp \in seen
          /\ \A t \in seen : NotAfter(first, t) /\ NotAfter(t, timestamp)
          /\ Carried \/ \A t, u \in seen : SameMinute(t, u)
      BY <2>3 DEF SeenInv
    <3>2. seen' = seen \cup {timestamp'} /\ timestamp' \in Modern /\ seen' \subseteq Modern
      BY <2>1, <2>3, <3>1, SecondsGoOn, ModernTimes
    <3>3. /\ NotAfter(timestamp, timestamp') /\ NotAfter(timestamp', timestamp')
          /\ \/ SameMinute(timestamp, timestamp')
             \/ timestamp.sec \div 60 # timestamp'.sec \div 60
      BY <2>1, <3>1, <3>2, SecondsGoOn, ModernTimes, TimesOrdered
    <3>4. \A t \in seen' : NotAfter(first', t) /\ NotAfter(t, timestamp')
      BY <2>1, <3>1, <3>2, <3>3, ModernTimes, TimesOrdered
    <3>5. Carried' \/ \A t, u \in seen' : SameMinute(t, u)
      <4>1. CASE Carried
        BY <3>2, <4>1 DEF Carried
      <4>2. CASE timestamp.sec \div 60 # timestamp'.sec \div 60
        BY <3>1, <3>2, <4>2 DEF Carried
      <4>3. CASE /\ \A t, u \in seen : SameMinute(t, u)
                 /\ SameMinute(timestamp, timestamp')
        BY <3>1, <3>2, <4>3 DEF SameMinute
      <4> QED
        BY <3>1, <3>3, <4>1, <4>2, <4>3
    <3> QED
      BY <2>1, <3>1, <3>2, <3>4, <3>5 DEF SeenInv
  <2> QED
    BY <2>2, <2>3
<1>11. CASE TimePasses
  BY <1>1, <1>11 DEF TimePasses, Advance, driverVars, Getting
<1>12. CASE MachineReset
  BY <1>12 DEF MachineReset, SeenInv, Getting
<1> QED
  BY <1>2, <1>3, <1>4, <1>5, <1>6, <1>7, <1>8, <1>9, <1>10, <1>11, <1>12 DEF Next

-----------------------------------------------------------------------------
(* Reading the time                                                        *)

\* The seven bytes of the time in a buffer.
TimeBytes(b, s) == \A r \in 2..8 : b[r + 1] = ByteAt(s[r], r)

\* Every field get_time returns is of the time its byte is of.
LEMMA FieldsRead ==
  ASSUME NEW b, NEW s \in [2..8 -> Modern], TimeBytes(b, s), InRange(s[8])
  PROVE  /\ b[3] < 128
         /\ TmOf(b) = [sec |-> Localtime(s[2]).sec, min |-> Localtime(s[3]).min,
                       hour |-> Localtime(s[4]).hour, mday |-> Localtime(s[5]).mday,
                       wday |-> Localtime(s[6]).wday, mon |-> Localtime(s[7]).mon,
                       year |-> Localtime(s[8]).year]
<1>1. \A v : bcdToDec(v) = from_bcd(v)
  BY DEF bcdToDec, from_bcd
<1>2. /\ REG_SEC = 2 /\ REG_MIN = 3 /\ REG_HOUR = 4 /\ REG_DAY = 5 /\ REG_WEEKDAY = 6
      /\ REG_MONTH = 7 /\ REG_YEAR = 8
  BY DEF REG_SEC, REG_MIN, REG_HOUR, REG_DAY, REG_WEEKDAY, REG_MONTH, REG_YEAR
<1>3. /\ b[3] = ByteAt(s[2], 2) /\ b[4] = ByteAt(s[3], 3) /\ b[5] = ByteAt(s[4], 4)
      /\ b[6] = ByteAt(s[5], 5) /\ b[7] = ByteAt(s[6], 6) /\ b[8] = ByteAt(s[7], 7)
      /\ b[9] = ByteAt(s[8], 8)
  BY DEF TimeBytes
<1>4. /\ s[2] \in Modern /\ s[3] \in Modern /\ s[4] \in Modern /\ s[5] \in Modern
      /\ s[6] \in Modern /\ s[7] \in Modern /\ s[8] \in Modern
  OBVIOUS
<1>5. /\ b[3] < 128 /\ from_bcd(b[3] % 128) = Localtime(s[2]).sec
      /\ from_bcd(b[4] % 128) = Localtime(s[3]).min
      /\ from_bcd(b[5] % 64) = Localtime(s[4]).hour
      /\ from_bcd(b[6] % 64) = Localtime(s[5]).mday
      /\ b[7] % 8 = Localtime(s[6]).wday
      /\ from_bcd(b[8] % 32) = Localtime(s[7]).mon + 1
      /\ b[8] >= 128
      /\ from_bcd(b[9]) = Localtime(s[8]).year % 100
  BY <1>2, <1>3, <1>4, ByteFields
<1>6. from_bcd(b[8] % 32) - 1 = Localtime(s[7]).mon
  <2> DEFINE n == Localtime(s[7]).mon
             v == from_bcd(b[8] % 32)
  <2>1. n \in 0..11 /\ v = n + 1
    BY <1>4, <1>5, ModernTimes, LocaltimeFields
  <2> HIDE DEF n, v
  <2>2. v - 1 = n
    BY <2>1
  <2> QED
    BY <2>2 DEF n, v
<1>7. from_bcd(b[9]) + 100 = Localtime(s[8]).year
  <2> DEFINE n == Localtime(s[8]).year
             v == from_bcd(b[9])
  <2>1. n \in Int /\ n >= 100 /\ n =< 199 /\ v = n % 100
    BY <1>4, <1>5, ModernTimes, LocaltimeFields, YearsInRange
  <2> HIDE DEF n, v
  <2>2. v + 100 = n
    BY <2>1
  <2> QED
    BY <2>2 DEF n, v
<1>8. TmOf(b) = [sec |-> from_bcd(b[3] % 128), min |-> from_bcd(b[4] % 128),
                 hour |-> from_bcd(b[5] % 64), mday |-> from_bcd(b[6] % 64),
                 wday |-> b[7] % 8, mon |-> from_bcd(b[8] % 32) - 1,
                 year |-> from_bcd(b[9]) + 100]
  BY <1>1, <1>2, <1>5 DEF TmOf
<1> QED
  BY <1>5, <1>6, <1>7, <1>8, Zenon

\* In one minute they are the fields of one time.
LEMMA ReadInAMinute ==
  ASSUME NEW b, NEW s \in [2..8 -> Modern], TimeBytes(b, s), InRange(s[8]),
         \A q, r \in 2..8 : SameMinute(s[q], s[r])
  PROVE  TmOf(b) = Localtime(s[2])
<1>1. TmOf(b) = [sec |-> Localtime(s[2]).sec, min |-> Localtime(s[3]).min,
                 hour |-> Localtime(s[4]).hour, mday |-> Localtime(s[5]).mday,
                 wday |-> Localtime(s[6]).wday, mon |-> Localtime(s[7]).mon,
                 year |-> Localtime(s[8]).year]
  BY FieldsRead
<1>2. \A r \in 2..8 : s[r] \in Times /\ SameMinute(s[2], s[r])
  BY ModernTimes
<1>3. \A r \in 2..8 :
        /\ Localtime(s[2]).min = Localtime(s[r]).min
        /\ Localtime(s[2]).hour = Localtime(s[r]).hour
        /\ Localtime(s[2]).mday = Localtime(s[r]).mday
        /\ Localtime(s[2]).wday = Localtime(s[r]).wday
        /\ Localtime(s[2]).mon = Localtime(s[r]).mon
        /\ Localtime(s[2]).year = Localtime(s[r]).year
  BY <1>2, SameFields
<1>4. Localtime(s[2]) =
        [sec |-> Localtime(s[2]).sec, min |-> Localtime(s[2]).min,
         hour |-> Localtime(s[2]).hour, mday |-> Localtime(s[2]).mday,
         wday |-> Localtime(s[2]).wday, mon |-> Localtime(s[2]).mon,
         year |-> Localtime(s[2]).year]
  BY DEF Localtime
<1> QED
  BY <1>1, <1>3, <1>4

\* Fields of ever later times make a time that is not before the first.
LEMMA ReadNotBefore ==
  ASSUME NEW s \in [2..8 -> Modern], \A q, r \in 2..8 : q =< r => NotAfter(s[q], s[r]),
         NEW f,
         f.sec = Localtime(s[2]).sec, f.min = Localtime(s[3]).min,
         f.hour = Localtime(s[4]).hour, f.mday = Localtime(s[5]).mday,
         f.mon = Localtime(s[7]).mon, f.year = Localtime(s[8]).year
  PROVE  Mktime(f) \in Times /\ NotAfter(s[2], Mktime(f))
<1> DEFINE a == s[2]
           b == s[3]
           c == s[4]
           d == s[5]
           e == s[7]
           g == s[8]
<1>1. /\ a \in Times /\ b \in Times /\ c \in Times /\ d \in Times /\ e \in Times /\ g \in Times
      /\ NotAfter(a, b) /\ NotAfter(b, c) /\ NotAfter(c, d) /\ NotAfter(d, e) /\ NotAfter(e, g)
  BY ModernTimes
<1> HIDE DEF a, b, c, d, e, g
<1>2. /\ a.day \in Int /\ b.day \in Int /\ c.day \in Int /\ d.day \in Int
      /\ a.sec \in Nat /\ b.sec \in Nat /\ c.sec \in Nat
      /\ a.sec < 86400 /\ b.sec < 86400 /\ c.sec < 86400
      /\ d.day =< e.day /\ e.day =< g.day /\ c.day =< d.day
      /\ \/ a.day < b.day
         \/ a.day = b.day /\ a.sec =< b.sec
      /\ \/ b.day < c.day
         \/ b.day = c.day /\ b.sec =< c.sec
  BY <1>1 DEF Times, NotAfter
<1> DEFINE secs == (c.sec \div 3600) * 3600 + ((b.sec \div 60) % 60) * 60 + (a.sec % 60)
           y == Localtime(d).year
           z == Localtime(e).year
           w == Localtime(g).year
           m == Localtime(d).mon
           n == Localtime(e).mon
           k == Localtime(d).mday
           late == MonthStart(1900 + w, n) + k - 1
<1>3. /\ f.sec = a.sec % 60 /\ f.min = (b.sec \div 60) % 60 /\ f.hour = c.sec \div 3600
      /\ f.mday = k /\ f.mon = n /\ f.year = w
  BY DEF a, b, c, d, e, g, Localtime
<1>4. /\ y \in Int /\ z \in Int /\ w \in Int /\ m \in 0..11 /\ n \in 0..11 /\ k \in 1..31
      /\ MonthStart(1900 + y, m) \in Int
      /\ MonthStart(1900 + y, m) + k - 1 = d.day
      /\ MonthStart(1900 + z, n) \in Int
  BY <1>1, LocaltimeFields
<1>5. z =< w /\ MonthStart(1900 + y, m) =< MonthStart(1900 + z, n)
  BY <1>1, <1>2, MonthNotBefore
<1> HIDE DEF y, z, w, m, n, k
<1>6. /\ MonthStart(1900 + w, n) \in Int
      /\ MonthStart(1900 + z, n) =< MonthStart(1900 + w, n)
  <2> DEFINE p == 1900 + z
             q == 1900 + w
  <2>1. p \in Int /\ q \in Int /\ p =< q
    BY <1>4, <1>5
  <2> HIDE DEF p, q
  <2>2. n \in 0..11
    BY <1>4
  <2>3. MonthStart(q, n) \in Int
    BY <2>1, <2>2, MonthLength
  <2>4. MonthStart(p, n) =< MonthStart(q, n)
    BY <2>1, <2>2, SameMonthLater
  <2> QED
    BY <2>3, <2>4 DEF p, q
<1>7. late \in Int /\ d.day =< late
  BY <1>2, <1>4, <1>5, <1>6
<1>8. secs \in Nat /\ secs < 86400
  <2>1. c.sec \div 3600 \in 0..23 /\ (b.sec \div 60) % 60 \in 0..59 /\ a.sec % 60 \in 0..59
    BY <1>2
  <2> DEFINE h == c.sec \div 3600
             i == (b.sec \div 60) % 60
             j == a.sec % 60
  <2>3. h \in 0..23 /\ i \in 0..59 /\ j \in 0..59
    BY <2>1
  <2> HIDE DEF h, i, j
  <2>2. h * 3600 + i * 60 + j \in Nat /\ h * 3600 + i * 60 + j < 86400
    BY <2>3
  <2> QED
    BY <2>2 DEF h, i, j
<1>9. Mktime(f) = [day |-> late, sec |-> secs]
  <2>1. n \div 12 = 0 /\ n % 12 = n /\ 1900 + w + 0 = 1900 + w
    BY <1>4
  <2>2. secs \div 86400 = 0 /\ secs % 86400 = secs
    BY <1>8
  <2>3. f.hour * 3600 + f.min * 60 + f.sec = secs
    BY <1>3
  <2> HIDE DEF secs
  <2>4. Mktime(f) = [day |-> MonthStart(1900 + w, n) + k - 1 + 0, sec |-> secs]
    BY <1>3, <2>1, <2>2, <2>3 DEF Mktime
  <2>5. MonthStart(1900 + w, n) + k - 1 + 0 = late
    BY <1>4, <1>6
  <2> QED
    BY <2>4, <2>5
<1> HIDE DEF late
<1>10. Mktime(f) \in Times
  BY <1>7, <1>8, <1>9 DEF Times
\* On the day of the first time the parts of the time of day have only grown.
<1>11. a.day < late \/ (a.day = late /\ a.sec =< secs)
  <2>1. CASE a.day < b.day \/ b.day < c.day \/ c.day < late
    BY <1>2, <1>7, <2>1
  <2>2. CASE a.day = b.day /\ b.day = c.day /\ c.day = late
    <3>1. a.sec =< b.sec /\ b.sec =< c.sec
      BY <1>2, <2>2
    <3>2. a.sec =< secs
      BY <1>2, <3>1
    <3> QED
      BY <2>2, <3>2
  <2> QED
    BY <1>2, <1>7, <2>1, <2>2
<1> HIDE DEF secs
<1> QED
  BY <1>9, <1>10, <1>11 DEF NotAfter, a

\* The next byte is of the present time.
LEMMA ByteRead ==
  ASSUME TypesInv, op = "get", Len(buf) < 9
  PROVE  /\ RecvValue \in Byte
         /\ Len(buf) \in 2..8 => RecvValue = ByteAt(timestamp, Len(buf))
<1>1. reg = Len(buf) /\ reg \in 0..8 /\ regs \in RegSet /\ timestamp \in Modern
  BY DEF TypesInv
<1>2. REG_MAX = 15 /\ REG_SEC = 2 /\ REG_YEAR = 8
  BY DEF REG_MAX, REG_SEC, REG_YEAR
<1>3. Read \in RegSet /\ (reg \in 2..8 => Read[reg] = ByteAt(timestamp, reg))
  BY <1>1, <1>2, UpdatedRegs DEF Read, IsTime
<1>4. RecvValue = Read[reg]
  BY <1>1, <1>2 DEF RecvValue
<1>5. Read[reg] \in Byte
  <2>1. Read \in RegSet
    BY <1>3
  <2>2. reg \in 0..15
    <3>1. reg \in 0..8
      BY <1>1
    <3> QED
      BY <3>1
  <2> QED
    BY <1>2, <2>1, <2>2 DEF RegSet
<1> QED
  BY <1>1, <1>3, <1>4, <1>5

\* ReadInv is inductive, relative to TypesInv and SeenInv.
LEMMA ReadKept ==
  ASSUME TypesInv, SeenInv, ReadInv, Next
  PROVE  ReadInv'
<1>1. ASSUME tm' = NoTm, op' # "get"
      PROVE  ReadInv'
  BY <1>1 DEF ReadInv
<1>2. ASSUME ~Getting', UNCHANGED <<tm, first, seen>>
      PROVE  ReadInv'
  BY <1>2 DEF ReadInv, Getting, Carried
<1>3. CASE GetBegin
  BY <1>1, <1>3 DEF GetBegin, Begin
<1>4. CASE GetAddress
  <2>1. /\ op = "getAddress" /\ op' = "get" /\ UNCHANGED <<buf, tm, first, seen>>
        /\ buf = <<>>
    BY <1>4 DEF GetAddress, TypesInv
  <2>2. tm = NoTm /\ timestamp \in seen /\ timestamp \in Modern
    BY <2>1 DEF ReadInv, SeenInv, TypesInv, Getting
  <2> DEFINE s == [r \in 2..8 |-> timestamp]
  <2>3. s \in [2..8 -> seen'] /\ \A r \in 2..8 : s[r] = timestamp
    BY <2>1, <2>2
  <2> HIDE DEF s
  <2>4. NotAfter(timestamp, timestamp)
    BY <2>2, ModernTimes, TimesOrdered
  <2>5. IsReading(s, buf')
    <3>1. Len(buf') = 0
      BY <2>1
    <3> QED
      BY <2>3, <2>4, <3>1 DEF IsReading
  <2>6. \E u \in [2..8 -> seen'] : IsReading(u, buf')
    BY <2>3, <2>5
  <2> QED
    BY <2>1, <2>2, <2>6 DEF ReadInv
<1>5. CASE GetByte
  <2>1. /\ op = "get" /\ op' = "get" /\ UNCHANGED <<tm, first, seen>>
        /\ buf' = Append(buf, RecvValue) /\ Len(buf) < 9
    BY <1>5 DEF GetByte
  <2>2. /\ tm = NoTm /\ seen \subseteq Modern /\ timestamp \in seen
        /\ \A t \in seen : NotAfter(t, timestamp)
    BY <2>1 DEF ReadInv, SeenInv, Getting
  <2>3. PICK s \in [2..8 -> seen] : IsReading(s, buf)
    BY <2>1 DEF ReadInv
  <2>4. /\ buf \in Seq(Byte) /\ RecvValue \in Byte
        /\ Len(buf) \in 2..8 => RecvValue = ByteAt(timestamp, Len(buf))
    BY <2>1, ByteRead DEF TypesInv
  <2> DEFINE k == Len(buf)
             u == [r \in 2..8 |-> IF r < k THEN s[r] ELSE timestamp]
  <2>5. k \in Nat /\ Len(buf') = k + 1 /\ buf'[k + 1] = RecvValue
        /\ \A i \in 1..k : buf'[i] = buf[i]
    BY <2>1, <2>4
  <2>6. u \in [2..8 -> seen'] /\ \A r \in 2..8 : u[r] = IF r < k THEN s[r] ELSE timestamp
    BY <2>1, <2>2, <2>3
  <2> HIDE DEF u
  <2>7. /\ \A r \in 2..8 : r < k => buf[r + 1] = ByteAt(s[r], r)
        /\ \A q, r \in 2..8 : q =< r => NotAfter(s[q], s[r])
        /\ \A r \in 2..8 : s[r] \in seen
    BY <2>3 DEF IsReading
  <2>8. ASSUME NEW r \in 2..8, r < k + 1
        PROVE  buf'[r + 1] = ByteAt(u[r], r)
    <3>1. CASE r < k
      <4>1. r + 1 \in 1..k
        BY <2>5, <3>1
      <4> QED
        BY <2>5, <2>6, <2>7, <3>1, <4>1
    <3>2. CASE ~(r < k)
      <4>1. r = k
        BY <2>5, <2>8, <3>2
      <4>2. u[r] = timestamp /\ RecvValue = ByteAt(timestamp, r) /\ buf'[r + 1] = RecvValue
        BY <2>4, <2>5, <2>6, <3>2, <4>1
      <4> QED
        BY <4>2
    <3> QED
      BY <3>1, <3>2
  <2>9. NotAfter(timestamp, timestamp)
    BY <2>2, ModernTimes, TimesOrdered
  <2>10. ASSUME NEW q \in 2..8, NEW r \in 2..8, q =< r
         PROVE  NotAfter(u[q], u[r])
    <3>1. CASE r < k
      <4>1. q < k
        BY <2>5, <2>10, <3>1
      <4> QED
        BY <2>6, <2>7, <2>10, <3>1, <4>1
    <3>2. CASE ~(r < k)
      <4>1. u[r] = timestamp /\ (u[q] = s[q] \/ u[q] = timestamp)
        BY <2>6, <3>2
      <4> QED
        BY <2>2, <2>7, <2>9, <4>1
    <3> QED
      BY <3>1, <3>2
  <2>11. IsReading(u, buf')
    BY <2>5, <2>8, <2>10 DEF IsReading
  <2>12. \E v \in [2..8 -> seen'] : IsReading(v, buf')
    BY <2>6, <2>11
  <2> QED
    BY <2>1, <2>2, <2>12 DEF ReadInv
<1>6. CASE GetEnd
  <2>1. /\ op = "get" /\ op' = "idle" /\ Len(buf) = 9 /\ UNCHANGED <<first, seen>>
        /\ tm' = IF buf[3] >= 128 THEN NoTm ELSE TmOf(buf)
    BY <1>6 DEF GetEnd, REG_SEC
  <2>2. /\ seen \subseteq Modern /\ first \in seen
        /\ \A t \in seen : NotAfter(first, t)
        /\ Carried \/ \A t, u \in seen : SameMinute(t, u)
    BY <2>1 DEF SeenInv, Getting
  <2>3. PICK s \in [2..8 -> seen] : IsReading(s, buf)
    BY <2>1 DEF ReadInv
  <2>4. /\ s \in [2..8 -> Modern] /\ TimeBytes(buf, s)
        /\ \A q, r \in 2..8 : q =< r => NotAfter(s[q], s[r])
        /\ \A r \in 2..8 : s[r] \in seen
    BY <2>1, <2>2, <2>3 DEF IsReading, TimeBytes
  <2>5. ASSUME \A t \in seen : InRange(t)
        PROVE  \/ \E t \in seen : tm' = Localtime(t)
               \/ Carried /\ ~Before(Mktime(tm'), first)
    <3>1. InRange(s[8]) /\ s[2] \in seen
      BY <2>4, <2>5
    <3>2. tm' = TmOf(buf)
      <4>1. buf[3] < 128 /\ buf[3] \in Byte
        BY <2>1, <2>4, <3>1, FieldsRead DEF TypesInv
      <4>2. ~(buf[3] >= 128)
        BY <4>1, ByteIs
      <4> QED
        BY <2>1, <4>2
    <3>3. CASE \A t, u \in seen : SameMinute(t, u)
      <4>1. \A q, r \in 2..8 : SameMinute(s[q], s[r])
        BY <2>4, <3>3
      <4>2. TmOf(buf) = Localtime(s[2])
        BY <2>4, <3>1, <4>1, ReadInAMinute
      <4> QED
        BY <3>1, <3>2, <4>2
    <3>4. CASE Carried
      <4> DEFINE f == TmOf(buf)
      <4>1. f = [sec |-> Localtime(s[2]).sec, min |-> Localtime(s[3]).min,
                 hour |-> Localtime(s[4]).hour, mday |-> Localtime(s[5]).mday,
                 wday |-> Localtime(s[6]).wday, mon |-> Localtime(s[7]).mon,
                 year |-> Localtime(s[8]).year]
        BY <2>4, <3>1, FieldsRead
      <4> HIDE DEF f
      <4>2. /\ f.sec = Localtime(s[2]).sec /\ f.min = Localtime(s[3]).min
            /\ f.hour = Localtime(s[4]).hour /\ f.mday = Localtime(s[5]).mday
            /\ f.mon = Localtime(s[7]).mon /\ f.year = Localtime(s[8]).year
        BY <4>1
      <4>3. Mktime(f) \in Times /\ NotAfter(s[2], Mktime(f))
        BY <2>4, <4>2, ReadNotBefore
      <4>4. first \in Times /\ s[2] \in Times /\ NotAfter(first, s[2])
        BY <2>2, <3>1, ModernTimes
      <4>5. ~Before(Mktime(f), first)
        BY <4>3, <4>4, TimesOrdered
      <4> QED
        BY <3>2, <3>4, <4>5 DEF f
    <3> QED
      BY <2>2, <3>3, <3>4
  <2>6. Carried' <=> Carried
    BY <2>1 DEF Carried
  <2> QED
    BY <2>1, <2>5, <2>6 DEF ReadInv, Getting
<1>7. CASE SetBegin
  BY <1>1, <1>7 DEF SetBegin, Begin
<1>8. CASE SetAddress
  BY <1>2, <1>8 DEF SetAddress, Getting
<1>9. CASE SetByte
  <2>1. ~Getting' /\ UNCHANGED <<tm, first, seen>>
    BY <1>9 DEF SetByte, Getting
  <2> QED
    BY <1>2, <2>1
<1>10. CASE TransferFails
  BY <1>2, <1>10 DEF TransferFails, Getting
<1>11. CASE Tick
  <2>1. /\ op' = op /\ tm' = tm /\ buf' = buf /\ first' = first
        /\ seen' = IF Getting THEN seen \cup {timestamp'} ELSE seen
    BY <1>11 DEF Tick, driverVars
  <2>2. CASE ~Getting
    BY <1>2, <2>1, <2>2 DEF Getting
  <2>3. CASE Getting
    <3>1. tm = NoTm
      BY <2>3 DEF ReadInv
    <3>2. ASSUME op' = "get"
          PROVE  \E s \in [2..8 -> seen'] : IsReading(s, buf')
      <4>1. PICK s \in [2..8 -> seen] : IsReading(s, buf)
        BY <2>1, <3>2 DEF ReadInv
      <4>2. s \in [2..8 -> seen'] /\ IsReading(s, buf')
        BY <2>1, <2>3, <4>1 DEF IsReading
      <4> QED
        BY <4>2
    <3> QED
      BY <2>1, <3>1, <3>2 DEF ReadInv
  <2> QED
    BY <2>2, <2>3
<1>12. CASE TimePasses
  <2>1. UNCHANGED <<op, buf, tm, first, seen>>
    BY <1>12 DEF TimePasses, driverVars
  <2>2. ASSUME op = "get"
        PROVE  \E s \in [2..8 -> seen'] : IsReading(s, buf')
    <3>1. PICK s \in [2..8 -> seen] : IsReading(s, buf)
      BY <2>2 DEF ReadInv
    <3>2. s \in [2..8 -> seen'] /\ IsReading(s, buf')
      BY <2>1, <3>1 DEF IsReading
    <3> QED
      BY <3>2
  <2> QED
    BY <2>1, <2>2 DEF ReadInv, Getting, Carried
<1>13. CASE MachineReset
  BY <1>1, <1>13 DEF MachineReset
<1> QED
  BY <1>3, <1>4, <1>5, <1>6, <1>7, <1>8, <1>9, <1>10, <1>11, <1>12, <1>13 DEF Next

-----------------------------------------------------------------------------
(* The theorems                                                            *)

\* The machine starts with all of it.
LEMMA InitHolds ==
  ASSUME Init
  PROVE  IInv
<1>1. /\ timestamp \in HostTimes /\ reg = 0 /\ waiting_reg = TRUE
      /\ regs = UpdateTime([r \in 0..REG_MAX |-> 0], timestamp)
      /\ timers = <<Period, Period>>
      /\ op = "idle" /\ buf = <<>> /\ tm = NoTm /\ expected = timestamp /\ seen = {}
      /\ age = 0 /\ ticks = 0 /\ pending = 1
  BY DEF Init, DeviceInit
<1>2. Period \in Nat /\ Period >= 1
  BY Pcf8563Assumption
<1>3. timestamp \in Modern /\ timestamp \in Times /\ regs \in RegSet /\ Since2000(regs)
  BY <1>1, HostRegs, ModernTimes
<1>4. timers \in Seq(0..Period) /\ timers # <<>> /\ Len(timers) = 2 /\ timers[2] = Period
  BY <1>1, <1>2
<1>5. TypesInv
  <2>1. reg \in Byte
    BY <1>1, ByteIs
  <2> QED
    BY <1>1, <1>3, <1>4, <2>1 DEF TypesInv
<1>6. SetInv
  BY <1>1, <1>3 DEF SetInv, TimeKept
<1>7. SeenInv
  BY <1>1 DEF SeenInv, Getting
<1>8. ReadInv
  BY <1>1 DEF ReadInv, Getting
<1>9. ClockInv
  <2>1. Forgotten = 1 /\ Early = 0 /\ (pending - Forgotten) * Period = 0
    BY <1>1, <1>2, <1>4 DEF Forgotten, Early
  <2> QED
    BY <1>1, <1>2, <2>1 DEF ClockInv
<1> QED
  BY <1>5, <1>6, <1>7, <1>8, <1>9 DEF IInv

\* IInv holds in every reachable state.
LEMMA Invariant == Spec => []IInv
<1>1. Init => IInv
  BY InitHolds
<1>2. IInv /\ [Next]_vars => IInv'
  <2> SUFFICES ASSUME IInv, [Next]_vars
               PROVE  IInv'
    OBVIOUS
  <2>1. CASE Next
    BY <2>1, TypesKept, SetKept, SeenKept, ReadKept, ClockKept DEF IInv
  <2>2. CASE UNCHANGED vars
    <3>1. UNCHANGED <<regs, reg, waiting_reg, timestamp, timers, op, buf, tm, expected,
                      first, seen, age, ticks, pending>>
      BY <2>2 DEF vars, device, driverVars, clockVars
    <3>2. TypesInv' /\ SeenInv' /\ ClockInv'
      BY <3>1 DEF IInv, TypesInv, SeenInv, ClockInv, Getting, Carried, Forgotten, Early
    <3>3. SetInv'
      BY <3>1 DEF IInv, SetInv, TimeKept, Setting
    <3>4. ReadInv'
      BY <3>1 DEF IInv, ReadInv, IsReading, Getting, Carried
    <3> QED
      BY <3>2, <3>3, <3>4 DEF IInv
  <2> QED
    BY <2>1, <2>2
<1> QED
  BY <1>1, <1>2, PTL DEF Spec

\* The state has its types, and the register pointer is where the transfer has put it:
\* behind the bytes read, or at the next byte to be written.
THEOREM TypeCorrect == Spec => []TypeOK
<1>1. IInv => TypeOK
  <2> SUFFICES ASSUME TypesInv, SetInv
               PROVE  TypeOK
    BY DEF IInv
  <2>1. regs \in [0..REG_MAX -> Byte] /\ timestamp \in Times
    BY ModernTimes DEF TypesInv, RegSet
  <2>2. \A i \in DOMAIN timers : timers[i] \in 0..Period
    BY Timers DEF TypesInv
  <2>3. op = "set" => reg = REG_YEAR + 1 - Len(buf)
    <3> SUFFICES ASSUME op = "set"
                 PROVE  reg = 9 - Len(buf)
      BY DEF REG_YEAR
    <3>1. reg \in 2..8 /\ Len(buf) = 9 - reg
      BY DEF SetInv
    <3> QED
      BY <3>1
  <2> QED
    BY <2>1, <2>2, <2>3 DEF TypesInv, TypeOK
<1> QED
  BY <1>1, Invariant, PTL

\* set_time and the device agree: for every time from 2000 to 2099 the clock goes on from
\* the time set, through any ticks between the bytes.
THEOREM KeepsTheTimeSet == Spec => []TimeKept
<1>1. IInv => TimeKept
  BY DEF IInv, SetInv
<1> QED
  BY <1>1, Invariant, PTL

\* get_time returns a time the clock had during the call or, when a minute ended during
\* it, one that is not before the time when it began.
THEOREM ReadsTheClock == Spec => []ReadIsOfTheClock
<1>1. IInv => ReadIsOfTheClock
  BY DEF IInv, ReadInv, ReadIsOfTheClock
<1> QED
  BY <1>1, Invariant, PTL

\* A timer left pending by a reset makes the clock gain at most one second, at whatever
\* instant the reset came and however many resets there were.
THEOREM KeepsItsRate == Spec => []ClockRate
<1>1. IInv => ClockRate
  BY ClockRateHolds DEF IInv
<1> QED
  BY <1>1, Invariant, PTL
====================================================================================
