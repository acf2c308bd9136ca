---------------------------------- MODULE Pcf8563 ----------------------------------
(***************************************************************************)
(* The PCF8563 real-time clock that the patched QEMU emulates              *)
(* (hw/sensor/pcf8563.c): sixteen registers behind a register pointer, a   *)
(* time stamp that a timer of the virtual clock advances, and conversions  *)
(* between the time stamp and the registers, in BCD, at every byte.        *)
(*                                                                         *)
(* A time stamp is the day since 1970-01-01 and the second of that day;    *)
(* the host's time zone is UTC.  The virtual clock counts in fractions of  *)
(* a second: Period of them make one.                                      *)
(***************************************************************************)
EXTENDS Integers, Sequences

CONSTANTS
  HostTimes,  \* what time(NULL) may be at a reset
  Period      \* instants of the virtual clock in a second

Times == {t \in [day : Int, sec : Nat] : t.sec < 86400}

ASSUME Pcf8563Assumption ==
  /\ Period \in Nat \ {0}
  /\ HostTimes # {}
  /\ HostTimes \subseteq Times

VARIABLES
  regs,         \* the registers
  reg,          \* the register pointer
  waiting_reg,  \* the next byte written is a register address
  timestamp,    \* the time
  timers        \* time to go of the timers pending, s->timer last

device == <<regs, reg, waiting_reg, timestamp, timers>>

REG_SEC == 2
REG_MIN == 3
REG_HOUR == 4
REG_DAY == 5
REG_WEEKDAY == 6
REG_MONTH == 7
REG_YEAR == 8
REG_MAX == 15

Byte == 0..255

-----------------------------------------------------------------------------
(* The calendar: localtime and mktime of the C library                     *)

Leap(y) == (y % 4 = 0 /\ y % 100 # 0) \/ y % 400 = 0

\* Days from 1970-01-01 to the first of January of y, and to the first of month m
\* of it, 0 =< m =< 11.
YearStart(y) ==
  365 * (y - 1970) + (y - 1969) \div 4 - (y - 1901) \div 100 + (y - 1601) \div 400
MonthStart(y, m) ==
  YearStart(y) + <<0, 31, 59, 90, 120, 151, 181, 212, 243, 273, 304, 334>>[m + 1]
               + (IF Leap(y) /\ m > 1 THEN 1 ELSE 0)

Localtime(t) ==
  LET near == 1970 + (400 * t.day) \div 146097  \* days in 400 years
      y == CHOOSE z \in near - 1..near + 1 :
             YearStart(z) =< t.day /\ t.day < YearStart(z + 1)
      m == CHOOSE z \in 0..11 :
             MonthStart(y, z) =< t.day /\ (z = 11 \/ t.day < MonthStart(y, z + 1))
  IN [sec |-> t.sec % 60, min |-> (t.sec \div 60) % 60, hour |-> t.sec \div 3600,
      mday |-> t.day - MonthStart(y, m) + 1, wday |-> (t.day + 4) % 7,
      mon |-> m, year |-> y - 1900]

\* Fields out of their range carry over, as mktime defines.
Mktime(tm) ==
  LET secs == tm.hour * 3600 + tm.min * 60 + tm.sec
      y == 1900 + tm.year + tm.mon \div 12
  IN [day |-> MonthStart(y, tm.mon % 12) + tm.mday - 1 + secs \div 86400,
      sec |-> secs % 86400]

NextSecond(t) == IF t.sec = 86399 THEN [day |-> t.day + 1, sec |-> 0]
                 ELSE [t EXCEPT !.sec = @ + 1]

-----------------------------------------------------------------------------
(* Registers and time stamp                                                *)

to_bcd(value) == (value \div 10) * 16 + (value % 10)
from_bcd(value) == (value \div 16) * 10 + (value % 16)

\* Bit 7 of the month is the century: set from 2000 on.
UpdateTime(r, t) ==
  LET tm == Localtime(t) IN
  [r EXCEPT ![REG_SEC] = to_bcd(tm.sec), ![REG_MIN] = to_bcd(tm.min),
            ![REG_HOUR] = to_bcd(tm.hour), ![REG_DAY] = to_bcd(tm.mday),
            ![REG_WEEKDAY] = tm.wday,
            ![REG_MONTH] = to_bcd(tm.mon + 1) + IF tm.year >= 100 THEN 128 ELSE 0,
            ![REG_YEAR] = to_bcd(tm.year % 100)]

\* Mutant: the century bit is not looked at.
StoreTimeNoCentury(r) ==
  Mktime([sec |-> from_bcd(r[REG_SEC] % 128), min |-> from_bcd(r[REG_MIN] % 128),
          hour |-> from_bcd(r[REG_HOUR] % 64), mday |-> from_bcd(r[REG_DAY] % 64),
          mon |-> from_bcd(r[REG_MONTH] % 32) - 1, year |-> from_bcd(r[REG_YEAR])])

StoreTime(r) ==
  Mktime([sec |-> from_bcd(r[REG_SEC] % 128), min |-> from_bcd(r[REG_MIN] % 128),
          hour |-> from_bcd(r[REG_HOUR] % 64), mday |-> from_bcd(r[REG_DAY] % 64),
          mon |-> from_bcd(r[REG_MONTH] % 32) - 1,
          year |-> from_bcd(r[REG_YEAR]) + IF r[REG_MONTH] >= 128 THEN 100 ELSE 0])

IsTime(r) == r \in REG_SEC..REG_YEAR

-----------------------------------------------------------------------------
(* Reset and the timer                                                     *)

\* After realize and the first reset of the machine, at the same instant: each has
\* made a timer.
DeviceInit ==
  /\ timestamp \in HostTimes
  /\ regs = UpdateTime([r \in 0..REG_MAX |-> 0], timestamp)
  /\ reg = 0
  /\ waiting_reg = TRUE
  /\ timers = <<Period, Period>>

\* A reset makes a new timer and forgets the old one, which stays pending.
Reset(host) ==
  /\ timestamp' = host
  /\ regs' = UpdateTime([r \in 0..REG_MAX |-> 0], host)
  /\ reg' = 0
  /\ waiting_reg' = TRUE
  /\ timers' = Append(timers, Period)

Due == {i \in DOMAIN timers : timers[i] = 0}

\* Mutant: the callback arms the timer that has called it.
RearmItself(i) == [timers EXCEPT ![i] = Period]

\* timer_cb arms s->timer, whichever timer has called it: one that s has forgotten
\* is gone.  Timers due at the same instant run oldest first.
Rearm(i) ==
  LET n == Len(timers)
      armed == [timers EXCEPT ![n] = Period]
  IN IF i = n THEN armed ELSE SubSeq(armed, 1, i - 1) \o SubSeq(armed, i + 1, n)

TimerCb ==
  \E i \in Due :
    /\ \A j \in Due : i =< j
    /\ timestamp' = NextSecond(timestamp)
    /\ timers' = Rearm(i)
    /\ UNCHANGED <<regs, reg, waiting_reg>>

\* The virtual clock advances, when no timer is due.
Advance ==
  /\ Due = {}
  /\ timers' = [i \in DOMAIN timers |-> timers[i] - 1]
  /\ UNCHANGED <<regs, reg, waiting_reg, timestamp>>

-----------------------------------------------------------------------------
(* The I2C bus                                                             *)

StartSend ==
  /\ waiting_reg' = TRUE
  /\ UNCHANGED <<regs, reg, timestamp, timers>>

Send(data) ==
  IF waiting_reg
  THEN /\ reg' = data
       /\ waiting_reg' = FALSE
       /\ UNCHANGED <<regs, timestamp, timers>>
  ELSE LET written == IF reg =< REG_MAX THEN [regs EXCEPT ![reg] = data] ELSE regs
       IN /\ regs' = written
          /\ timestamp' = IF IsTime(reg) THEN StoreTime(written) ELSE timestamp
          /\ reg' = (reg + 1) % 256
          /\ UNCHANGED <<waiting_reg, timers>>

\* The registers a byte is read from: the time is converted anew for every byte.
Read == IF IsTime(reg) THEN UpdateTime(regs, timestamp) ELSE regs
RecvValue == IF reg =< REG_MAX THEN Read[reg] ELSE 255

Recv ==
  /\ regs' = Read
  /\ reg' = (reg + 1) % 256
  /\ UNCHANGED <<waiting_reg, timestamp, timers>>
====================================================================================
