---------------------------------- MODULE RtcTime ----------------------------------
(***************************************************************************)
(* Reading and setting the time: the driver 09.rtc/regmap_rtc on the       *)
(* PCF8563 that QEMU emulates.  get_time and set_time are one I2C transfer *)
(* each, byte by byte; the clock ticks, and the machine may be reset,      *)
(* between any two bytes.  The rtc core calls one of them at a time        *)
(* (ops_lock), with times of its range.                                    *)
(***************************************************************************)
EXTENDS Pcf8563

CONSTANTS
  SetTimes,   \* times set_time is called with
  MaxOps,     \* bound: calls of get_time and set_time
  MaxAge,     \* bound: instants after a reset
  MaxResets   \* bound: resets of the running machine

\* range_min and range_max: RTC_TIMESTAMP_BEGIN_2000, RTC_TIMESTAMP_END_2099.  The host
\* is not set to a time before that range either.
ASSUME RtcTimeAssumption ==
  /\ SetTimes \subseteq Times
  /\ \A t \in SetTimes \cup HostTimes : t.day >= YearStart(2000)
  /\ \A t \in SetTimes : t.day < YearStart(2100)
  /\ {MaxOps, MaxAge, MaxResets} \subseteq Nat

VARIABLES
  op,       \* what the driver is doing
  buf,      \* its buffer: bytes read so far, or yet to be written
  tm,       \* what the last get_time returned
  ops,      \* calls so far
  \* What an observer has seen:
  expected, \* the time the clock was set to, and the ticks since
  first,    \* the time when the last get_time began
  seen,     \* the times of the clock during it
  age,      \* instants since the reset
  ticks,    \* calls of timer_cb since then
  pending,  \* timers that were pending at the reset
  resets    \* resets so far

driverVars == <<op, buf, tm, ops>>
clockVars == <<age, ticks, pending, resets>>
vars == <<device, driverVars, expected, first, seen, clockVars>>

NoTime == [day |-> 0, sec |-> 86400]
NoTm == <<>>

Init ==
  /\ DeviceInit
  /\ op = "idle" /\ buf = <<>> /\ tm = NoTm /\ ops = 0
  /\ expected = timestamp
  /\ first = NoTime /\ seen = {}
  /\ age = 0 /\ ticks = 0 /\ pending = 1 /\ resets = 0

-----------------------------------------------------------------------------
(* get_time                                                                *)

bcdToDec(val) == (val \div 16) * 10 + (val % 16)
decToBcd(val) == (val \div 10) * 16 + (val % 10)

\* Mutant: the month is taken as it is.
TmOfMonth(b) ==
  [sec |-> bcdToDec(b[REG_SEC + 1] % 128), min |-> bcdToDec(b[REG_MIN + 1] % 128),
   hour |-> bcdToDec(b[REG_HOUR + 1] % 64), mday |-> bcdToDec(b[REG_DAY + 1] % 64),
   wday |-> b[REG_WEEKDAY + 1] % 8, mon |-> bcdToDec(b[REG_MONTH + 1] % 32),
   year |-> bcdToDec(b[REG_YEAR + 1]) + IF b[REG_MONTH + 1] >= 128 THEN 100 ELSE 0]

\* buf[r + 1] is register r.
TmOf(b) ==
  [sec |-> bcdToDec(b[REG_SEC + 1] % 128), min |-> bcdToDec(b[REG_MIN + 1] % 128),
   hour |-> bcdToDec(b[REG_HOUR + 1] % 64), mday |-> bcdToDec(b[REG_DAY + 1] % 64),
   wday |-> b[REG_WEEKDAY + 1] % 8, mon |-> bcdToDec(b[REG_MONTH + 1] % 32) - 1,
   year |-> bcdToDec(b[REG_YEAR + 1]) + IF b[REG_MONTH + 1] >= 128 THEN 100 ELSE 0]

Begin(what) ==
  /\ op = "idle"
  /\ ops < MaxOps
  /\ ops' = ops + 1
  /\ op' = what

\* The address of the first register is written: START, address, repeated START.
GetBegin ==
  /\ Begin("getAddress")
  /\ StartSend
  /\ buf' = <<>> /\ tm' = NoTm
  /\ first' = timestamp /\ seen' = {timestamp}
  /\ UNCHANGED <<expected, clockVars>>

\* Mutant: the block is read from REG_SEC on, as it is written.
GetAddressOfTime ==
  /\ op = "getAddress"
  /\ Send(REG_SEC)
  /\ op' = "get"
  /\ UNCHANGED <<buf, tm, ops, expected, first, seen, clockVars>>

GetAddress ==
  /\ op = "getAddress"
  /\ Send(0)
  /\ op' = "get"
  /\ UNCHANGED <<buf, tm, ops, expected, first, seen, clockVars>>

GetByte ==
  /\ op = "get"
  /\ Len(buf) < 9
  /\ Recv
  /\ buf' = Append(buf, RecvValue)
  /\ UNCHANGED <<op, tm, ops, expected, first, seen, clockVars>>

\* Bit 7 of the seconds (low voltage) makes get_time fail: tm stays NoTm.
GetEnd ==
  /\ op = "get"
  /\ Len(buf) = 9
  /\ op' = "idle"
  /\ tm' = IF buf[REG_SEC + 1] >= 128 THEN NoTm ELSE TmOf(buf)
  /\ buf' = <<>>
  /\ UNCHANGED <<device, ops, expected, first, seen, clockVars>>

-----------------------------------------------------------------------------
(* set_time                                                                *)

\* The registers from REG_SEC to REG_YEAR.
BytesOf(t) ==
  <<decToBcd(t.sec), decToBcd(t.min), decToBcd(t.hour), decToBcd(t.mday), t.wday % 8>>
  \o IF t.year >= 100 THEN <<decToBcd(t.mon + 1) + 128, decToBcd(t.year - 100)>>
     ELSE <<decToBcd(t.mon + 1), decToBcd(t.year)>>

SetBegin ==
  /\ Begin("setAddress")
  /\ StartSend
  /\ \E t \in SetTimes : buf' = BytesOf(Localtime(t)) /\ expected' = t
  /\ tm' = NoTm
  /\ UNCHANGED <<first, seen, clockVars>>

SetAddress ==
  /\ op = "setAddress"
  /\ Send(REG_SEC)
  /\ op' = "set"
  /\ UNCHANGED <<buf, tm, ops, expected, first, seen, clockVars>>

SetByte ==
  /\ op = "set"
  /\ buf # <<>>
  /\ Send(Head(buf))
  /\ buf' = Tail(buf)
  /\ op' = IF Tail(buf) = <<>> THEN "idle" ELSE "set"
  /\ UNCHANGED <<tm, ops, expected, first, seen, clockVars>>

\* The transfer fails at some byte (lost arbitration, a timeout of the controller) and
\* the error is returned.  A set_time that fails leaves the fields it has written.
TransferFails ==
  /\ op # "idle"
  /\ op' = "idle"
  /\ buf' = <<>>
  /\ expected' = IF op = "set" THEN NoTime
            ELSE IF op = "setAddress" THEN timestamp ELSE expected
  /\ UNCHANGED <<device, tm, ops, first, seen, clockVars>>

-----------------------------------------------------------------------------
(* The clock and the machine                                               *)

Setting == op \in {"setAddress", "set"}
Getting == op \in {"getAddress", "get"}

\* A tick during set_time is overwritten by the bytes still to come.
Tick ==
  /\ TimerCb
  /\ ticks' = ticks + 1
  /\ expected' = IF Setting \/ expected = NoTime THEN expected ELSE NextSecond(expected)
  /\ seen' = IF Getting THEN seen \cup {timestamp'} ELSE seen
  /\ UNCHANGED <<driverVars, first, age, pending, resets>>

TimePasses ==
  /\ age < MaxAge
  /\ Advance
  /\ age' = age + 1
  /\ UNCHANGED <<driverVars, expected, first, seen, ticks, pending, resets>>

\* The guest reboots: its driver starts afresh.
MachineReset ==
  /\ resets < MaxResets
  /\ resets' = resets + 1
  /\ \E host \in HostTimes : Reset(host) /\ expected' = host
  /\ op' = "idle" /\ buf' = <<>> /\ tm' = NoTm
  /\ first' = NoTime /\ seen' = {}
  /\ age' = 0 /\ ticks' = 0 /\ pending' = Len(timers)
  /\ UNCHANGED ops

Next ==
  \/ GetBegin \/ GetAddress \/ GetByte \/ GetEnd
  \/ SetBegin \/ SetAddress \/ SetByte
  \/ TransferFails
  \/ Tick \/ TimePasses \/ MachineReset

Spec == Init /\ [][Next]_vars

-----------------------------------------------------------------------------
(* Properties                                                              *)

\* The type invariant; the driver finds the pointer where its transfer has put it.
TypeOK ==
  /\ regs \in [0..REG_MAX -> Byte]
  /\ reg \in Byte
  /\ waiting_reg \in BOOLEAN
  /\ timestamp \in Times
  /\ timers # <<>> /\ \A i \in DOMAIN timers : timers[i] \in 0..Period
  /\ op \in {"idle", "getAddress", "get", "setAddress", "set"}
  /\ op = "get" => reg = Len(buf)
  /\ op = "set" => reg = REG_YEAR + 1 - Len(buf)

\* The clock goes on from the time it was set to: the conversions of driver and device,
\* month, century and leap day included, undo each other, and no byte written on the
\* way, or tick between two of them, leaves a trace.  Not after a failed set_time.
TimeKept == ~Setting /\ expected # NoTime => timestamp = expected

Before(t, u) == t.day < u.day \/ (t.day = u.day /\ t.sec < u.sec)
\* RTC_TIMESTAMP_END_2099: what two digits and a century bit hold.
InRange(t) == t.day < YearStart(2100)
Carried == \E t, u \in seen : t.sec \div 60 # u.sec \div 60

\* What get_time returns is a time the clock had during the call; only when a minute
\* ended during it the fields may be of two times, and then the result is not before
\* the time when the call began (the device converts the time anew for every byte).
ReadIsOfTheClock ==
  (op = "idle" /\ tm # NoTm /\ \A t \in seen : InRange(t)) =>
    \/ \E t \in seen : tm = Localtime(t)
    \/ Carried /\ ~Before(Mktime(tm), first)

\* A second of the clock is a second: since a reset it has advanced by the seconds that
\* have passed, and at most one more for each timer that the reset left pending.
ClockRate == Due = {} => ticks - age \div Period \in 0..pending
====================================================================================
