------------------------------ MODULE Waits_proofs ------------------------------
(***************************************************************************)
(* Proofs about the drivers whose caller waits for what an interrupt       *)
(* handler hands over: the key, whose reader sleeps on a queue until a     *)
(* timer has sampled the line, and the random number generator and the     *)
(* converter, which wait for a completion.  For any number of readers,     *)
(* users, edges and operations, and for the converter any clock.           *)
(*                                                                         *)
(* The three drivers share nothing; each has a part of this module.        *)
(* KeyInv, RngcInv and AdcInv are the inductive invariants: the properties *)
(* the runs check and what they rest on, part by part.                     *)
(***************************************************************************)
EXTENDS AdcConversion, KeyDriver, Rngc, TLAPS

-----------------------------------------------------------------------------
(* The key                                                                 *)

\* Until timer_setup nothing of the timer is in use: arming it is a fault.
EarlyQuiet ==
  stage < Live =>
    /\ ~armed /\ timer = "idle" /\ changes = 0
    /\ protect => fault # "none"

\* The handler thread runs only while the interrupt is requested.
HandlerOnlyRequested == handler = "arm" => IrqEnabled

\* A closed gate has a timer behind it that will open it again, unless remove has
\* deleted that timer.
ClosedForATimer ==
  protect => armed \/ timer # "idle" \/ stage >= TimerGone \/ fault # "none"

Differ(x, y) == IF x = y THEN 0 ELSE 1

\* Every change the timer publishes, or is about to publish, has an edge of its own.
ChangesHaveEdges ==
  \/ /\ stage = Allocated \/ stage >= IrqFreed
     /\ handler = "idle" /\ ~armed /\ timer = "idle" /\ changes = 0
  \/ IF timer = "sampled"
     THEN changes + Differ(keyValue, sample) + Differ(sample, level) =< edges
     ELSE changes + Differ(keyValue, level) =< edges

\* What the callback has sampled is the line, and what it has published is the
\* sample, unless another interrupt is latched or an edge was dropped.
SampleTracksLine ==
  stage =< TimerGone =>
    /\ timer # "idle" /\ ~irq /\ ~missed => sample = level
    /\ timer = "published" => keyValue = sample

\* While probe runs the first sample is the line, unless an edge was missed.
FirstSampleTracksLine == stage = GpioRead /\ ~missed => keyValue = level

\* A reader has received old changes only, and, unless it is between the copy and
\* the clear, not the one that stands in status.
DeliveredBefore ==
  \A r \in Readers : \A i \in 1..Len(got[r]) :
    /\ got[r][i] =< changes
    /\ reader[r] # "clear" /\ event > 0 => got[r][i] < event

KeyInv ==
  /\ KeyTypeOK /\ GateClosed /\ EarlyQuiet /\ HandlerOnlyRequested
  /\ ClosedForATimer /\ ChangesHaveEdges /\ SampleTracksLine
  /\ FirstSampleTracksLine /\ KeyTracksLine /\ StatusIsLastChange
  /\ NoLostWakeup /\ OnlyLateIrqRearms /\ DeliveredBefore /\ DeliveredInOrder

-----------------------------------------------------------------------------
\* The initial states satisfy the inductive invariant.
LEMMA KeyInitInv == KeyInit => KeyInv
<1> SUFFICES ASSUME KeyInit PROVE KeyInv
  OBVIOUS
<1> USE KeyAssumption DEF KeyInit, Allocated, GpioRead, IrqRequested, DevCreated, StatusSet,
        ProtectSet, QueueReady, Live, DevGone, TimerGone, IrqFreed, Freed
<1>1. KeyTypeOK
  <2>1. got \in [Readers -> Seq(Nat)]
    OBVIOUS
  <2>2. /\ stage \in Allocated..Freed /\ edges \in 0..MaxEdges
        /\ changes \in 0..edges /\ event \in 0..changes
    OBVIOUS
  <2>3. /\ irq \in BOOLEAN /\ protect \in BOOLEAN /\ armed \in BOOLEAN
        /\ missed \in BOOLEAN /\ late \in BOOLEAN
    BY Zenon
  <2> QED
    BY <2>1, <2>2, <2>3 DEF KeyTypeOK
<1>2. DeliveredBefore /\ DeliveredInOrder
  BY DEF DeliveredBefore, DeliveredInOrder
<1>3. NoLostWakeup /\ OnlyLateIrqRearms /\ GateClosed
  BY DEF NoLostWakeup, OnlyLateIrqRearms, GateClosed
<1> QED
  BY <1>1, <1>2, <1>3 DEF KeyInv, EarlyQuiet, HandlerOnlyRequested, ClosedForATimer,
     ChangesHaveEdges, SampleTracksLine, FirstSampleTracksLine, KeyTracksLine,
     StatusIsLastChange, IrqEnabled

-----------------------------------------------------------------------------
\* Every step preserves the inductive invariant.
LEMMA KeyNextInv == KeyInv /\ [KeyNext]_keyVars => KeyInv'
<1> SUFFICES ASSUME KeyInv, [KeyNext]_keyVars PROVE KeyInv'
  OBVIOUS
<1> USE KeyAssumption DEF KeyInv, KeyTypeOK, GateClosed, EarlyQuiet, HandlerOnlyRequested,
        ClosedForATimer, ChangesHaveEdges, Differ, SampleTracksLine,
        FirstSampleTracksLine, KeyTracksLine, StatusIsLastChange, NoLostWakeup,
        OnlyLateIrqRearms, DeliveredBefore, DeliveredInOrder, IrqEnabled,
        Allocated, GpioRead, IrqRequested, DevCreated, StatusSet, ProtectSet,
        QueueReady, Live, DevGone, TimerGone, IrqFreed, Freed,
        irqState, timerState, readerState, devState
<1>1. CASE fault = "none" /\ ReadGpio
  BY <1>1 DEF ReadGpio
<1>2. CASE fault = "none" /\ RequestIrq
  <2>1. KeyTypeOK'
    BY <1>2 DEF RequestIrq
  <2>2. GateClosed' /\ EarlyQuiet' /\ HandlerOnlyRequested' /\ ClosedForATimer'
    BY <1>2 DEF RequestIrq
  <2>3. ChangesHaveEdges'
    BY <1>2 DEF RequestIrq
  <2>4. SampleTracksLine' /\ FirstSampleTracksLine'
    BY <1>2 DEF RequestIrq
  <2>5. KeyTracksLine'
    BY <1>2 DEF RequestIrq
  <2>6. StatusIsLastChange' /\ NoLostWakeup'
    BY <1>2 DEF RequestIrq
  <2>7. OnlyLateIrqRearms'
    BY <1>2 DEF RequestIrq
  <2>8. DeliveredBefore' /\ DeliveredInOrder'
    BY <1>2 DEF RequestIrq
  <2> QED
    BY <2>1, <2>2, <2>3, <2>4, <2>5, <2>6, <2>7, <2>8
<1>3. CASE fault = "none" /\ CreateDevice
  BY <1>3 DEF CreateDevice
<1>4. CASE fault = "none" /\ ProbeFails
  BY <1>4 DEF ProbeFails
<1>5. CASE fault = "none" /\ InitStatus
  BY <1>5 DEF InitStatus
<1>6. CASE fault = "none" /\ InitProtect
  <2>1. KeyTypeOK'
    <3>1. protect' \in BOOLEAN
      BY <1>6, Zenon DEF InitProtect
    <3> QED
      BY <3>1, <1>6 DEF InitProtect
  <2>2. GateClosed' /\ EarlyQuiet' /\ HandlerOnlyRequested' /\ ClosedForATimer'
    BY <1>6 DEF InitProtect
  <2>3. ChangesHaveEdges'
    BY <1>6 DEF InitProtect
  <2>4. SampleTracksLine' /\ FirstSampleTracksLine'
    BY <1>6 DEF InitProtect
  <2>5. KeyTracksLine'
    BY <1>6 DEF InitProtect
  <2>6. StatusIsLastChange' /\ NoLostWakeup'
    BY <1>6 DEF InitProtect
  <2>7. OnlyLateIrqRearms'
    BY <1>6 DEF InitProtect
  <2>8. DeliveredBefore' /\ DeliveredInOrder'
    BY <1>6 DEF InitProtect
  <2> QED
    BY <2>1, <2>2, <2>3, <2>4, <2>5, <2>6, <2>7, <2>8
<1>7. CASE fault = "none" /\ InitQueueAndTimer
  BY <1>7 DEF InitQueueAndTimer
<1>8. CASE fault = "none" /\ RemoveDevice
  BY <1>8 DEF RemoveDevice
<1>9. CASE fault = "none" /\ DeleteTimer
  <2>1. KeyTypeOK'
    <3>1. armed' \in BOOLEAN
      BY <1>9, Zenon DEF DeleteTimer
    <3> QED
      BY <3>1, <1>9 DEF DeleteTimer
  <2>2. GateClosed' /\ EarlyQuiet' /\ HandlerOnlyRequested' /\ ClosedForATimer'
    BY <1>9 DEF DeleteTimer
  <2>3. ChangesHaveEdges'
    BY <1>9 DEF DeleteTimer
  <2>4. SampleTracksLine' /\ FirstSampleTracksLine'
    BY <1>9 DEF DeleteTimer
  <2>5. KeyTracksLine'
    BY <1>9 DEF DeleteTimer
  <2>6. StatusIsLastChange' /\ NoLostWakeup'
    BY <1>9 DEF DeleteTimer
  <2>7. OnlyLateIrqRearms'
    BY <1>9 DEF DeleteTimer
  <2>8. DeliveredBefore' /\ DeliveredInOrder'
    BY <1>9 DEF DeleteTimer
  <2> QED
    BY <2>1, <2>2, <2>3, <2>4, <2>5, <2>6, <2>7, <2>8
<1>10. CASE fault = "none" /\ FreeIrq
  <2>1. KeyTypeOK'
    <3>1. irq' \in BOOLEAN
      BY <1>10, Zenon DEF FreeIrq
    <3> QED
      BY <3>1, <1>10 DEF FreeIrq
  <2>2. GateClosed' /\ EarlyQuiet' /\ HandlerOnlyRequested' /\ ClosedForATimer'
    BY <1>10 DEF FreeIrq
  <2>3. ChangesHaveEdges'
    BY <1>10 DEF FreeIrq
  <2>4. SampleTracksLine' /\ FirstSampleTracksLine'
    BY <1>10 DEF FreeIrq
  <2>5. KeyTracksLine'
    BY <1>10 DEF FreeIrq
  <2>6. StatusIsLastChange' /\ NoLostWakeup'
    BY <1>10 DEF FreeIrq
  <2>7. OnlyLateIrqRearms'
    BY <1>10 DEF FreeIrq
  <2>8. DeliveredBefore' /\ DeliveredInOrder'
    BY <1>10 DEF FreeIrq
  <2> QED
    BY <2>1, <2>2, <2>3, <2>4, <2>5, <2>6, <2>7, <2>8
<1>11. CASE fault = "none" /\ FreeChip
  BY <1>11 DEF FreeChip
<1>12. CASE fault = "none" /\ Edge
  <2>1. KeyTypeOK'
    BY <1>12 DEF Edge
  <2>2. GateClosed' /\ EarlyQuiet' /\ HandlerOnlyRequested' /\ ClosedForATimer'
    BY <1>12 DEF Edge
  <2>3. ChangesHaveEdges'
    BY <1>12 DEF Edge
  <2>irq. /\ stage \in IrqRequested..TimerGone => irq'
          /\ stage = GpioRead => missed'
    BY <1>12, Zenon DEF Edge
  <2>4. SampleTracksLine' /\ FirstSampleTracksLine'
    BY <1>12, <2>irq DEF Edge
  <2>5. KeyTracksLine'
    BY <1>12, <2>irq DEF Edge
  <2>6. StatusIsLastChange' /\ NoLostWakeup'
    BY <1>12 DEF Edge
  <2>7. OnlyLateIrqRearms'
    BY <1>12 DEF Edge
  <2>8. DeliveredBefore' /\ DeliveredInOrder'
    BY <1>12 DEF Edge
  <2> QED
    BY <2>1, <2>2, <2>3, <2>4, <2>5, <2>6, <2>7, <2>8
<1>13. CASE fault = "none" /\ HandlerEnter
  <2>1. KeyTypeOK'
    BY <1>13 DEF HandlerEnter
  <2>2. GateClosed' /\ EarlyQuiet' /\ HandlerOnlyRequested' /\ ClosedForATimer'
    BY <1>13 DEF HandlerEnter
  <2>3. ChangesHaveEdges' /\ SampleTracksLine' /\ FirstSampleTracksLine' /\ KeyTracksLine'
    BY <1>13 DEF HandlerEnter
  <2>4. StatusIsLastChange' /\ NoLostWakeup' /\ OnlyLateIrqRearms'
    BY <1>13 DEF HandlerEnter
  <2>5. DeliveredBefore' /\ DeliveredInOrder'
    BY <1>13 DEF HandlerEnter
  <2> QED
    BY <2>1, <2>2, <2>3, <2>4, <2>5
<1>14. CASE fault = "none" /\ HandlerSkip
  <2>1. KeyTypeOK'
    BY <1>14 DEF HandlerSkip
  <2>2. GateClosed' /\ EarlyQuiet' /\ HandlerOnlyRequested' /\ ClosedForATimer'
    BY <1>14 DEF HandlerSkip
  <2>3. ChangesHaveEdges'
    BY <1>14 DEF HandlerSkip
  <2>4. SampleTracksLine' /\ FirstSampleTracksLine'
    BY <1>14 DEF HandlerSkip
  <2>5. KeyTracksLine'
    BY <1>14 DEF HandlerSkip
  <2>6. StatusIsLastChange' /\ NoLostWakeup'
    BY <1>14 DEF HandlerSkip
  <2>7. OnlyLateIrqRearms'
    BY <1>14 DEF HandlerSkip
  <2>8. DeliveredBefore' /\ DeliveredInOrder'
    BY <1>14 DEF HandlerSkip
  <2> QED
    BY <2>1, <2>2, <2>3, <2>4, <2>5, <2>6, <2>7, <2>8
<1>15. CASE fault = "none" /\ HandlerArm
  <2>1. KeyTypeOK'
    BY <1>15 DEF HandlerArm
  <2>2. GateClosed' /\ EarlyQuiet' /\ HandlerOnlyRequested' /\ ClosedForATimer'
    BY <1>15 DEF HandlerArm
  <2>3. ChangesHaveEdges'
    BY <1>15 DEF HandlerArm
  <2>4. SampleTracksLine' /\ FirstSampleTracksLine'
    BY <1>15 DEF HandlerArm
  <2>5. KeyTracksLine'
    BY <1>15 DEF HandlerArm
  <2>6. StatusIsLastChange' /\ NoLostWakeup'
    BY <1>15 DEF HandlerArm
  <2>late. (late \/ stage = TimerGone) => late'
    BY <1>15, Zenon DEF HandlerArm
  <2>7. OnlyLateIrqRearms'
    BY <1>15, <2>late DEF HandlerArm
  <2>8. DeliveredBefore' /\ DeliveredInOrder'
    BY <1>15 DEF HandlerArm
  <2> QED
    BY <2>1, <2>2, <2>3, <2>4, <2>5, <2>6, <2>7, <2>8
<1>16. CASE fault = "none" /\ TimerSample
  <2>1. KeyTypeOK'
    BY <1>16 DEF TimerSample
  <2>2. GateClosed' /\ EarlyQuiet' /\ HandlerOnlyRequested' /\ ClosedForATimer'
    BY <1>16 DEF TimerSample
  <2>3. ChangesHaveEdges'
    BY <1>16 DEF TimerSample
  <2>4. SampleTracksLine' /\ FirstSampleTracksLine'
    BY <1>16 DEF TimerSample
  <2>5. KeyTracksLine'
    BY <1>16 DEF TimerSample
  <2>6. StatusIsLastChange' /\ NoLostWakeup'
    BY <1>16 DEF TimerSample
  <2>7. OnlyLateIrqRearms'
    BY <1>16 DEF TimerSample
  <2>8. DeliveredBefore' /\ DeliveredInOrder'
    BY <1>16 DEF TimerSample
  <2> QED
    BY <2>1, <2>2, <2>3, <2>4, <2>5, <2>6, <2>7, <2>8
<1>17. CASE fault = "none" /\ TimerPublish
  BY <1>17 DEF TimerPublish, Wake
<1>18. CASE fault = "none" /\ TimerReopen
  <2>1. KeyTypeOK'
    BY <1>18 DEF TimerReopen
  <2>2. GateClosed' /\ EarlyQuiet' /\ HandlerOnlyRequested' /\ ClosedForATimer'
    BY <1>18 DEF TimerReopen
  <2>3. ChangesHaveEdges'
    BY <1>18 DEF TimerReopen
  <2>4. SampleTracksLine' /\ FirstSampleTracksLine'
    BY <1>18 DEF TimerReopen
  <2>5. KeyTracksLine'
    BY <1>18 DEF TimerReopen
  <2>6. StatusIsLastChange' /\ NoLostWakeup'
    BY <1>18 DEF TimerReopen
  <2>7. OnlyLateIrqRearms'
    BY <1>18 DEF TimerReopen
  <2>8. DeliveredBefore' /\ DeliveredInOrder'
    BY <1>18 DEF TimerReopen
  <2> QED
    BY <2>1, <2>2, <2>3, <2>4, <2>5, <2>6, <2>7, <2>8
<1>19. ASSUME NEW r \in Readers, fault = "none", Open(r) PROVE KeyInv'
  BY <1>19 DEF Open
<1>20. ASSUME NEW r \in Readers, fault = "none", ReadFreed(r) PROVE KeyInv'
  BY <1>20 DEF ReadFreed
<1>21. ASSUME NEW r \in Readers, fault = "none", ReadEnter(r) PROVE KeyInv'
  BY <1>21 DEF ReadEnter
<1>22. ASSUME NEW r \in Readers, fault = "none", ReadInterrupted(r) PROVE KeyInv'
  BY <1>22 DEF ReadInterrupted
<1>23. ASSUME NEW r \in Readers, fault = "none", ReadReady(r) PROVE KeyInv'
  BY <1>23 DEF ReadReady
<1>24. ASSUME NEW r \in Readers, fault = "none", ReadAgain(r) PROVE KeyInv'
  BY <1>24 DEF ReadAgain
<1>25. ASSUME NEW r \in Readers, fault = "none", ReadSleep(r) PROVE KeyInv'
  <2>1. KeyTypeOK'
    BY <1>25 DEF ReadSleep
  <2>2. GateClosed' /\ EarlyQuiet' /\ HandlerOnlyRequested' /\ ClosedForATimer'
    BY <1>25 DEF ReadSleep
  <2>3. ChangesHaveEdges'
    BY <1>25 DEF ReadSleep
  <2>4. SampleTracksLine' /\ FirstSampleTracksLine'
    BY <1>25 DEF ReadSleep
  <2>5. KeyTracksLine'
    BY <1>25 DEF ReadSleep
  <2>6. StatusIsLastChange' /\ NoLostWakeup'
    BY <1>25 DEF ReadSleep
  <2>7. OnlyLateIrqRearms'
    BY <1>25 DEF ReadSleep
  <2>8. DeliveredBefore' /\ DeliveredInOrder'
    BY <1>25 DEF ReadSleep
  <2> QED
    BY <2>1, <2>2, <2>3, <2>4, <2>5, <2>6, <2>7, <2>8
<1>26. ASSUME NEW r \in Readers, fault = "none", ReadCopy(r) PROVE KeyInv'
  BY <1>26 DEF ReadCopy
<1>27. ASSUME NEW r \in Readers, fault = "none", ReadFault(r) PROVE KeyInv'
  BY <1>27 DEF ReadFault
<1>28. ASSUME NEW r \in Readers, fault = "none", ReadClear(r) PROVE KeyInv'
  BY <1>28 DEF ReadClear
<1>29. CASE UNCHANGED keyVars
  BY <1>29 DEF keyVars
<1> QED
  BY <1>1, <1>2, <1>3, <1>4, <1>5, <1>6, <1>7, <1>8, <1>9, <1>10, <1>11, <1>12, <1>13,
     <1>14, <1>15, <1>16, <1>17, <1>18, <1>19, <1>20, <1>21, <1>22, <1>23, <1>24, <1>25,
     <1>26, <1>27, <1>28, <1>29
     DEF KeyNext, Probe, Remove, Handler, Timer, Read

-----------------------------------------------------------------------------
\* KeyInv always holds.
LEMMA KeyInvariance == KeySpec => []KeyInv
<1>1. KeyInit => KeyInv
  BY KeyInitInv
<1>2. KeyInv /\ [KeyNext]_keyVars => KeyInv'
  BY KeyNextInv
<1> QED
  BY <1>1, <1>2, PTL DEF KeySpec

\* The type invariant; in it, that the timer never publishes more changes than the
\* line has had edges (key_timer_func compares with key_value and remembers it).
THEOREM KeyTypeCorrect == KeySpec => []KeyTypeOK
<1>1. KeyInv => KeyTypeOK
  BY DEF KeyInv
<1> QED
  BY <1>1, KeyInvariance, PTL

\* The gate alone, without a lock, keeps key_handler and key_timer_func apart: one
\* timer at a time, never armed while its callback runs.
THEOREM GateExcludes == KeySpec => []GateClosed
<1>1. KeyInv => GateClosed
  BY DEF KeyInv
<1> QED
  BY <1>1, KeyInvariance, PTL

\* At rest key_value is the level of the line, unless an edge was dropped.
THEOREM ValueTracksLine == KeySpec => []KeyTracksLine
<1>1. KeyInv => KeyTracksLine
  BY DEF KeyInv
<1> QED
  BY <1>1, KeyInvariance, PTL

\* What key_read finds in status is the last change of key_timer_func, once
\* key_probe has initialised it.
THEOREM StatusFresh == KeySpec => []StatusIsLastChange
<1>1. KeyInv => StatusIsLastChange
  BY DEF KeyInv
<1> QED
  BY <1>1, KeyInvariance, PTL

\* No reader of any number sleeps in wait_event_interruptible with a change there
\* to be read.
THEOREM WakeupNotLost == KeySpec => []NoLostWakeup
<1>1. KeyInv => NoLostWakeup
  BY DEF KeyInv
<1> QED
  BY <1>1, KeyInvariance, PTL

\* key_read returns a change to a reader at most once, and changes in order.
THEOREM OrderOfDelivery == KeySpec => []DeliveredInOrder
<1>1. KeyInv => DeliveredInOrder
  BY DEF KeyInv
<1> QED
  BY <1>1, KeyInvariance, PTL

\* key_remove leaves a timer behind only if key_handler ran after del_timer_sync.
THEOREM RemoveStopsTimer == KeySpec => []OnlyLateIrqRearms
<1>1. KeyInv => OnlyLateIrqRearms
  BY DEF KeyInv
<1> QED
  BY <1>1, KeyInvariance, PTL

-----------------------------------------------------------------------------
(* The random number generator                                             *)

N(b) == IF b THEN 1 ELSE 0

\* Every operation that was started leads to one completion at most: it is being worked
\* on, its interrupt is asserted, the handler is at it, or it is complete. Each was
\* waited for, and its completion taken or given up: those given up are what a later
\* wait can find.
Pending ==
  /\ N(op # "none") + N(intr /\ isr # "read") + N(isr # "idle") + completions
       =< timeouts + N(Waiting)
  /\ timeouts + N(Waiting) =< ops

\* The last operation started has ended when its interrupt is there; without a timeout
\* there is no other interrupt.
LastOperation ==
  /\ intrOf = ops => op = "none"
  /\ timeouts = 0 /\ intr => intrOf = ops
  /\ timeouts = 0 /\ isr # "idle" => served = ops

\* The end of what is waited for: nothing is under way that could change the verdict.
Final == masked /\ isr = "idle" /\ op = "none" /\ served = ops

\* Without a stray completion the one that is there, or has been taken, is final.
CompletedIsFinal ==
  /\ Waiting /\ isr = "cleared" /\ served = ops => masked
  /\ stray = 0 /\ completions > 0 => Waiting /\ completions = 1 /\ Final
  /\ stray = 0 /\ step \in {"tested", "seeded"} => Final
  /\ stray > 0 => timeouts > 0

\* Where nothing unmasks the interrupt any more.
Masked == step \in {"probe", "tested", "registered", "failed"} => masked

RngcInv == RngcTypeOK /\ Pending /\ LastOperation /\ CompletedIsFinal /\ Masked

-----------------------------------------------------------------------------
\* The invariant holds before probe.
LEMMA RngcInitInv == RngcInit => RngcInv
<1> SUFFICES ASSUME RngcInit PROVE RngcInv
  OBVIOUS
<1>1. /\ step = "probe" /\ ret = "none" /\ op = "none" /\ hwError = "none"
      /\ isr = "idle" /\ errReg = "none" /\ completions = 0 /\ ops = 0 /\ timeouts = 0
      /\ hwStatus = "none" /\ seen = "none" /\ intrOf = 0 /\ served = 0 /\ stray = 0
  BY DEF RngcInit
<1>2. masked /\ ~intr /\ masked \in BOOLEAN /\ ctrl \in BOOLEAN /\ intr \in BOOLEAN
  BY Zenon DEF RngcInit
<1> QED
  BY <1>1, <1>2, RngcAssumption DEF RngcInv, RngcTypeOK, Pending, LastOperation,
     CompletedIsFinal, Final, Masked, N, Waiting, Errors

\* The thread in probe and in init.
LEMMA RngcDriverKeeps == RngcInv /\ DriverStep => RngcInv'
<1> SUFFICES ASSUME RngcInv, DriverStep PROVE RngcInv'
  OBVIOUS
<1> USE RngcAssumption DEF RngcInv, RngcTypeOK, Pending, LastOperation, CompletedIsFinal, Final,
        Masked, N, Waiting, Errors, hardware, isrState, others, caller, Start, MayTimeOut
<1>1. CASE SkipSelfTest
  BY <1>1 DEF SkipSelfTest
<1>2. CASE StartSelfTest
  <2>1. masked' \in BOOLEAN /\ ctrl' = ctrl /\ intr' = intr
    BY <1>2, Zenon DEF StartSelfTest
  <2>2. /\ step = "probe" /\ ops < MaxOps /\ ops' = ops + 1 /\ op' = "selftest"
        /\ step' = "testing" /\ UNCHANGED <<ret, hwError, others, completions, timeouts>>
    BY <1>2 DEF StartSelfTest
  <2> QED
    BY <2>1, <2>2
<1>3. CASE SelfTestDone
  <2>1. masked' /\ masked' \in BOOLEAN /\ ~intr' /\ intr' \in BOOLEAN /\ ctrl' = ctrl
    BY <1>3, Zenon DEF SelfTestDone, MaskClear
  <2>2. /\ step = "testing" /\ completions > 0 /\ completions' = completions - 1
        /\ hwError' = "none"
        /\ step' = "tested" /\ UNCHANGED <<ret, op, others, ops, timeouts>>
    BY <1>3 DEF SelfTestDone, MaskClear
  <2> QED
    BY <2>1, <2>2
<1>4. CASE SelfTestVerdict
  BY <1>4 DEF SelfTestVerdict
<1>5. CASE SelfTestTimeout
  <2>1. masked' /\ masked' \in BOOLEAN /\ ~intr' /\ intr' \in BOOLEAN /\ ctrl' = ctrl
    BY <1>5, Zenon DEF SelfTestTimeout, MaskClear
  <2>2. /\ step = "testing" /\ completions = 0 /\ hwError' = "none" /\ ret' = "ETIMEDOUT"
        /\ step' = "failed" /\ timeouts' = timeouts + 1
        /\ UNCHANGED <<op, others, completions, ops>>
    BY <1>5 DEF SelfTestTimeout, MaskClear
  <2> QED
    BY <2>1, <2>2
<1>6. CASE InitUnmask
  <2>1. masked' \in BOOLEAN /\ (intr' => intr) /\ intr' \in BOOLEAN /\ ctrl' = ctrl
    BY <1>6, Zenon DEF InitUnmask
  <2>2. /\ step = "registered" /\ step' = "seed" /\ ret' = "none" /\ hwError' = "none"
        /\ UNCHANGED <<op, others, completions, ops, timeouts>>
    BY <1>6 DEF InitUnmask
  <2> QED
    BY <2>1, <2>2
<1>7. CASE StartSeed
  BY <1>7 DEF StartSeed
<1>8. CASE SeedDone
  BY <1>8 DEF SeedDone
<1>9. CASE SeedVerdict
  BY <1>9 DEF SeedVerdict
<1>10. CASE SeedTimeout
  BY <1>10 DEF SeedTimeout
<1>11. CASE InitFails
  <2>1. masked' /\ masked' \in BOOLEAN /\ ~intr' /\ intr' \in BOOLEAN /\ ctrl' = ctrl
    BY <1>11, Zenon DEF InitFails, MaskClear
  <2>2. /\ step = "initFails" /\ hwError' = "none" /\ step' = "registered"
        /\ UNCHANGED <<ret, op, others, completions, ops, timeouts>>
    BY <1>11 DEF InitFails, MaskClear
  <2> QED
    BY <2>1, <2>2
<1>12. CASE AutoSeedRead
  BY <1>12 DEF AutoSeedRead
<1>13. CASE AutoSeedWrite
  BY <1>13 DEF AutoSeedWrite
<1>14. CASE Cleanup
  <2>1. masked' /\ masked' \in BOOLEAN /\ ~intr' /\ intr' \in BOOLEAN /\ ctrl' = ctrl
    BY <1>14, Zenon DEF Cleanup, MaskClear
  <2>2. /\ step = "ready" /\ hwError' = "none" /\ step' = "registered"
        /\ UNCHANGED <<ret, op, others, completions, ops, timeouts>>
    BY <1>14 DEF Cleanup, MaskClear
  <2> QED
    BY <2>1, <2>2
<1> QED
  BY <1>1, <1>2, <1>3, <1>4, <1>5, <1>6, <1>7, <1>8, <1>9, <1>10, <1>11, <1>12, <1>13,
     <1>14 DEF DriverStep

\* The hardware and its interrupt handler.
LEMMA RngcHandlerKeeps ==
  ASSUME RngcInv, NEW e \in Errors, Irq \/ HwFinish(e)
  PROVE  RngcInv'
<1> USE RngcAssumption DEF RngcInv, RngcTypeOK, Pending, LastOperation, CompletedIsFinal, Final,
        Masked, N, Waiting, Errors, hardware, isrState, others, caller, MaskClear
<1>1. CASE IrqRead
  BY <1>1 DEF IrqRead
<1>2. CASE IrqMaskClear
  <2>1. masked' /\ masked' \in BOOLEAN /\ ~intr' /\ intr' \in BOOLEAN /\ ctrl' = ctrl
    BY <1>2, Zenon DEF IrqMaskClear
  <2>2. /\ isr = "read" /\ hwError' = "none" /\ isr' = "cleared"
        /\ UNCHANGED <<step, ret, ops, timeouts, op, hwStatus, intrOf, seen, errReg,
                       completions, served, stray>>
    BY <1>2 DEF IrqMaskClear
  <2> QED
    BY <2>1, <2>2
<1>3. CASE IrqComplete
  BY <1>3 DEF IrqComplete
<1>4. CASE HwFinish(e)
  BY <1>4 DEF HwFinish
<1> QED
  BY <1>1, <1>2, <1>3, <1>4 DEF Irq

\* RngcInv always holds.
LEMMA RngcInvariance == RngcSpec => []RngcInv
<1>1. RngcInv /\ UNCHANGED rngcVars => RngcInv'
  BY DEF rngcVars, RngcInv, RngcTypeOK, Pending, LastOperation, CompletedIsFinal, Final,
        Masked, Waiting
<1>2. RngcInv /\ [RngcNext]_rngcVars => RngcInv'
  <2> SUFFICES ASSUME RngcInv, [RngcNext]_rngcVars PROVE RngcInv'
    OBVIOUS
  <2>1. CASE DriverStep
    BY <2>1, RngcDriverKeeps
  <2>2. ASSUME NEW e \in Errors, Irq \/ HwFinish(e) PROVE RngcInv'
    BY <2>2, RngcHandlerKeeps
  <2>3. "none" \in Errors
    BY DEF Errors
  <2> QED
    BY <2>1, <2>2, <2>3, <1>1 DEF RngcNext
<1> QED
  BY RngcInitInv, <1>2, PTL DEF RngcSpec

-----------------------------------------------------------------------------
\* The type invariant, with it that a completion nobody waits for is that of a wait
\* that has timed out.
THEOREM RngcTypeCorrect == RngcSpec => []RngcTypeOK
<1>1. RngcInv => RngcTypeOK
  BY DEF RngcInv
<1> QED
  BY <1>1, RngcInvariance, PTL

\* imx_rngc_self_test and imx_rngc_init read the verdict of their own operation when
\* nothing can change it any more, timeouts and late handlers included, until a stray
\* completion is made; and only after a timeout one is.
THEOREM FinalVerdict == RngcSpec => []VerdictIsFinal
<1>1. RngcInv => VerdictIsFinal
  BY DEF RngcInv, CompletedIsFinal, Final, VerdictIsFinal
<1> QED
  BY <1>1, RngcInvariance, PTL

\* A generator that is not in use does not interrupt.
THEOREM UnusedIsMasked == RngcSpec => []MaskedWhenUnused
<1>1. RngcInv => MaskedWhenUnused
  BY DEF RngcInv, Masked, MaskedWhenUnused
<1> QED
  BY <1>1, RngcInvariance, PTL

-----------------------------------------------------------------------------
(* The converter                                                           *)

\* A divider leaves a clock.
Dividers == 1..IpgRate
Divides == {1, 2, 4, 8, 16}  \* what CFG can divide by

\* The powers of two that fls deals with.
Power(b) == 2^b
LEMMA Powers ==
  /\ \A b \in 0..31 : Power(b) \in Nat
  /\ \A b \in 1..31 :
       Power(b) = 2 * Power(b - 1) /\ (Power(b) > 16 \/ Power(b) \in Divides)
  /\ \A n \in Nat :
       n > 0 /\ n =< NSEC_PER_SEC => \E b \in 1..31 : Power(b - 1) <= n /\ n < Power(b)
<1>1. /\ Power(0) = 1 /\ Power(1) = 2 /\ Power(2) = 4 /\ Power(3) = 8
      /\ Power(4) = 16 /\ Power(5) = 32 /\ Power(6) = 64 /\ Power(7) = 128
      /\ Power(8) = 256 /\ Power(9) = 512 /\ Power(10) = 1024 /\ Power(11) = 2048
      /\ Power(12) = 4096 /\ Power(13) = 8192 /\ Power(14) = 16384 /\ Power(15) = 32768
      /\ Power(16) = 65536 /\ Power(17) = 131072 /\ Power(18) = 262144 /\ Power(19) = 524288
      /\ Power(20) = 1048576 /\ Power(21) = 2097152 /\ Power(22) = 4194304 /\ Power(23) = 8388608
      /\ Power(24) = 16777216 /\ Power(25) = 33554432 /\ Power(26) = 67108864 /\ Power(27) = 134217728
      /\ Power(28) = 268435456 /\ Power(29) = 536870912 /\ Power(30) = 1073741824 /\ Power(31) = 2147483648
  BY SMT DEF Power
<1>2. \A b \in 0..31 : Power(b) \in Nat
  BY <1>1, SMT
<1>3. \A b \in 1..31 : Power(b) = 2 * Power(b - 1)
  BY <1>1, SMT
<1>4. \A b \in 1..31 : Power(b) > 16 \/ Power(b) \in Divides
  BY <1>1, SMT DEF Divides
<1>5. ASSUME NEW n \in Nat, n > 0, n =< NSEC_PER_SEC
      PROVE  \E b \in 1..31 : Power(b - 1) <= n /\ n < Power(b)
  <2>1. \E k \in 0..30 : Power(k) <= n /\ n < Power(k + 1)
    <3>1. \/ (Power(0) <= n /\ n < Power(1)) \/ (Power(1) <= n /\ n < Power(2))
        \/ (Power(2) <= n /\ n < Power(3)) \/ (Power(3) <= n /\ n < Power(4))
        \/ (Power(4) <= n /\ n < Power(5)) \/ (Power(5) <= n /\ n < Power(6))
        \/ (Power(6) <= n /\ n < Power(7)) \/ (Power(7) <= n /\ n < Power(8))
        \/ (Power(8) <= n /\ n < Power(9)) \/ (Power(9) <= n /\ n < Power(10))
        \/ (Power(10) <= n /\ n < Power(11)) \/ (Power(11) <= n /\ n < Power(12))
        \/ (Power(12) <= n /\ n < Power(13)) \/ (Power(13) <= n /\ n < Power(14))
        \/ (Power(14) <= n /\ n < Power(15)) \/ (Power(15) <= n /\ n < Power(16))
        \/ (Power(16) <= n /\ n < Power(17)) \/ (Power(17) <= n /\ n < Power(18))
        \/ (Power(18) <= n /\ n < Power(19)) \/ (Power(19) <= n /\ n < Power(20))
        \/ (Power(20) <= n /\ n < Power(21)) \/ (Power(21) <= n /\ n < Power(22))
        \/ (Power(22) <= n /\ n < Power(23)) \/ (Power(23) <= n /\ n < Power(24))
        \/ (Power(24) <= n /\ n < Power(25)) \/ (Power(25) <= n /\ n < Power(26))
        \/ (Power(26) <= n /\ n < Power(27)) \/ (Power(27) <= n /\ n < Power(28))
        \/ (Power(28) <= n /\ n < Power(29)) \/ (Power(29) <= n /\ n < Power(30))
        \/ (Power(30) <= n /\ n < Power(31))
      <4>1. n \in Nat /\ n > 0 /\ n <= 1000000000
        BY <1>5, SMT DEF NSEC_PER_SEC
      <4>2. \/ (1 <= n /\ n < 2) \/ (2 <= n /\ n < 4)
            \/ (4 <= n /\ n < 8) \/ (8 <= n /\ n < 16)
            \/ (16 <= n /\ n < 32) \/ (32 <= n /\ n < 64)
            \/ (64 <= n /\ n < 128) \/ (128 <= n /\ n < 256)
            \/ (256 <= n /\ n < 512) \/ (512 <= n /\ n < 1024)
            \/ (1024 <= n /\ n < 2048) \/ (2048 <= n /\ n < 4096)
            \/ (4096 <= n /\ n < 8192) \/ (8192 <= n /\ n < 16384)
            \/ (16384 <= n /\ n < 32768) \/ (32768 <= n /\ n < 65536)
            \/ (65536 <= n /\ n < 131072) \/ (131072 <= n /\ n < 262144)
            \/ (262144 <= n /\ n < 524288) \/ (524288 <= n /\ n < 1048576)
            \/ (1048576 <= n /\ n < 2097152) \/ (2097152 <= n /\ n < 4194304)
            \/ (4194304 <= n /\ n < 8388608) \/ (8388608 <= n /\ n < 16777216)
            \/ (16777216 <= n /\ n < 33554432) \/ (33554432 <= n /\ n < 67108864)
            \/ (67108864 <= n /\ n < 134217728) \/ (134217728 <= n /\ n < 268435456)
            \/ (268435456 <= n /\ n < 536870912) \/ (536870912 <= n /\ n < 1073741824)
            \/ (1073741824 <= n /\ n < 2147483648)
        BY <4>1, SMT
      <4> QED
        BY <1>1, <4>2, SMT
    <3> QED
      BY <3>1, SMT
  <2>2. PICK k \in 0..30 : Power(k) <= n /\ n < Power(k + 1)
    BY <2>1, SMT
  <2>3. k + 1 \in 1..31 /\ (k + 1) - 1 = k
    BY SMT
  <2> QED
    BY <2>2, <2>3, SMT
<1> QED
  BY <1>2, <1>3, <1>4, <1>5

\* The divider is a power of two that brings the clock within the limit of the mode.
LEMMA Divider ==
  ASSUME NEW m \in conv_modes
  PROVE  /\ ClockDivider(m) \in Dividers
         /\ ClockDivider(m) > 16 \/ ClockDivider(m) \in Divides
         /\ MaxAdckRate[m] > 0 => IpgRate \div ClockDivider(m) <= MaxAdckRate[m]
<1>0. /\ MaxAdckRate[m] \in Nat /\ IpgRate \in Nat /\ IpgRate >= 16 /\ IpgRate =< NSEC_PER_SEC
      /\ MaxAdckRate[m] > 0 => 2 * ((IpgRate \div MaxAdckRate[m]) + 1) =< IpgRate
  <2>1. /\ MaxAdckRate \in [conv_modes -> Nat] /\ IpgRate \in Nat /\ IpgRate >= 16 /\ IpgRate =< NSEC_PER_SEC
        /\ \A k \in conv_modes :
             MaxAdckRate[k] > 0 => 2 * ((IpgRate \div MaxAdckRate[k]) + 1) =< IpgRate
    BY AdcAssumption, Zenon
  <2>2. NSEC_PER_SEC \in Nat
    BY SMT DEF NSEC_PER_SEC
  <2> QED
    BY <2>1, <2>2, Zenon
<1>1. CASE MaxAdckRate[m] = 0
  <2>1. ClockDivider(m) = 8
    BY <1>1, Zenon DEF ClockDivider
  <2> QED
    BY <1>0, <1>1, <2>1 DEF Dividers, Divides
<1>2. CASE MaxAdckRate[m] # 0
  <2> DEFINE q == IpgRate \div MaxAdckRate[m]
             n == q + 1
             f == fls(n)
             d == Power(f)
  <2>1. q \in Nat /\ IpgRate < n * MaxAdckRate[m] /\ 2 * n =< IpgRate
    BY <1>0, <1>2
  <2>2. n \in Nat /\ n > 0 /\ n =< NSEC_PER_SEC
    <3> HIDE DEF q
    <3> QED
      <4>1. NSEC_PER_SEC \in Nat
        BY SMT DEF NSEC_PER_SEC
      <4> QED
        BY <1>0, <2>1, <4>1, SMT
  <2>3. f \in 1..31 /\ Power(f - 1) <= n /\ n < Power(f)
    <3> DEFINE P(b) == Power(b - 1) <= n /\ n < Power(b)
    <3>1. \E b \in 1..31 : P(b)
      BY <2>2, Powers, Zenon
    <3>2. f = CHOOSE b \in 1..31 : P(b)
      BY Zenon DEF fls, Power
    <3>3. f \in 1..31 /\ P(f)
      <4> HIDE DEF P, f
      <4> QED
        BY <3>1, <3>2, Zenon
    <3> QED
      BY <3>3
  <2>4. ClockDivider(m) = d
    BY <1>2, Zenon DEF ClockDivider, Power
  <2>5. d \in Nat /\ n < d /\ d <= 2 * n /\ (d > 16 \/ d \in Divides)
    <3> HIDE DEF f, n
    <3>1. f - 1 \in 0..31 /\ f \in 0..31
      BY <2>3
    <3>2. d = 2 * Power(f - 1) /\ (d > 16 \/ d \in Divides) /\ d \in Nat /\ Power(f - 1) \in Nat
      BY <2>3, <3>1, Powers
    <3> QED
      BY <2>2, <2>3, <3>2
  <2>6. IpgRate \div d <= MaxAdckRate[m]
    <3> HIDE DEF n, d
    <3> SUFFICES ASSUME NEW M \in Nat, M = MaxAdckRate[m], NEW k \in Nat, k = n,
                        NEW I \in Nat, I = IpgRate, NEW e \in Nat, e = d
                 PROVE  I \div e <= M
      BY <1>0, <2>2, <2>5
    <3>1. I < k * M /\ k < e /\ M > 0
      BY <2>1, <2>5, <1>2
    <3>2. k * M =< e * M
      BY <3>1
    <3>3. I < e * M
      BY <3>1, <3>2
    <3>4. \A a, b \in Nat : b > 0 /\ a < b * M => a \div b <= M
      BY SMT
    <3>5. e > 0
      BY <3>1, SMT
    <3> QED
      BY <3>3, <3>4, <3>5
  <2> HIDE DEF n, d
  <2> QED
    BY <1>0, <2>1, <2>2, <2>4, <2>5, <2>6 DEF Dividers
<1> QED
  BY <1>0, <1>1, <1>2

-----------------------------------------------------------------------------
(* The settings                                                            *)

\* An index that makes the sampling time long enough, if one does.
Suffices(i, div) == lst_adder[i] > LeastAdder(div) \/ LeastAdder(div) >= 25

Features ==
  {f \in [mode : conv_modes, rate : 0..4, clk_div : Dividers, adder : 1..8] :
     f.clk_div = ClockDivider(f.mode) /\ Suffices(f.adder, f.clk_div)}

\* The adder in nanoseconds is a number, with a clock that is neither zero nor faster
\* than a nanosecond.
LEMMA LeastAdderIsNat ==
  ASSUME NEW div \in Dividers
  PROVE  LeastAdder(div) \in Nat
<1>1. IpgRate \in Nat /\ IpgRate >= 16 /\ IpgRate =< NSEC_PER_SEC /\ SampleTime \in Nat
  BY AdcAssumption, Zenon
<1>2. NSEC_PER_SEC \in Nat
  BY DEF NSEC_PER_SEC
<1>3. IpgRate \div div \in Nat \ {0} /\ IpgRate \div div =< NSEC_PER_SEC
  <2> SUFFICES ASSUME NEW I \in Nat, I = IpgRate, NEW d \in 1..I, d = div
               PROVE  I \div d \in Nat \ {0} /\ I \div d =< I
    BY <1>1, <1>2 DEF Dividers
  <2>1. 1 * d =< I
    OBVIOUS
  <2> QED
    BY <2>1
<1>4. NSEC_PER_SEC \div (IpgRate \div div) \in Nat \ {0}
  <2> DEFINE r == IpgRate \div div
  <2>1. r \in Nat /\ r > 0 /\ r =< NSEC_PER_SEC
    BY <1>3
  <2> HIDE DEF r
  <2>2. NSEC_PER_SEC \div r \in Nat \ {0}
    BY <2>1, <1>2
  <2> QED
    BY <2>2 DEF r
<1>5. SampleTime \div (NSEC_PER_SEC \div (IpgRate \div div)) \in Nat
  BY <1>1, <1>4
<1> QED
  BY <1>5, Zenon DEF LeastAdder

\* The search finds such an index, whatever the one it starts from.
LEMMA AdderSuffices ==
  ASSUME NEW div \in Dividers, NEW old \in 1..8
  PROVE  AdderIndex(div, old) \in 1..8 /\ Suffices(AdderIndex(div, old), div)
<1> DEFINE L == LeastAdder(div)
           Longer == {i \in 1..Len(lst_adder) : lst_adder[i] > L}
<1>1. L \in Nat
  BY LeastAdderIsNat
<1>2. /\ Len(lst_adder) = 8
      /\ lst_adder[1] = 3 /\ lst_adder[2] = 5 /\ lst_adder[3] = 7 /\ lst_adder[4] = 9
      /\ lst_adder[5] = 13 /\ lst_adder[6] = 17 /\ lst_adder[7] = 21 /\ lst_adder[8] = 25
  BY DEF lst_adder
<1> HIDE DEF L
<1>3. CASE Longer = {}
  <2>1. 8 \notin Longer
    BY <1>3
  <2>2. ~(25 > L)
    BY <2>1, <1>2
  <2>3. AdderIndex(div, old) = old
    BY <1>3, Zenon DEF AdderIndex, L
  <2> QED
    BY <2>2, <2>3, <1>1 DEF Suffices, L
<1>4. CASE Longer # {}
  <2> DEFINE P(i) == \A j \in Longer : i <= j
             a == CHOOSE i \in Longer : P(i)
  <2>1. \E i \in Longer : P(i)
    <3>1. Longer \subseteq 1..8 /\ \A i, j \in 1..8 : i \in Longer /\ i < j => j \in Longer
      <4>1. \A i \in 1..8 : lst_adder[i] \in Nat
        BY DEF lst_adder
      <4>2. \A i, j \in 1..8 : i < j => lst_adder[i] < lst_adder[j]
        BY DEF lst_adder
      <4>3. \A i : i \in Longer <=> i \in 1..8 /\ lst_adder[i] > L
        BY <1>2
      <4> HIDE DEF Longer
      <4> QED
        BY <4>1, <4>2, <4>3, <1>1
    <3> HIDE DEF Longer
    <3>2. 8 \in Longer
      <4>1. PICK i \in Longer : i \in 1..8
        BY <3>1, <1>4
      <4>2. i = 8 \/ i < 8
        BY <4>1
      <4> QED
        BY <3>1, <4>1, <4>2
    <3>3. 1 \in Longer => P(1)
      BY <3>1
    <3>4. \A i \in 2..8 : i \in Longer /\ i - 1 \notin Longer => P(i)
      BY <3>1
    <3> HIDE DEF P
    <3>5. 1 \notin Longer => \E i \in 2..8 : i \in Longer /\ i - 1 \notin Longer
      BY <3>2
    <3> QED
      BY <3>3, <3>4, <3>5
  <2>2. a \in Longer /\ P(a)
    <3> HIDE DEF P, Longer
    <3> QED
      BY <2>1, Zenon
  <2>3. a \in 1..8 /\ lst_adder[a] > L
    BY <2>2, <1>2
  <2>4. AdderIndex(div, old) = a
    BY <1>4, Zenon DEF AdderIndex, L
  <2> HIDE DEF a
  <2> QED
    BY <2>3, <2>4, Zenon DEF Suffices, L
<1> QED
  BY <1>3, <1>4

\* calculate_rates makes features that suit the mode of any old ones.
LEMMA RatesSuit ==
  ASSUME NEW f \in [mode : conv_modes, rate : 0..4, clk_div : Dividers, adder : 1..8],
         NEW m \in conv_modes
  PROVE  /\ calculate_rates(f, m) \in Features
         /\ calculate_rates(f, m).mode = m /\ calculate_rates(f, m).rate = f.rate
<1> DEFINE div == ClockDivider(m)
           adder == AdderIndex(div, f.adder)
<1>1. div \in Dividers
  BY Divider
<1>2. f.adder \in 1..8
  OBVIOUS
<1>3. adder \in 1..8 /\ Suffices(adder, div)
  BY <1>1, <1>2, AdderSuffices
<1>4. calculate_rates(f, m) = [f EXCEPT !.mode = m, !.clk_div = div, !.adder = adder]
  BY Zenon DEF calculate_rates
<1> HIDE DEF div, adder
<1>5. calculate_rates(f, m) = [mode |-> m, rate |-> f.rate, clk_div |-> div, adder |-> adder]
  BY <1>4
<1> QED
  BY <1>1, <1>3, <1>5 DEF Features, div

-----------------------------------------------------------------------------
(* The invariant                                                           *)

AverageCounts == {Averages(rate) : rate \in 0..4}
Configs == [div : Divides, adder : SUBSET SampleBits, avgs : AverageCounts,
            power : conv_modes \cup {"calibration"}]
Controls == [avgen : BOOLEAN, adcon : BOOLEAN]

\* Where a call may be, and what it takes along.
Places ==
  {Idle}
    \cup [at : {"read"}, next : {"end", "power"}]
    \cup [at : {"sample"}, next : {"end", "power"}, cfg : Configs, gc : Controls]
    \cup [at : {"sampled"}] \cup [at : {"power"}, cfg : Configs]
    \cup [at : {"start", "wait"}, ch : Channels]
    \cup [at : {"enable", "disable"}, gc : Controls]

Chosen == Channels \cup {None}

TypesInv ==
  /\ feature \in Features /\ cfg \in Configs /\ gc \in Controls
  /\ conv \in Chosen /\ coco \in Chosen /\ value \in Chosen
  /\ scan \in Chosen /\ buf \in Chosen
  /\ done \in BOOLEAN /\ buffered \in BOOLEAN
  /\ pc \in [Users -> Places]

\* Who is under mlock.
Holds(u) ==
  \/ pc[u].at \in {"start", "wait", "enable", "disable", "sampled", "power"}
  \/ pc[u].at \in {"read", "sample"} /\ pc[u].next = "power"

LockInv ==
  \A u \in Users :
    /\ Holds(u) => mlock = u
    /\ pc[u].at \in {"start", "wait"} => ~buffered
    /\ pc[u].at \in {"enable", "disable"} => buffered

\* The conversion a read waits for is under way, its result is in R0, or it is over and
\* the value is there.
Awaited(ch) ==
  \/ conv = ch /\ coco = None /\ ~done
  \/ conv = None /\ coco = ch /\ ~done
  \/ conv = None /\ coco = None /\ done /\ value = ch

\* Nothing is converted that nobody has asked for.
ChainInv ==
  mishaps \cap {"abandoned", "lost"} = {} =>
    /\ answer.got = answer.asked
    /\ buf \in {None, scan}
    /\ ~buffered => ~gc.adcon
    /\ buffered => conv \in {None, scan} /\ coco \in {None, scan}
    /\ \A u \in Users :
         /\ pc[u].at = "wait" => Awaited(pc[u].ch)
         /\ pc[u].at = "start" => ~done
         /\ pc[u].at = "enable" => conv = None /\ coco = None
    /\ ~buffered /\ (\A u \in Users : pc[u].at # "wait") => conv = None /\ coco = None

\* The registers are those of the settings, or somebody is about to write them.
Programmed(div) == IF div \in Divides THEN div ELSE 1
SampleSet ==
  /\ cfg.div = Programmed(feature.clk_div)
  /\ cfg.adder = AdderBits[feature.adder]
  /\ cfg.avgs = Averages(feature.rate)
  /\ gc.avgen = (feature.rate > 0)
WillSample(u) == pc[u].at \in {"read", "sample"}
WillPower(u) ==
  pc[u].at \in {"sampled", "power"} \/ (WillSample(u) /\ pc[u].next = "power")

\* The bits of the sampling time are set and not cleared, but nobody sets other bits.
SettingsInv ==
  "lost" \notin mishaps =>
    /\ cfg.adder \in {{}, AdderBits[feature.adder]}
    /\ SampleSet \/ \E u \in Users : WillSample(u)
    /\ cfg.power = feature.mode \/ \E u \in Users : WillPower(u)

AdcInv == TypesInv /\ LockInv /\ ChainInv /\ SettingsInv

\* What a call has taken along, by the place where it is.
CallAt(u) ==
  /\ pc[u] \in Places
  /\ pc[u].at \in {"read", "sample"} => pc[u].next \in {"end", "power"}
  /\ pc[u].at \in {"sample", "power"} => pc[u].cfg \in Configs
  /\ pc[u].at \in {"sample", "enable", "disable"} => pc[u].gc \in Controls
  /\ pc[u].at \in {"start", "wait"} => pc[u].ch \in Channels
  /\ pc[u] = Idle => pc[u].at = "idle"

\* The places say so.
LEMMA PlaceOf ==
  ASSUME TypesInv, NEW u \in Users
  PROVE  CallAt(u)
<1>1. pc[u] \in Places
  BY DEF TypesInv
<1> QED
  BY <1>1, SMT DEF CallAt, Places, Idle

\* A step of one call leaves the others where they are.
LEMMA Moves ==
  ASSUME TypesInv, NEW u \in Users, NEW to, pc' = [pc EXCEPT ![u] = to]
  PROVE  /\ pc'[u] = to
         /\ \A v \in Users : v # u => pc'[v] = pc[v]
         /\ to \in Places => pc' \in [Users -> Places]
<1>1. pc \in [Users -> Places]
  BY DEF TypesInv
<1> QED
  BY <1>1

\* What sample_set and cfg_set make of the registers.
LEMMA SampleTypes ==
  ASSUME NEW c \in Configs, NEW g \in Controls, NEW f \in Features
  PROVE  /\ SampleCfg(c, f) \in Configs /\ SampleGc(g, f) \in Controls
         /\ SampleCfg(c, f).div = Programmed(f.clk_div)
         /\ SampleCfg(c, f).adder = c.adder \cup AdderBits[f.adder]
         /\ SampleCfg(c, f).avgs = Averages(f.rate)
         /\ SampleCfg(c, f).power = c.power
         /\ SampleGc(g, f).avgen = (f.rate > 0) /\ SampleGc(g, f).adcon = g.adcon
         /\ PowerCfg(c, f) = [c EXCEPT !.power = f.mode]
         /\ PowerCfg(c, f) \in Configs
<1> DEFINE adder == c.adder \cup AdderBits[f.adder]
           avgs == Averages(f.rate)
           div == Programmed(f.clk_div)
<1>1. f.mode \in conv_modes /\ f.adder \in 1..8 /\ f.rate \in 0..4
  BY DEF Features
<1>2. adder \in SUBSET SampleBits
  <2>1. AdderBits[f.adder] \in SUBSET SampleBits
    BY <1>1 DEF AdderBits, SampleBits
  <2>2. c.adder \in SUBSET SampleBits
    BY DEF Configs
  <2> QED
    BY <2>1, <2>2
<1>3. avgs \in AverageCounts /\ div \in Divides
  BY <1>1 DEF AverageCounts, Programmed, Divides
<1>4. SampleCfg(c, f) = [c EXCEPT !.div = div, !.adder = adder, !.avgs = avgs]
  BY DEF SampleCfg, Programmed, Divides, Configs
<1>5. SampleGc(g, f) = [g EXCEPT !.avgen = f.rate > 0]
  BY Zenon DEF SampleGc
<1>6. (f.rate > 0) \in BOOLEAN
  BY <1>1
<1>7. SampleCfg(c, f) = [div |-> div, adder |-> adder, avgs |-> avgs, power |-> c.power]
  <2> HIDE DEF adder, avgs, div
  <2> QED
    BY <1>4 DEF Configs
<1>8. SampleGc(g, f) = [avgen |-> f.rate > 0, adcon |-> g.adcon]
  BY <1>5 DEF Controls
<1>9. PowerCfg(c, f) = [c EXCEPT !.power = f.mode]
  BY Zenon DEF PowerCfg
<1> HIDE DEF adder, avgs, div
<1>10. /\ SampleCfg(c, f) \in Configs /\ SampleGc(g, f) \in Controls
       /\ PowerCfg(c, f) \in Configs
  BY <1>1, <1>2, <1>3, <1>6, <1>7, <1>8, <1>9 DEF Configs, Controls
<1>11. /\ SampleCfg(c, f).div = div /\ SampleCfg(c, f).adder = adder
       /\ SampleCfg(c, f).avgs = avgs /\ SampleCfg(c, f).power = c.power
       /\ SampleGc(g, f).avgen = (f.rate > 0) /\ SampleGc(g, f).adcon = g.adcon
  BY <1>7, <1>8
<1> QED
  BY <1>9, <1>10, <1>11 DEF adder, avgs, div

\* What vf610_adc_cfg_post_set writes.
LEMMA PostTypes == PostCfg \in Configs /\ PostGc \in Controls
<1>1. Averages(0) = 4 /\ Averages(0) \in AverageCounts
  BY DEF Averages, AverageCounts
<1> QED
  BY <1>1 DEF PostCfg, PostGc, Configs, Controls, Divides

\* The features that probe sets, and the registers it writes for them.
LEMMA DefaultSuits == DefaultFeature \in Features
<1> DEFINE f == [mode |-> "low-power", rate |-> 1, clk_div |-> 8, adder |-> 1]
<1>1. /\ f \in [mode : conv_modes, rate : 0..4, clk_div : Dividers, adder : 1..8]
      /\ "low-power" \in conv_modes
  <2>1. 8 \in Dividers
    BY AdcAssumption DEF Dividers
  <2> QED
    BY <2>1 DEF conv_modes
<1> QED
  BY <1>1, RatesSuit DEF DefaultFeature

\* What probe leaves behind, before the first call.
LEMMA InitTypes ==
  ASSUME NEW f \in Features
  PROVE  /\ InitCfg(f) \in Configs /\ InitGc(f) \in Controls
         /\ InitCfg(f).div = Programmed(f.clk_div)
         /\ InitCfg(f).adder = AdderBits[f.adder]
         /\ InitCfg(f).avgs = Averages(f.rate)
         /\ InitCfg(f).power = f.mode
         /\ InitGc(f).avgen = (f.rate > 0) /\ InitGc(f).adcon = FALSE
<1> DEFINE c == SampleCfg(PostCfg, f)
<1>1. PostCfg \in Configs /\ PostGc \in Controls /\ PostGc.adcon = FALSE
  BY PostTypes DEF PostGc
<1>2. /\ c \in Configs /\ c.div = Programmed(f.clk_div) /\ c.avgs = Averages(f.rate)
      /\ c.adder = AdderBits[f.adder]
  <2>1. PostCfg.adder = {}
    BY DEF PostCfg
  <2>2. c.adder = {} \cup AdderBits[f.adder]
    BY <1>1, <2>1, SampleTypes
  <2> QED
    BY <1>1, <2>2, SampleTypes
<1>3. /\ InitGc(f) \in Controls /\ InitGc(f).avgen = (f.rate > 0)
      /\ InitGc(f).adcon = FALSE
  BY <1>1, SampleTypes DEF InitGc
<1>4. InitCfg(f) = [c EXCEPT !.power = f.mode] /\ InitCfg(f) \in Configs
  <2>1. InitCfg(f) = PowerCfg(c, f)
    BY Zenon DEF InitCfg
  <2>2. c \in Configs /\ PostGc \in Controls
    BY <1>1, <1>2
  <2> HIDE DEF c
  <2>3. PowerCfg(c, f) = [c EXCEPT !.power = f.mode] /\ PowerCfg(c, f) \in Configs
    BY <2>2, SampleTypes
  <2> QED
    BY <2>1, <2>3
<1> DEFINE adder == AdderBits[f.adder]
           avgs == Averages(f.rate)
<1> HIDE DEF c, adder, avgs
<1>5. InitCfg(f) = [div |-> c.div, adder |-> c.adder, avgs |-> c.avgs, power |-> f.mode]
  BY <1>2, <1>4 DEF Configs
<1> QED
  BY <1>2, <1>3, <1>4, <1>5 DEF adder, avgs

\* Nothing has been asked for yet.
LEMMA AdcInitInv == Init => AdcInv
<1> SUFFICES ASSUME Init PROVE AdcInv
  OBVIOUS
<1>1. DefaultFeature \in Features
  BY DefaultSuits
<1>2. TypesInv
  BY <1>1, InitTypes DEF Init, TypesInv, Chosen, Places
<1>3. \A u \in Users : pc[u].at = "idle"
  BY DEF Init, Idle
<1>4. LockInv
  BY <1>3 DEF LockInv, Holds
<1>5. InitGc(DefaultFeature).adcon = FALSE
  BY <1>1, InitTypes
<1>6. ChainInv
  BY <1>3, <1>5 DEF Init, ChainInv
<1>7. SettingsInv
  BY <1>1, InitTypes DEF Init, SettingsInv, SampleSet
<1> QED
  BY <1>2, <1>4, <1>6, <1>7 DEF AdcInv

\* One call is under way at mlock, so that who holds it is alone.
LEMMA AdcNextInv == AdcInv /\ [Next]_vars => AdcInv'
<1> SUFFICES ASSUME AdcInv, [Next]_vars PROVE AdcInv'
  OBVIOUS
<1>0. TypesInv /\ LockInv /\ ChainInv /\ SettingsInv
  BY DEF AdcInv
<1>free. \A u \in Users : u # Nobody
  BY AdcAssumption, Zenon
<1>1. ASSUME NEW u \in Users, NEW rate \in SampleRates, SetFrequency(u, rate) PROVE AdcInv'
  <2> DEFINE to == [at |-> "read", next |-> "end"]
  <2>0. SetFrequency(u, rate)
    BY <1>1
  <2>1. CallAt(u)
    BY <1>0, PlaceOf
  <2>2. to \in Places
    BY <1>0, <2>1, <2>0 DEF CallAt, Places, SetFrequency, TypesInv
  <2>3. /\ pc' = [pc EXCEPT ![u] = to] /\ pc'[u] = to
        /\ \A v \in Users : v # u => pc'[v] = pc[v]
        /\ pc' \in [Users -> Places]
    <3>1. pc' = [pc EXCEPT ![u] = to]
      BY <2>0 DEF SetFrequency, Goes
    <3> HIDE DEF to
    <3> QED
      BY <1>0, <2>2, <3>1, Moves
  <2> HIDE DEF to
  <2>4. TypesInv'
    <3>1. feature \in Features /\ rate \in 0..4
      BY <1>0, AdcAssumption DEF TypesInv
    <3>2. feature' \in Features
      BY <2>0, <3>1 DEF SetFrequency, Features
    <3> QED
      BY <1>0, <2>0, <2>3, <3>2 DEF TypesInv, SetFrequency
  <2>5. LockInv'
    <3>1. \A v \in Users : Holds(v)' => mlock' = v
      BY <1>0, <1>free, <2>0, <2>1, <2>3
         DEF CallAt, TypesInv, LockInv, SetFrequency, Call, Lock, Holds, to, Idle
    <3> QED
      BY <1>0, <1>free, <2>0, <2>1, <2>3, <3>1
         DEF CallAt, LockInv, SetFrequency, Call, Lock, Holds, to, Idle
  <2>6. ChainInv'
    BY <1>0, <1>free, <2>0, <2>1, <2>3, <2>5
       DEF CallAt, TypesInv, LockInv, ChainInv, SetFrequency, Call, Lock, Holds, Lost,
           regs, Awaited, to, Idle
  <2>7. SettingsInv'
    BY <1>0, <1>free, <2>0, <2>1, <2>3
       DEF CallAt, TypesInv, SettingsInv, SampleSet, WillSample, WillPower, SetFrequency,
           Call, Lock, Lost, regs, to, Idle
  <2> QED
    BY <2>4, <2>5, <2>6, <2>7 DEF AdcInv
<1>2. ASSUME NEW u \in Users, NEW mode \in conv_modes, SetMode(u, mode) PROVE AdcInv'
  <2> DEFINE to == [at |-> "read", next |-> "power"]
  <2>0. SetMode(u, mode)
    BY <1>2
  <2>1. CallAt(u)
    BY <1>0, PlaceOf
  <2>2. to \in Places
    BY <1>0, <2>1, <2>0 DEF CallAt, Places, SetMode, TypesInv
  <2>3. /\ pc' = [pc EXCEPT ![u] = to] /\ pc'[u] = to
        /\ \A v \in Users : v # u => pc'[v] = pc[v]
        /\ pc' \in [Users -> Places]
    <3>1. pc' = [pc EXCEPT ![u] = to]
      BY <2>0 DEF SetMode, Goes
    <3> HIDE DEF to
    <3> QED
      BY <1>0, <2>2, <3>1, Moves
  <2> HIDE DEF to
  <2>regs. /\ feature' \in Features /\ cfg' \in Configs /\ gc' \in Controls
        /\ gc'.adcon = FALSE /\ cfg'.adder = {}
    <3>1. feature \in [mode : conv_modes, rate : 0..4, clk_div : Dividers, adder : 1..8]
      BY <1>0 DEF TypesInv, Features
    <3>2. calculate_rates(feature, mode) \in Features
      BY <3>1, RatesSuit
    <3> QED
      BY <2>0, <3>2, PostTypes DEF SetMode, PostGc, PostCfg
  <2>4. TypesInv'
    BY <1>0, <2>0, <2>1, <2>regs, <2>3 DEF CallAt, TypesInv, SetMode, Chosen
  <2>5. LockInv'
    <3>1. \A v \in Users : Holds(v)' => mlock' = v
      BY <1>0, <1>free, <2>0, <2>1, <2>3
         DEF CallAt, TypesInv, LockInv, SetMode, Call, Lock, Holds, to, Idle
    <3> QED
      BY <1>0, <1>free, <2>0, <2>1, <2>3, <3>1
         DEF CallAt, LockInv, SetMode, Call, Lock, Holds, to, Idle
  <2>6. ChainInv'
    BY <1>0, <1>free, <2>0, <2>1, <2>regs, <2>3, <2>5
       DEF CallAt, TypesInv, LockInv, ChainInv, SetMode, Call, Lock, Holds, Lost, regs,
           Awaited, to, Idle
  <2>7. SettingsInv'
    BY <1>0, <1>free, <2>0, <2>1, <2>regs, <2>3
       DEF CallAt, TypesInv, SettingsInv, SampleSet, WillSample, WillPower, SetMode, Call,
           Lock, Lost, regs, to, Idle
  <2> QED
    BY <2>4, <2>5, <2>6, <2>7 DEF AdcInv
<1>3. ASSUME NEW u \in Users, SampleRead(u) PROVE AdcInv'
  <2> DEFINE to == [at |-> "sample", next |-> pc[u].next, cfg |-> cfg, gc |-> gc]
  <2>0. SampleRead(u)
    BY <1>3
  <2>1. CallAt(u)
    BY <1>0, PlaceOf
  <2>2. to \in Places
    BY <1>0, <2>1, <2>0 DEF CallAt, Places, SampleRead, TypesInv
  <2>3. /\ pc' = [pc EXCEPT ![u] = to] /\ pc'[u] = to
        /\ \A v \in Users : v # u => pc'[v] = pc[v]
        /\ pc' \in [Users -> Places]
    <3>1. pc' = [pc EXCEPT ![u] = to]
      BY <2>0 DEF SampleRead, Goes
    <3> HIDE DEF to
    <3> QED
      BY <1>0, <2>2, <3>1, Moves
  <2> HIDE DEF to
  <2>4. TypesInv'
    BY <1>0, <2>0, <2>1, <2>3 DEF CallAt, TypesInv, SampleRead, Chosen
  <2>5. LockInv'
    <3>1. \A v \in Users : Holds(v)' => mlock' = v
      BY <1>0, <1>free, <2>0, <2>1, <2>3
         DEF CallAt, TypesInv, LockInv, SampleRead, Call, Lock, Holds, to, Idle
    <3> QED
      BY <1>0, <1>free, <2>0, <2>1, <2>3, <3>1
         DEF CallAt, LockInv, SampleRead, Call, Lock, Holds, to, Idle
  <2>6. ChainInv'
    BY <1>0, <1>free, <2>0, <2>1, <2>3, <2>5
       DEF CallAt, TypesInv, LockInv, ChainInv, SampleRead, Call, Lock, Holds, Lost, regs,
           Awaited, to, Idle
  <2>7. SettingsInv'
    BY <1>0, <1>free, <2>0, <2>1, <2>3
       DEF CallAt, TypesInv, SettingsInv, SampleSet, WillSample, WillPower, SampleRead,
           Call, Lock, Lost, regs, to, Idle
  <2> QED
    BY <2>4, <2>5, <2>6, <2>7 DEF AdcInv
<1>4. ASSUME NEW u \in Users, SampleWrite(u) PROVE AdcInv'
  <2> DEFINE to == IF pc[u].next = "end" THEN Idle ELSE [at |-> "sampled"]
  <2>0. SampleWrite(u)
    BY <1>4
  <2>1. CallAt(u)
    BY <1>0, PlaceOf
  <2>2. to \in Places
    BY DEF Places
  <2>3. /\ pc' = [pc EXCEPT ![u] = to] /\ pc'[u] = to
        /\ \A v \in Users : v # u => pc'[v] = pc[v]
        /\ pc' \in [Users -> Places]
    <3>1. pc' = [pc EXCEPT ![u] = to]
      BY <2>0 DEF SampleWrite, Goes
    <3> HIDE DEF to
    <3> QED
      BY <1>0, <2>2, <3>1, Moves
  <2> HIDE DEF to
  <2>regs. /\ cfg' = SampleCfg(pc[u].cfg, feature) /\ gc' = SampleGc(pc[u].gc, feature)
        /\ cfg' \in Configs /\ gc' \in Controls
        /\ cfg'.div = Programmed(feature.clk_div) /\ cfg'.avgs = Averages(feature.rate)
        /\ cfg'.adder = pc[u].cfg.adder \cup AdderBits[feature.adder]
        /\ cfg'.power = pc[u].cfg.power
        /\ gc'.avgen = (feature.rate > 0) /\ gc'.adcon = pc[u].gc.adcon
    <3>1. pc[u].cfg \in Configs /\ pc[u].gc \in Controls /\ feature \in Features
      BY <1>0, <2>0, <2>1 DEF CallAt, TypesInv, SampleWrite
    <3> QED
      BY <2>0, <3>1, SampleTypes DEF SampleWrite
  <2>4. TypesInv'
    BY <1>0, <2>0, <2>1, <2>regs, <2>3 DEF CallAt, TypesInv, SampleWrite, Chosen
  <2>5. LockInv'
    <3>1. \A v \in Users : Holds(v)' => mlock' = v
      BY <1>0, <1>free, <2>0, <2>1, <2>3
         DEF CallAt, TypesInv, LockInv, SampleWrite, Call, Lock, Holds, to, Idle
    <3> QED
      BY <1>0, <1>free, <2>0, <2>1, <2>3, <3>1
         DEF CallAt, LockInv, SampleWrite, Call, Lock, Holds, to, Idle
  <2>6. ChainInv'
    BY <1>0, <1>free, <2>0, <2>1, <2>regs, <2>3, <2>5
       DEF CallAt, TypesInv, LockInv, ChainInv, SampleWrite, Call, Lock, Holds, Lost,
           regs, Awaited, to, Idle
  <2>7. SettingsInv'
    BY <1>0, <1>free, <2>0, <2>1, <2>regs, <2>3
       DEF CallAt, TypesInv, SettingsInv, SampleSet, WillSample, WillPower, SampleWrite,
           Call, Lock, Lost, regs, to, Idle
  <2> QED
    BY <2>4, <2>5, <2>6, <2>7 DEF AdcInv
<1>5. ASSUME NEW u \in Users, SetPower(u) PROVE AdcInv'
  <2> DEFINE to == Idle
  <2>0. SetPower(u)
    BY <1>5
  <2>1. CallAt(u)
    BY <1>0, PlaceOf
  <2>2. to \in Places
    BY <1>0, <2>1, <2>0 DEF CallAt, Places, SetPower, TypesInv
  <2>3. /\ pc' = [pc EXCEPT ![u] = to] /\ pc'[u] = to
        /\ \A v \in Users : v # u => pc'[v] = pc[v]
        /\ pc' \in [Users -> Places]
    <3>1. pc' = [pc EXCEPT ![u] = to]
      BY <2>0 DEF SetPower, Goes
    <3> HIDE DEF to
    <3> QED
      BY <1>0, <2>2, <3>1, Moves
  <2> HIDE DEF to
  <2>regs. /\ cfg' = [pc[u].cfg EXCEPT !.power = feature.mode] /\ cfg' \in Configs
        /\ cfg'.div = pc[u].cfg.div /\ cfg'.avgs = pc[u].cfg.avgs
        /\ cfg'.adder = pc[u].cfg.adder /\ cfg'.power = feature.mode
    <3>1. pc[u].cfg \in Configs /\ feature \in Features /\ gc \in Controls
      BY <1>0, <2>0, <2>1 DEF CallAt, TypesInv, SetPower
    <3>2. cfg' = [pc[u].cfg EXCEPT !.power = feature.mode] /\ cfg' \in Configs
      BY <2>0, <3>1, SampleTypes DEF SetPower
    <3> QED
      BY <3>1, <3>2 DEF Configs
  <2>4. TypesInv'
    BY <1>0, <2>0, <2>1, <2>regs, <2>3 DEF CallAt, TypesInv, SetPower, Chosen
  <2>5. LockInv'
    <3>1. \A v \in Users : Holds(v)' => mlock' = v
      BY <1>0, <1>free, <2>0, <2>1, <2>3
         DEF CallAt, TypesInv, LockInv, SetPower, Call, Lock, Holds, to, Idle
    <3> QED
      BY <1>0, <1>free, <2>0, <2>1, <2>3, <3>1
         DEF CallAt, LockInv, SetPower, Call, Lock, Holds, to, Idle
  <2>6. ChainInv'
    BY <1>0, <1>free, <2>0, <2>1, <2>regs, <2>3, <2>5
       DEF CallAt, TypesInv, LockInv, ChainInv, SetPower, Call, Lock, Holds, Lost, regs,
           Awaited, to, Idle
  <2>7. SettingsInv'
    BY <1>0, <1>free, <2>0, <2>1, <2>regs, <2>3
       DEF CallAt, TypesInv, SettingsInv, SampleSet, WillSample, WillPower, SetPower,
           Call, Lock, Lost, regs, to, Idle
  <2> QED
    BY <2>4, <2>5, <2>6, <2>7 DEF AdcInv
<1>6. ASSUME NEW u \in Users, NEW ch \in Channels, ReadRaw(u, ch) PROVE AdcInv'
  <2> DEFINE to == [at |-> "start", ch |-> ch]
  <2>0. ReadRaw(u, ch)
    BY <1>6
  <2>1. CallAt(u)
    BY <1>0, PlaceOf
  <2>2. to \in Places
    BY <1>0, <2>1, <2>0 DEF CallAt, Places, ReadRaw, TypesInv
  <2>3. /\ pc' = [pc EXCEPT ![u] = to] /\ pc'[u] = to
        /\ \A v \in Users : v # u => pc'[v] = pc[v]
        /\ pc' \in [Users -> Places]
    <3>1. pc' = [pc EXCEPT ![u] = to]
      BY <2>0 DEF ReadRaw, Goes
    <3> HIDE DEF to
    <3> QED
      BY <1>0, <2>2, <3>1, Moves
  <2> HIDE DEF to
  <2>4. TypesInv'
    BY <1>0, <2>0, <2>1, <2>3 DEF CallAt, TypesInv, ReadRaw, Chosen
  <2>5. LockInv'
    <3>1. \A v \in Users : Holds(v)' => mlock' = v
      BY <1>0, <1>free, <2>0, <2>1, <2>3
         DEF CallAt, TypesInv, LockInv, ReadRaw, Call, Lock, Holds, to, Idle
    <3> QED
      BY <1>0, <1>free, <2>0, <2>1, <2>3, <3>1
         DEF CallAt, LockInv, ReadRaw, Call, Lock, Holds, to, Idle
  <2>6. ChainInv'
    BY <1>0, <1>free, <2>0, <2>1, <2>3, <2>5
       DEF CallAt, TypesInv, LockInv, ChainInv, ReadRaw, Call, Lock, Holds, Lost, regs,
           Awaited, to, Idle
  <2>7. SettingsInv'
    BY <1>0, <1>free, <2>0, <2>1, <2>3
       DEF CallAt, TypesInv, SettingsInv, SampleSet, WillSample, WillPower, ReadRaw, Call,
           Lock, Lost, regs, to, Idle
  <2> QED
    BY <2>4, <2>5, <2>6, <2>7 DEF AdcInv
<1>7. ASSUME NEW u \in Users, StartConversion(u) PROVE AdcInv'
  <2> DEFINE to == [at |-> "wait", ch |-> pc[u].ch]
  <2>0. StartConversion(u)
    BY <1>7
  <2>1. CallAt(u)
    BY <1>0, PlaceOf
  <2>2. to \in Places
    BY <1>0, <2>1, <2>0 DEF CallAt, Places, StartConversion, TypesInv
  <2>3. /\ pc' = [pc EXCEPT ![u] = to] /\ pc'[u] = to
        /\ \A v \in Users : v # u => pc'[v] = pc[v]
        /\ pc' \in [Users -> Places]
    <3>1. pc' = [pc EXCEPT ![u] = to]
      BY <2>0 DEF StartConversion, Goes
    <3> HIDE DEF to
    <3> QED
      BY <1>0, <2>2, <3>1, Moves
  <2> HIDE DEF to
  <2>4. TypesInv'
    BY <1>0, <2>0, <2>1, <2>3 DEF CallAt, TypesInv, StartConversion, Chosen
  <2>5. LockInv'
    <3>1. \A v \in Users : Holds(v)' => mlock' = v
      BY <1>0, <1>free, <2>0, <2>1, <2>3
         DEF CallAt, TypesInv, LockInv, StartConversion, Call, Lock, Holds, to, Idle
    <3> QED
      BY <1>0, <1>free, <2>0, <2>1, <2>3, <3>1
         DEF CallAt, LockInv, StartConversion, Call, Lock, Holds, to, Idle
  <2>6. ChainInv'
    BY <1>0, <1>free, <2>0, <2>1, <2>3, <2>5
       DEF CallAt, TypesInv, LockInv, ChainInv, StartConversion, Call, Lock, Holds, Lost,
           regs, Awaited, to, Idle
  <2>7. SettingsInv'
    BY <1>0, <1>free, <2>0, <2>1, <2>3
       DEF CallAt, TypesInv, SettingsInv, SampleSet, WillSample, WillPower,
           StartConversion, Call, Lock, Lost, regs, to, Idle
  <2> QED
    BY <2>4, <2>5, <2>6, <2>7 DEF AdcInv
<1>8. ASSUME NEW u \in Users, ReadEnds(u) PROVE AdcInv'
  <2> DEFINE to == Idle
  <2>0. ReadEnds(u)
    BY <1>8
  <2>1. CallAt(u)
    BY <1>0, PlaceOf
  <2>2. to \in Places
    BY <1>0, <2>1, <2>0 DEF CallAt, Places, ReadEnds, TypesInv
  <2>3. /\ pc' = [pc EXCEPT ![u] = to] /\ pc'[u] = to
        /\ \A v \in Users : v # u => pc'[v] = pc[v]
        /\ pc' \in [Users -> Places]
    <3>1. pc' = [pc EXCEPT ![u] = to]
      BY <2>0 DEF ReadEnds, Goes
    <3> HIDE DEF to
    <3> QED
      BY <1>0, <2>2, <3>1, Moves
  <2> HIDE DEF to
  <2>4. TypesInv'
    BY <1>0, <2>0, <2>1, <2>3 DEF CallAt, TypesInv, ReadEnds, Chosen
  <2>5. LockInv'
    <3>1. \A v \in Users : Holds(v)' => mlock' = v
      BY <1>0, <1>free, <2>0, <2>1, <2>3
         DEF CallAt, TypesInv, LockInv, ReadEnds, Call, Lock, Holds, to, Idle
    <3> QED
      BY <1>0, <1>free, <2>0, <2>1, <2>3, <3>1
         DEF CallAt, LockInv, ReadEnds, Call, Lock, Holds, to, Idle
  <2>6. ChainInv'
    BY <1>0, <1>free, <2>0, <2>1, <2>3, <2>5
       DEF CallAt, TypesInv, LockInv, ChainInv, ReadEnds, Call, Lock, Holds, Lost, regs,
           Awaited, to, Idle
  <2>7. SettingsInv'
    BY <1>0, <1>free, <2>0, <2>1, <2>3
       DEF CallAt, TypesInv, SettingsInv, SampleSet, WillSample, WillPower, ReadEnds,
           Call, Lock, Lost, regs, to, Idle
  <2> QED
    BY <2>4, <2>5, <2>6, <2>7 DEF AdcInv
<1>9. ASSUME NEW u \in Users, GiveUp(u) PROVE AdcInv'
  <2> DEFINE to == Idle
  <2>0. GiveUp(u)
    BY <1>9
  <2>1. CallAt(u)
    BY <1>0, PlaceOf
  <2>2. to \in Places
    BY <1>0, <2>1, <2>0 DEF CallAt, Places, GiveUp, TypesInv
  <2>3. /\ pc' = [pc EXCEPT ![u] = to] /\ pc'[u] = to
        /\ \A v \in Users : v # u => pc'[v] = pc[v]
        /\ pc' \in [Users -> Places]
    <3>1. pc' = [pc EXCEPT ![u] = to]
      BY <2>0 DEF GiveUp, Goes
    <3> HIDE DEF to
    <3> QED
      BY <1>0, <2>2, <3>1, Moves
  <2> HIDE DEF to
  <2>4. TypesInv'
    BY <1>0, <2>0, <2>1, <2>3 DEF CallAt, TypesInv, GiveUp, Chosen
  <2>5. LockInv'
    <3>1. \A v \in Users : Holds(v)' => mlock' = v
      BY <1>0, <1>free, <2>0, <2>1, <2>3
         DEF CallAt, TypesInv, LockInv, GiveUp, Call, Lock, Holds, to, Idle
    <3> QED
      BY <1>0, <1>free, <2>0, <2>1, <2>3, <3>1
         DEF CallAt, LockInv, GiveUp, Call, Lock, Holds, to, Idle
  <2>6. ChainInv'
    BY <1>0, <1>free, <2>0, <2>1, <2>3, <2>5
       DEF CallAt, TypesInv, LockInv, ChainInv, GiveUp, Call, Lock, Holds, Lost, regs,
           Awaited, to, Idle
  <2>7. SettingsInv'
    BY <1>0, <1>free, <2>0, <2>1, <2>3
       DEF CallAt, TypesInv, SettingsInv, SampleSet, WillSample, WillPower, GiveUp, Call,
           Lock, Lost, regs, to, Idle
  <2> QED
    BY <2>4, <2>5, <2>6, <2>7 DEF AdcInv
<1>10. ASSUME NEW u \in Users, NEW ch \in Channels, EnableBuffer(u, ch) PROVE AdcInv'
  <2> DEFINE to == [at |-> "enable", gc |-> gc]
  <2>0. EnableBuffer(u, ch)
    BY <1>10
  <2>1. CallAt(u)
    BY <1>0, PlaceOf
  <2>2. to \in Places
    BY <1>0, <2>1, <2>0 DEF CallAt, Places, EnableBuffer, TypesInv
  <2>3. /\ pc' = [pc EXCEPT ![u] = to] /\ pc'[u] = to
        /\ \A v \in Users : v # u => pc'[v] = pc[v]
        /\ pc' \in [Users -> Places]
    <3>1. pc' = [pc EXCEPT ![u] = to]
      BY <2>0 DEF EnableBuffer, Goes
    <3> HIDE DEF to
    <3> QED
      BY <1>0, <2>2, <3>1, Moves
  <2> HIDE DEF to
  <2>4. TypesInv'
    BY <1>0, <2>0, <2>1, <2>3 DEF CallAt, TypesInv, EnableBuffer, Chosen
  <2>5. LockInv'
    <3>1. \A v \in Users : Holds(v)' => mlock' = v
      BY <1>0, <1>free, <2>0, <2>1, <2>3
         DEF CallAt, TypesInv, LockInv, EnableBuffer, Call, Lock, Holds, to, Idle
    <3> QED
      BY <1>0, <1>free, <2>0, <2>1, <2>3, <3>1
         DEF CallAt, LockInv, EnableBuffer, Call, Lock, Holds, to, Idle
  <2>6. ChainInv'
    BY <1>0, <1>free, <2>0, <2>1, <2>3, <2>5
       DEF CallAt, TypesInv, LockInv, ChainInv, EnableBuffer, Call, Lock, Holds, Lost,
           regs, Awaited, to, Idle
  <2>7. SettingsInv'
    BY <1>0, <1>free, <2>0, <2>1, <2>3
       DEF CallAt, TypesInv, SettingsInv, SampleSet, WillSample, WillPower, EnableBuffer,
           Call, Lock, Lost, regs, to, Idle
  <2> QED
    BY <2>4, <2>5, <2>6, <2>7 DEF AdcInv
<1>11. ASSUME NEW u \in Users, PostEnable(u) PROVE AdcInv'
  <2> DEFINE to == Idle
  <2>0. PostEnable(u)
    BY <1>11
  <2>1. CallAt(u)
    BY <1>0, PlaceOf
  <2>2. to \in Places
    BY <1>0, <2>1, <2>0 DEF CallAt, Places, PostEnable, TypesInv
  <2>3. /\ pc' = [pc EXCEPT ![u] = to] /\ pc'[u] = to
        /\ \A v \in Users : v # u => pc'[v] = pc[v]
        /\ pc' \in [Users -> Places]
    <3>1. pc' = [pc EXCEPT ![u] = to]
      BY <2>0 DEF PostEnable, Goes
    <3> HIDE DEF to
    <3> QED
      BY <1>0, <2>2, <3>1, Moves
  <2> HIDE DEF to
  <2>regs. gc' \in Controls /\ gc'.avgen = pc[u].gc.avgen
    BY <2>0, <2>1 DEF CallAt, PostEnable, Controls
  <2>4. TypesInv'
    BY <1>0, <2>0, <2>1, <2>regs, <2>3 DEF CallAt, TypesInv, PostEnable, Chosen
  <2>5. LockInv'
    <3>1. \A v \in Users : Holds(v)' => mlock' = v
      BY <1>0, <1>free, <2>0, <2>1, <2>3
         DEF CallAt, TypesInv, LockInv, PostEnable, Call, Lock, Holds, to, Idle
    <3> QED
      BY <1>0, <1>free, <2>0, <2>1, <2>3, <3>1
         DEF CallAt, LockInv, PostEnable, Call, Lock, Holds, to, Idle
  <2>6. ChainInv'
    BY <1>0, <1>free, <2>0, <2>1, <2>regs, <2>3, <2>5
       DEF CallAt, TypesInv, LockInv, ChainInv, PostEnable, Call, Lock, Holds, Lost, regs,
           Awaited, to, Idle
  <2>7. SettingsInv'
    BY <1>0, <1>free, <2>0, <2>1, <2>regs, <2>3
       DEF CallAt, TypesInv, SettingsInv, SampleSet, WillSample, WillPower, PostEnable,
           Call, Lock, Lost, regs, to, Idle
  <2> QED
    BY <2>4, <2>5, <2>6, <2>7 DEF AdcInv
<1>12. ASSUME NEW u \in Users, DisableBuffer(u) PROVE AdcInv'
  <2> DEFINE to == [at |-> "disable", gc |-> gc]
  <2>0. DisableBuffer(u)
    BY <1>12
  <2>1. CallAt(u)
    BY <1>0, PlaceOf
  <2>2. to \in Places
    BY <1>0, <2>1, <2>0 DEF CallAt, Places, DisableBuffer, TypesInv
  <2>3. /\ pc' = [pc EXCEPT ![u] = to] /\ pc'[u] = to
        /\ \A v \in Users : v # u => pc'[v] = pc[v]
        /\ pc' \in [Users -> Places]
    <3>1. pc' = [pc EXCEPT ![u] = to]
      BY <2>0 DEF DisableBuffer, Goes
    <3> HIDE DEF to
    <3> QED
      BY <1>0, <2>2, <3>1, Moves
  <2> HIDE DEF to
  <2>4. TypesInv'
    BY <1>0, <2>0, <2>1, <2>3 DEF CallAt, TypesInv, DisableBuffer, Chosen
  <2>5. LockInv'
    <3>1. \A v \in Users : Holds(v)' => mlock' = v
      BY <1>0, <1>free, <2>0, <2>1, <2>3
         DEF CallAt, TypesInv, LockInv, DisableBuffer, Call, Lock, Holds, to, Idle
    <3> QED
      BY <1>0, <1>free, <2>0, <2>1, <2>3, <3>1
         DEF CallAt, LockInv, DisableBuffer, Call, Lock, Holds, to, Idle
  <2>6. ChainInv'
    BY <1>0, <1>free, <2>0, <2>1, <2>3, <2>5
       DEF CallAt, TypesInv, LockInv, ChainInv, DisableBuffer, Call, Lock, Holds, Lost,
           regs, Awaited, to, Idle
  <2>7. SettingsInv'
    BY <1>0, <1>free, <2>0, <2>1, <2>3
       DEF CallAt, TypesInv, SettingsInv, SampleSet, WillSample, WillPower, DisableBuffer,
           Call, Lock, Lost, regs, to, Idle
  <2> QED
    BY <2>4, <2>5, <2>6, <2>7 DEF AdcInv
<1>13. ASSUME NEW u \in Users, PreDisable(u) PROVE AdcInv'
  <2> DEFINE to == Idle
  <2>0. PreDisable(u)
    BY <1>13
  <2>1. CallAt(u)
    BY <1>0, PlaceOf
  <2>2. to \in Places
    BY <1>0, <2>1, <2>0 DEF CallAt, Places, PreDisable, TypesInv
  <2>3. /\ pc' = [pc EXCEPT ![u] = to] /\ pc'[u] = to
        /\ \A v \in Users : v # u => pc'[v] = pc[v]
        /\ pc' \in [Users -> Places]
    <3>1. pc' = [pc EXCEPT ![u] = to]
      BY <2>0 DEF PreDisable, Goes
    <3> HIDE DEF to
    <3> QED
      BY <1>0, <2>2, <3>1, Moves
  <2> HIDE DEF to
  <2>regs. gc' \in Controls /\ gc'.avgen = pc[u].gc.avgen /\ gc'.adcon = FALSE
    BY <2>0, <2>1 DEF CallAt, PreDisable, Controls
  <2>4. TypesInv'
    BY <1>0, <2>0, <2>1, <2>regs, <2>3 DEF CallAt, TypesInv, PreDisable, Chosen
  <2>5. LockInv'
    <3>1. \A v \in Users : Holds(v)' => mlock' = v
      BY <1>0, <1>free, <2>0, <2>1, <2>3
         DEF CallAt, TypesInv, LockInv, PreDisable, Call, Lock, Holds, to, Idle
    <3> QED
      BY <1>0, <1>free, <2>0, <2>1, <2>3, <3>1
         DEF CallAt, LockInv, PreDisable, Call, Lock, Holds, to, Idle
  <2>6. ChainInv'
    BY <1>0, <1>free, <2>0, <2>1, <2>regs, <2>3, <2>5
       DEF CallAt, TypesInv, LockInv, ChainInv, PreDisable, Call, Lock, Holds, Lost, regs,
           Awaited, to, Idle
  <2>7. SettingsInv'
    BY <1>0, <1>free, <2>0, <2>1, <2>regs, <2>3
       DEF CallAt, TypesInv, SettingsInv, SampleSet, WillSample, WillPower, PreDisable,
           Call, Lock, Lost, regs, to, Idle
  <2> QED
    BY <2>4, <2>5, <2>6, <2>7 DEF AdcInv
<1>14. ASSUME ConversionEnds PROVE AdcInv'
  <2>1. TypesInv'
    BY <1>0, <1>14 DEF TypesInv, ConversionEnds, Chosen
  <2>2. LockInv'
    BY <1>0, <1>14 DEF LockInv, ConversionEnds, Holds
  <2>3. ChainInv'
    BY <1>0, <1>14, PlaceOf
       DEF CallAt, TypesInv, LockInv, ChainInv, ConversionEnds, Awaited, Holds, Idle
  <2>4. SettingsInv'
    BY <1>0, <1>14, PlaceOf
       DEF CallAt, TypesInv, SettingsInv, SampleSet, WillSample, WillPower,
           ConversionEnds, Idle
  <2> QED
    BY <2>1, <2>2, <2>3, <2>4 DEF AdcInv
<1>15. ASSUME vf610_adc_isr PROVE AdcInv'
  <2>1. TypesInv'
    BY <1>0, <1>15 DEF TypesInv, vf610_adc_isr, Chosen
  <2>2. LockInv'
    BY <1>0, <1>15 DEF LockInv, vf610_adc_isr, Holds
  <2>3. ChainInv'
    BY <1>0, <1>15, PlaceOf
       DEF CallAt, TypesInv, LockInv, ChainInv, vf610_adc_isr, Awaited, Holds, Idle
  <2>4. SettingsInv'
    BY <1>0, <1>15, PlaceOf
       DEF CallAt, TypesInv, SettingsInv, SampleSet, WillSample, WillPower, vf610_adc_isr,
           Idle
  <2> QED
    BY <2>1, <2>2, <2>3, <2>4 DEF AdcInv
<1>16. ASSUME ReadBuffer PROVE AdcInv'
  <2>1. TypesInv'
    BY <1>0, <1>16 DEF TypesInv, ReadBuffer, Chosen
  <2>2. LockInv'
    BY <1>0, <1>16 DEF LockInv, ReadBuffer, Holds
  <2>3. ChainInv'
    BY <1>0, <1>16, PlaceOf
       DEF CallAt, TypesInv, LockInv, ChainInv, ReadBuffer, Awaited, Holds, Idle
  <2>4. SettingsInv'
    BY <1>0, <1>16, PlaceOf
       DEF CallAt, TypesInv, SettingsInv, SampleSet, WillSample, WillPower, ReadBuffer,
           Idle
  <2> QED
    BY <2>1, <2>2, <2>3, <2>4 DEF AdcInv
<1>17. ASSUME Suspend PROVE AdcInv'
  <2>1. TypesInv'
    BY <1>0, <1>17 DEF TypesInv, Suspend, Chosen
  <2>2. LockInv'
    BY <1>0, <1>17 DEF LockInv, Suspend, Holds
  <2>3. ChainInv'
    BY <1>0, <1>17, PlaceOf
       DEF CallAt, TypesInv, LockInv, ChainInv, Suspend, Awaited, Holds, Idle
  <2>4. SettingsInv'
    BY <1>0, <1>17, PlaceOf
       DEF CallAt, TypesInv, SettingsInv, SampleSet, WillSample, WillPower, Suspend, Idle
  <2> QED
    BY <2>1, <2>2, <2>3, <2>4 DEF AdcInv
<1>18. ASSUME Resume PROVE AdcInv'
  <2>regs. /\ cfg' \in Configs /\ gc' \in Controls
        /\ cfg'.div = Programmed(feature.clk_div) /\ cfg'.avgs = Averages(feature.rate)
        /\ cfg'.adder = AdderBits[feature.adder] /\ cfg'.power = feature.mode
        /\ gc'.avgen = (feature.rate > 0) /\ gc'.adcon = FALSE
    <3>1. feature \in Features
      BY <1>0 DEF TypesInv
    <3> QED
      BY <1>18, <3>1, InitTypes DEF Resume
  <2>1. TypesInv'
    BY <1>0, <1>18, <2>regs DEF TypesInv, Resume, Chosen
  <2>2. LockInv'
    BY <1>0, <1>18, <2>regs DEF LockInv, Resume, Holds
  <2>3. ChainInv'
    BY <1>0, <1>18, <2>regs, PlaceOf
       DEF CallAt, TypesInv, LockInv, ChainInv, Resume, Awaited, Holds, Idle
  <2>4. SettingsInv'
    BY <1>0, <1>18, <2>regs, PlaceOf
       DEF CallAt, TypesInv, SettingsInv, SampleSet, WillSample, WillPower, Resume, Idle
  <2> QED
    BY <2>1, <2>2, <2>3, <2>4 DEF AdcInv
<1>20. ASSUME NEW u \in Users, PowerRead(u) PROVE AdcInv'
  <2> DEFINE to == [at |-> "power", cfg |-> cfg]
  <2>0. PowerRead(u)
    BY <1>20
  <2>1. CallAt(u)
    BY <1>0, PlaceOf
  <2>2. to \in Places
    BY <1>0, <2>1, <2>0 DEF CallAt, Places, PowerRead, TypesInv
  <2>3. /\ pc' = [pc EXCEPT ![u] = to] /\ pc'[u] = to
        /\ \A v \in Users : v # u => pc'[v] = pc[v]
        /\ pc' \in [Users -> Places]
    <3>1. pc' = [pc EXCEPT ![u] = to]
      BY <2>0 DEF PowerRead, Goes
    <3> HIDE DEF to
    <3> QED
      BY <1>0, <2>2, <3>1, Moves
  <2> HIDE DEF to
  <2>4. TypesInv'
    BY <1>0, <2>0, <2>1, <2>3 DEF CallAt, TypesInv, PowerRead, Chosen
  <2>5. LockInv'
    <3>1. \A v \in Users : Holds(v)' => mlock' = v
      BY <1>0, <1>free, <2>0, <2>1, <2>3
         DEF CallAt, TypesInv, LockInv, PowerRead, Call, Lock, Holds, to, Idle
    <3> QED
      BY <1>0, <1>free, <2>0, <2>1, <2>3, <3>1
         DEF CallAt, LockInv, PowerRead, Call, Lock, Holds, to, Idle
  <2>6. ChainInv'
    BY <1>0, <1>free, <2>0, <2>1, <2>3, <2>5
       DEF CallAt, TypesInv, LockInv, ChainInv, PowerRead, Call, Lock, Holds, Lost, regs,
           Awaited, to, Idle
  <2>7. SettingsInv'
    BY <1>0, <1>free, <2>0, <2>1, <2>3
       DEF CallAt, TypesInv, SettingsInv, SampleSet, WillSample, WillPower, PowerRead,
           Call, Lock, Lost, regs, to, Idle
  <2> QED
    BY <2>4, <2>5, <2>6, <2>7 DEF AdcInv
<1>21. ASSUME ResumeFails PROVE AdcInv'
  <2>1. TypesInv'
    BY <1>0, <1>21 DEF TypesInv, ResumeFails, Chosen
  <2>2. LockInv'
    BY <1>0, <1>21 DEF LockInv, ResumeFails, Holds
  <2>3. ChainInv'
    BY <1>0, <1>21, PlaceOf
       DEF CallAt, TypesInv, LockInv, ChainInv, ResumeFails, Awaited, Holds, Idle
  <2>4. SettingsInv'
    BY <1>0, <1>21, PlaceOf
       DEF CallAt, TypesInv, SettingsInv, SampleSet, WillSample, WillPower, ResumeFails,
           Idle
  <2> QED
    BY <2>1, <2>2, <2>3, <2>4 DEF AdcInv
<1>19. ASSUME UNCHANGED vars PROVE AdcInv'
  BY <1>0, <1>19
     DEF vars, AdcInv, TypesInv, LockInv, Holds, ChainInv, Awaited, SettingsInv, SampleSet,
         WillSample, WillPower
<1> QED
  BY <1>1, <1>2, <1>3, <1>4, <1>5, <1>6, <1>7, <1>8, <1>9, <1>10, <1>11, <1>12, <1>13,
     <1>14, <1>15, <1>16, <1>17, <1>18, <1>19, <1>20, <1>21
     DEF Next, Calls, Proceed, Settings, Reads, Buffer

\* IInv always holds.
LEMMA AdcInvariance == Spec => []AdcInv
  BY AdcInitInv, AdcNextInv, PTL DEF Spec

-----------------------------------------------------------------------------
(* The theorems                                                            *)

\* A read returns a sample of its channel, and the buffer holds samples of its own, for
\* any number of processes, unless a conversion was abandoned or a register overwritten.
THEOREM SamplesAreOfTheirChannel == Spec => []ValueIsOfItsChannel
<1>1. AdcInv => ValueIsOfItsChannel
  BY DEF AdcInv, ChainInv, ValueIsOfItsChannel
<1> QED
  BY <1>1, AdcInvariance, PTL

\* Bits and cycles correspond, but for the last entry of the table.
LEMMA CyclesOfBits ==
  ASSUME NEW i \in 1..8
  PROVE  Cycles(AdderBits[i]) = lst_adder[i] \/ lst_adder[i] = 25
<1>1. CASE i = 8
  BY <1>1 DEF lst_adder
<1>2. CASE i # 8
  <2> DEFINE bits == AdderBits[i]
             j == CHOOSE k \in 1..7 : AdderBits[k] = bits
  <2>0. i \in {1, 2, 3, 4, 5, 6, 7}
    BY <1>2
  <2>1. /\ AdderBits[1] = {} /\ AdderBits[2] = {"ADSTS0"} /\ AdderBits[3] = {"ADSTS1"}
        /\ AdderBits[4] = {"ADSTS1", "ADSTS0"} /\ AdderBits[5] = {"ADLSMP"}
        /\ AdderBits[6] = {"ADLSMP", "ADSTS0"} /\ AdderBits[7] = {"ADLSMP", "ADSTS1"}
    BY DEF AdderBits
  <2>2. bits # SampleBits
    BY <2>0, <2>1 DEF SampleBits
  <2>3. \A k \in {1, 2, 3, 4, 5, 6, 7} : AdderBits[k] = bits => k = i
    BY <2>0, <2>1
  <2>4. j = i
    <3>1. \A k \in 1..7 : k \in {1, 2, 3, 4, 5, 6, 7}
      OBVIOUS
    <3>2. i \in 1..7 /\ AdderBits[i] = bits
      BY <1>2
    <3> HIDE DEF bits
    <3> QED
      BY <2>3, <3>1, <3>2
  <2>5. Cycles(bits) = lst_adder[j]
    BY <2>2, Zenon DEF Cycles
  <2> QED
    BY <2>4, <2>5
<1> QED
  BY <1>1, <1>2

\* Between calls the registers select the divider and the sampling time that were
\* determined last, and these are within the specification, for every clock, limit and
\* sampling time that do not make the driver divide by zero (AdcAssumption).  Not a
\* divider above 16 nor a sampling time of 25 cycles, for which the driver programs 1 and
\* 21 (RegistersAsDetermined is violated), and not after a frequency was written while
\* the registers changed under it, or a resume failed.
THEOREM SettingsReachTheChip == Spec => []ConfiguredAsAsked
<1>1. AdcInv => ConfiguredAsAsked
  <2> SUFFICES ASSUME AdcInv, Quiet, "lost" \notin mishaps
               PROVE  /\ RatesWithinSpecification
                      /\ cfg.div = feature.clk_div \/ feature.clk_div > 16
                      /\ \/ Cycles(cfg.adder) = lst_adder[feature.adder]
                         \/ lst_adder[feature.adder] = 25
                      /\ gc.avgen = (feature.rate > 0) /\ cfg.avgs = Averages(feature.rate)
                      /\ cfg.power = feature.mode
    BY Zenon DEF ConfiguredAsAsked
  <2>1. SampleSet /\ cfg.power = feature.mode
    BY DEF AdcInv, SettingsInv, Quiet, WillSample, WillPower
  <2>2. /\ feature.mode \in conv_modes /\ feature.adder \in 1..8
        /\ feature.clk_div = ClockDivider(feature.mode)
        /\ Suffices(feature.adder, feature.clk_div)
    BY DEF AdcInv, TypesInv, Features
  <2>3. RatesWithinSpecification
    <3>1. MaxAdckRate[feature.mode] > 0
            => IpgRate \div ClockDivider(feature.mode) <= MaxAdckRate[feature.mode]
      BY <2>2, Divider
    <3> QED
      BY <2>2, <3>1, Zenon DEF RatesWithinSpecification, Suffices
  <2>4. cfg.div = feature.clk_div \/ feature.clk_div > 16
    <3>1. feature.clk_div > 16 \/ feature.clk_div \in Divides
      BY <2>2, Divider
    <3> QED
      BY <2>1, <3>1 DEF SampleSet, Programmed
  <2>5. Cycles(cfg.adder) = lst_adder[feature.adder] \/ lst_adder[feature.adder] = 25
    <3>1. cfg.adder = AdderBits[feature.adder]
      BY <2>1 DEF SampleSet
    <3> QED
      BY <2>2, <3>1, CyclesOfBits, Zenon
  <2> QED
    BY <2>1, <2>3, <2>4, <2>5, Zenon DEF SampleSet
<1> QED
  BY <1>1, AdcInvariance, PTL
=============================================================================
