-------------------------------- MODULE KeyDriver --------------------------------
(***************************************************************************)
(* The character device driver of the user key (06.key/key_rwio): a        *)
(* threaded interrupt handler closes a gate (protect) and arms a 50 ms     *)
(* timer, the timer samples the line, publishes a press or release in      *)
(* status, wakes the readers and reopens the gate; read() waits for        *)
(* status, copies it and clears it.  Probe and remove are part of the      *)
(* model: the interrupt is live before the structures it uses are set up   *)
(* and until after the timer has been deleted.                             *)
(***************************************************************************)
EXTENDS Integers, Sequences, FiniteSets

CONSTANTS
  Readers,      \* the processes that may open /dev/key
  NonBlocking,  \* those that open it with O_NONBLOCK
  MaxEdges      \* bound: changes of the line

ASSUME KeyAssumption ==
  /\ NonBlocking \subseteq Readers
  /\ MaxEdges \in Nat

VARIABLES
  stage,     \* how far probe, and then remove, have come (see below)
  level,     \* the line
  edges,     \* how many times it has changed
  irq,       \* an interrupt is latched for the handler thread
  handler,   \* the handler thread: "idle", or "arm" after it saw the gate open
  protect,   \* chip->protect is 1: the gate is closed
  armed,     \* the timer is pending
  timer,     \* the timer callback: "idle", "sampled", "published"
  sample,    \* the value the callback read
  keyValue,  \* chip->key_value
  status,    \* chip->status
  event,     \* which change status stands for (0: none); a history variable
  changes,   \* how many changes the timer has published
  missed,    \* an edge was dropped since the line was last sampled; history
  reader,    \* where each reader is
  got,       \* the changes read() has returned to each reader; history
  late,      \* the handler has armed the timer after it was deleted; history
  fault      \* the kernel has used something uninitialised or freed

keyVars == <<stage, level, edges, irq, handler, protect, armed, timer, sample,
             keyValue, status, event, changes, missed, reader, got, late,
             fault>>

\* The steps of key_probe and key_remove, by what has been done so far.
Allocated == 0     \* devm_kzalloc: everything is 0, status reads KEY_PRESS
GpioRead == 1      \* key_value sampled
IrqRequested == 2  \* interrupts are handled from here on
DevCreated == 3    \* /dev/key can be opened
StatusSet == 4     \* status = KEY_KEEP
ProtectSet == 5    \* protect = 0
QueueReady == 6    \* init_waitqueue_head
Live == 7          \* timer_setup: probe has succeeded
DevGone == 8       \* device, class, cdev and region released
TimerGone == 9     \* del_timer_sync: remove, or a failed probe, returns
IrqFreed == 10     \* devres frees the interrupt ...
Freed == 11        \* ... and then the chip

irqState == <<irq, handler>>
timerState == <<protect, armed, timer, sample, keyValue, changes>>
readerState == <<reader, got>>

KeyInit ==
  /\ stage = Allocated
  /\ level \in {0, 1}
  /\ edges = 0
  /\ irq = FALSE /\ handler = "idle"
  /\ protect = FALSE /\ armed = FALSE /\ timer = "idle" /\ sample = 0
  /\ keyValue = 0 /\ status = "press" /\ event = 0 /\ changes = 0
  /\ missed = FALSE
  /\ reader = [r \in Readers |-> "closed"]
  /\ got = [r \in Readers |-> <<>>]
  /\ late = FALSE /\ fault = "none"

-----------------------------------------------------------------------------
(* key_probe                                                               *)

\* key_hw_init: the line is sampled once ...
ReadGpio ==
  /\ stage = Allocated
  /\ stage' = GpioRead
  /\ keyValue' = level
  /\ UNCHANGED <<level, edges, irqState, protect, armed, timer, sample, status,
                 event, changes, missed, readerState, late, fault>>

\* ... and only then the interrupt is requested.
RequestIrq ==
  /\ stage = GpioRead
  /\ stage' = IrqRequested
  /\ UNCHANGED <<level, edges, irqState, timerState, status, event, missed,
                 readerState, late, fault>>

\* key_device_create succeeds: open is possible.
CreateDevice ==
  /\ stage = IrqRequested
  /\ stage' = DevCreated
  /\ UNCHANGED <<level, edges, irqState, timerState, status, event, missed,
                 readerState, late, fault>>

\* Any step so far fails: probe returns, devres undoes the rest.
ProbeFails ==
  /\ stage \in {Allocated, GpioRead, IrqRequested}
  /\ stage' = IF stage = IrqRequested THEN TimerGone ELSE IrqFreed
  /\ UNCHANGED <<level, edges, irqState, timerState, status, event, missed,
                 readerState, late, fault>>

\* The global variables are initialised, one after the other.
InitStatus ==
  /\ stage = DevCreated
  /\ stage' = StatusSet
  /\ status' = "keep"
  /\ UNCHANGED <<level, edges, irqState, timerState, event, missed, readerState,
                 late, fault>>

InitProtect ==
  /\ stage = StatusSet
  /\ stage' = ProtectSet
  /\ protect' = FALSE
  /\ UNCHANGED <<level, edges, irqState, armed, timer, sample, keyValue, status,
                 event, changes, missed, readerState, late, fault>>

\* init_waitqueue_head, then timer_setup.
InitQueueAndTimer ==
  /\ stage \in {ProtectSet, QueueReady}
  /\ stage' = stage + 1
  /\ UNCHANGED <<level, edges, irqState, timerState, status, event, missed,
                 readerState, late, fault>>

-----------------------------------------------------------------------------
(* key_remove, and the devres release after it                             *)

RemoveDevice ==
  /\ stage = Live
  /\ stage' = DevGone
  /\ UNCHANGED <<level, edges, irqState, timerState, status, event, missed,
                 readerState, late, fault>>

\* del_timer_sync: waits for a running callback.
DeleteTimer ==
  /\ stage = DevGone
  /\ timer = "idle"
  /\ stage' = TimerGone
  /\ armed' = FALSE
  /\ UNCHANGED <<level, edges, irqState, protect, timer, sample, keyValue,
                 status, event, changes, missed, readerState, late, fault>>

\* devm_free_irq waits for the handler thread.
FreeIrq ==
  /\ stage = TimerGone
  /\ handler = "idle"
  /\ stage' = IrqFreed
  /\ irq' = FALSE
  /\ UNCHANGED <<level, edges, handler, timerState, status, event, missed,
                 readerState, late, fault>>

FreeChip ==
  /\ stage = IrqFreed
  /\ stage' = Freed
  /\ UNCHANGED <<level, edges, irqState, timerState, status, event, missed,
                 readerState, late, fault>>

-----------------------------------------------------------------------------
(* The line, the handler thread, the timer                                 *)

IrqEnabled == stage \in IrqRequested..TimerGone

\* The line changes. An edge before the interrupt is requested leaves no trace.
Edge ==
  /\ edges < MaxEdges
  /\ edges' = edges + 1
  /\ level' = 1 - level
  /\ irq' = (irq \/ IrqEnabled)
  /\ missed' = (missed \/ stage = GpioRead)
  /\ UNCHANGED <<stage, handler, timerState, status, event, readerState, late,
                 fault>>

\* Mutant: the gate is not looked at.
HandlerEnterAlways ==
  /\ IrqEnabled
  /\ irq /\ handler = "idle"
  /\ irq' = FALSE
  /\ handler' = "arm"
  /\ UNCHANGED <<stage, level, edges, timerState, status, event, missed,
                 readerState, late, fault>>

\* key_handler finds the gate open.
HandlerEnter ==
  /\ IrqEnabled
  /\ irq /\ handler = "idle"
  /\ ~protect
  /\ irq' = FALSE
  /\ handler' = "arm"
  /\ UNCHANGED <<stage, level, edges, timerState, status, event, missed,
                 readerState, late, fault>>

\* key_handler finds the gate closed and returns. If the callback has sampled the
\* line already, nobody will look at this edge.
HandlerSkip ==
  /\ IrqEnabled
  /\ irq /\ handler = "idle"
  /\ protect
  /\ irq' = FALSE
  /\ missed' = (missed \/ timer # "idle")
  /\ UNCHANGED <<stage, level, edges, handler, timerState, status, event,
                 readerState, late, fault>>

\* key_handler closes the gate and arms the timer.
HandlerArm ==
  /\ handler = "arm"
  /\ handler' = "idle"
  /\ protect' = TRUE
  /\ IF stage < Live
     THEN fault' = "timer" /\ UNCHANGED armed
     ELSE armed' = TRUE /\ UNCHANGED fault
  /\ late' = (late \/ stage = TimerGone)
  /\ UNCHANGED <<stage, level, edges, irq, timer, sample, keyValue, status,
                 event, changes, missed, readerState>>

\* key_timer_func starts: the line is read.
TimerSample ==
  /\ armed /\ timer = "idle"
  /\ armed' = FALSE
  /\ IF stage = Freed
     THEN fault' = "freed" /\ UNCHANGED <<timer, sample, missed>>
     ELSE /\ timer' = "sampled"
          /\ sample' = level
          /\ missed' = FALSE
          /\ UNCHANGED fault
  /\ UNCHANGED <<stage, level, edges, irqState, protect, keyValue, status, event,
                 changes, readerState, late>>

Wake == [r \in Readers |-> IF reader[r] = "sleep" THEN "check" ELSE reader[r]]

\* Mutant: the readers are not woken.
PublishNoWake ==
  /\ timer = "sampled"
  /\ timer' = "published"
  /\ IF sample # keyValue
     THEN /\ keyValue' = sample
          /\ status' = IF sample = 1 THEN "press" ELSE "release"
          /\ changes' = changes + 1
          /\ event' = changes + 1
     ELSE /\ status' = "keep"
          /\ event' = 0
          /\ UNCHANGED <<keyValue, changes>>
  /\ UNCHANGED <<stage, level, edges, irqState, protect, armed, sample, missed,
                 readerState, late, fault>>

\* Mutant: the new value is published but not remembered.
PublishForgetsValue ==
  /\ timer = "sampled"
  /\ timer' = "published"
  /\ IF sample # keyValue
     THEN /\ status' = IF sample = 1 THEN "press" ELSE "release"
          /\ changes' = changes + 1
          /\ event' = changes + 1
          /\ reader' = Wake
          /\ UNCHANGED keyValue
     ELSE /\ status' = "keep"
          /\ event' = 0
          /\ UNCHANGED <<keyValue, changes, reader>>
  /\ UNCHANGED <<stage, level, edges, irqState, protect, armed, sample, missed,
                 got, late, fault>>

\* The value is compared with the last one; a change is published, anything else
\* resets status, an unread change included.
TimerPublish ==
  /\ timer = "sampled"
  /\ timer' = "published"
  /\ IF sample # keyValue
     THEN /\ keyValue' = sample
          /\ status' = IF sample = 1 THEN "press" ELSE "release"
          /\ changes' = changes + 1
          /\ event' = changes + 1
          /\ reader' = Wake
     ELSE /\ status' = "keep"
          /\ event' = 0
          /\ UNCHANGED <<keyValue, changes, reader>>
  /\ UNCHANGED <<stage, level, edges, irqState, protect, armed, sample, missed,
                 got, late, fault>>

\* Mutant: the gate stays closed when nothing has changed.
ReopenOnlyAfterChange ==
  /\ timer = "published"
  /\ timer' = "idle"
  /\ protect' = (status = "keep")
  /\ UNCHANGED <<stage, level, edges, irqState, armed, sample, keyValue, status,
                 event, changes, missed, readerState, late, fault>>

\* The callback's last act: the gate reopens.
TimerReopen ==
  /\ timer = "published"
  /\ timer' = "idle"
  /\ protect' = FALSE
  /\ UNCHANGED <<stage, level, edges, irqState, armed, sample, keyValue, status,
                 event, changes, missed, readerState, late, fault>>

-----------------------------------------------------------------------------
(* key_open, key_read                                                      *)

devState == <<stage, level, edges, irqState, timerState, missed, late>>

Open(r) ==
  /\ stage \in DevCreated..Live
  /\ reader[r] = "closed"
  /\ reader' = [reader EXCEPT ![r] = "idle"]
  /\ UNCHANGED <<devState, status, event, got, fault>>

ReadEnter(r) ==
  /\ reader[r] = "idle"
  /\ reader' = [reader EXCEPT ![r] = "check"]
  /\ UNCHANGED <<devState, status, event, got, fault>>

\* A change is there: go on and copy it.
ReadReady(r) ==
  /\ reader[r] = "check" /\ status # "keep"
  /\ reader' = [reader EXCEPT ![r] = "copy"]
  /\ UNCHANGED <<devState, status, event, got, fault>>

\* Nothing there and O_NONBLOCK: -EAGAIN.
ReadAgain(r) ==
  /\ reader[r] = "check" /\ status = "keep"
  /\ r \in NonBlocking
  /\ reader' = [reader EXCEPT ![r] = "idle"]
  /\ UNCHANGED <<devState, status, event, got, fault>>

\* Nothing there: wait_event_interruptible queues the reader, on a wait queue that
\* probe may not have initialised yet.
ReadSleep(r) ==
  /\ reader[r] = "check" /\ status = "keep"
  /\ r \notin NonBlocking
  /\ IF stage < QueueReady
     THEN fault' = "queue" /\ UNCHANGED reader
     ELSE reader' = [reader EXCEPT ![r] = "sleep"] /\ UNCHANGED fault
  /\ UNCHANGED <<devState, status, event, got>>

\* A signal ends the wait.
ReadInterrupted(r) ==
  /\ reader[r] = "sleep"
  /\ reader' = [reader EXCEPT ![r] = "idle"]
  /\ UNCHANGED <<devState, status, event, got, fault>>

\* copy_to_user: whatever status holds by now, KEY_KEEP included.
ReadCopy(r) ==
  /\ reader[r] = "copy"
  /\ reader' = [reader EXCEPT ![r] = "clear"]
  /\ got' = [got EXCEPT ![r] = Append(@, event)]
  /\ UNCHANGED <<devState, status, event, fault>>

\* copy_to_user fails: -EFAULT, status is left as it is.
ReadFault(r) ==
  /\ reader[r] = "copy"
  /\ reader' = [reader EXCEPT ![r] = "idle"]
  /\ UNCHANGED <<devState, status, event, got, fault>>

\* Mutant: status is not cleared.
ReadNoClear(r) ==
  /\ reader[r] = "clear"
  /\ reader' = [reader EXCEPT ![r] = "idle"]
  /\ UNCHANGED <<devState, status, event, got, fault>>

\* status is cleared, whatever has been published since the copy.
ReadClear(r) ==
  /\ reader[r] = "clear"
  /\ reader' = [reader EXCEPT ![r] = "idle"]
  /\ status' = "keep"
  /\ event' = 0
  /\ UNCHANGED <<devState, got, fault>>

\* A file that was open when the driver was unbound keeps its pointer to the chip:
\* whatever its reader does next touches freed memory.
ReadFreed(r) ==
  /\ stage = Freed
  /\ reader[r] # "closed"
  /\ fault' = "freed"
  /\ UNCHANGED <<devState, status, event, reader, got>>

-----------------------------------------------------------------------------
Probe ==
  \/ ReadGpio \/ RequestIrq \/ CreateDevice \/ ProbeFails
  \/ InitStatus \/ InitProtect \/ InitQueueAndTimer

Remove == RemoveDevice \/ DeleteTimer \/ FreeIrq \/ FreeChip

Handler == HandlerEnter \/ HandlerSkip \/ HandlerArm

Timer == TimerSample \/ TimerPublish \/ TimerReopen

Read(r) ==
  \/ ReadReady(r) \/ ReadAgain(r) \/ ReadSleep(r) \/ ReadCopy(r)
  \/ ReadFault(r) \/ ReadClear(r)

\* A fault stops the kernel.
KeyNext ==
  /\ fault = "none"
  /\ \/ Probe \/ Remove \/ Edge \/ Handler \/ Timer
     \/ \E r \in Readers :
          \/ Open(r) \/ ReadFreed(r)
          \/ stage # Freed /\ (ReadEnter(r) \/ ReadInterrupted(r) \/ Read(r))

\* The kernel runs a latched interrupt's thread, and fires a pending timer. Nobody
\* has to press the key, to read, or to bind the driver.
KeyFairness ==
  /\ WF_keyVars(fault = "none" /\ Handler)
  /\ WF_keyVars(fault = "none" /\ Timer)

KeySpec == KeyInit /\ [][KeyNext]_keyVars /\ KeyFairness

-----------------------------------------------------------------------------
(* Properties                                                              *)

\* The type invariant: the driver publishes no more changes than the line has had
\* edges (timer_func compares before it publishes).
KeyTypeOK ==
  /\ stage \in Allocated..Freed
  /\ level \in {0, 1} /\ edges \in 0..MaxEdges
  /\ irq \in BOOLEAN /\ handler \in {"idle", "arm"}
  /\ protect \in BOOLEAN /\ armed \in BOOLEAN
  /\ timer \in {"idle", "sampled", "published"}
  /\ sample \in {0, 1} /\ keyValue \in {0, 1}
  /\ status \in {"press", "release", "keep"}
  /\ changes \in 0..edges /\ event \in 0..changes
  /\ missed \in BOOLEAN
  /\ reader \in [Readers -> {"closed", "idle", "check", "sleep", "copy", "clear"}]
  /\ late \in BOOLEAN
  /\ got \in [Readers -> Seq(Nat)]
  /\ fault \in {"none", "timer", "queue", "freed"}

\* The gate works without a lock between the handler thread and the timer: it is
\* closed for as long as a timer is pending or its callback runs, so there is
\* never a second timer for the same chip and no callback is re-entered.
GateClosed ==
  /\ (armed \/ timer # "idle") => protect
  /\ ~(armed /\ timer # "idle")
  /\ handler = "arm" => ~protect

\* Whenever interrupts, handler and timer are at rest the driver's idea of the key
\* is the state of the line, unless an edge fell between the sample and the
\* reopening of the gate, or between the first sample and request_irq.
KeyTracksLine ==
  (/\ stage \in IrqRequested..DevGone
   /\ ~irq /\ handler = "idle" /\ ~armed /\ timer = "idle"
   /\ ~missed /\ fault = "none") => keyValue = level

\* What a reader can find in status is the last change the timer saw, in the
\* direction of key_value, and nothing else once probe has initialised it: the
\* zeroed status, which reads as KEY_PRESS, is visible in one stage of probe only.
StatusIsLastChange ==
  status # "keep" =>
    \/ event = changes /\ event > 0
         /\ status = IF keyValue = 1 THEN "press" ELSE "release"
    \/ event = 0 /\ stage =< DevCreated
    \/ event = 0 /\ stage >= TimerGone /\ changes = 0

\* No reader sleeps while a change waits to be read: publishing wakes all of them
\* and a reader checks before it sleeps.
NoLostWakeup == \A r \in Readers : reader[r] = "sleep" => status = "keep"

\* read() never returns the same change to one reader twice, and returns changes in
\* the order they happened (0 stands for KEY_KEEP, or the status of a raw chip).
DeliveredInOrder ==
  \A r \in Readers : \A i, j \in 1..Len(got[r]) :
    i < j /\ got[r][i] > 0 /\ got[r][j] > 0 => got[r][i] < got[r][j]

\* remove leaves nothing of the timer behind: if it is pending or running after
\* del_timer_sync, an interrupt came in before devres freed it and armed it again.
OnlyLateIrqRearms ==
  stage >= TimerGone /\ (armed \/ timer # "idle") => late

\* A closed gate reopens: no edge leaves the key dead, bounce or not.
GateReopens == (protect /\ stage = Live) ~> (~protect \/ stage # Live)
=============================================================================
