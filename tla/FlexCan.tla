--------------------------------- MODULE FlexCan ---------------------------------
(***************************************************************************)
(* The CAN driver (15.can_net/flexcan/flexcan-core.c) with the quirks of   *)
(* the i.MX6: frames in mailboxes, one of them for transmission, and an    *)
(* error state that the chip does not always announce.  The network stack  *)
(* sends while it is open, the handler runs on another processor, a work   *)
(* item restarts the chip after a bus off, and power management stops and  *)
(* starts it.  The bus goes on between any two steps, but not between the  *)
(* read of a register and the write that acknowledges it: a frame takes    *)
(* longer.                                                                 *)
(***************************************************************************)
EXTENDS Integers, FiniteSets, Sequences, SequencesExt

CONSTANTS
  Mailboxes,  \* the mailboxes for reception
  CanBudgets     \* bounds: how many events of each kind the environment may have

CanKinds == {"tx", "rx", "err", "oom", "ack", "ctl"}

ASSUME FlexCanAssumption ==
  /\ Mailboxes \subseteq Nat /\ IsFiniteSet(Mailboxes) /\ Mailboxes # {}
  /\ CanBudgets \subseteq [CanKinds -> Nat]

VARIABLES
  canBudget,     \* what the environment may still do
  mayWakeup,  \* device_may_wakeup: sleep in stop mode, not disabled
  ctl,        \* where open, close, suspend and resume are
  work,       \* the restart work of the CAN core: where it is, and whether it was queued again
  net,        \* the transmit queue of the stack, start_xmit and the echo slot
  state,      \* priv->can.state
  hw,         \* the chip, but for reception
  rx,         \* the mailboxes for reception
  irqOn,      \* the interrupt is requested
  irq,        \* the handler
  hist        \* what happened so far

canVars == <<canBudget, mayWakeup, ctl, work, net, state, hw, rx, irqOn, irq, hist>>

\* The fault confinement levels of a CAN controller and the states of the driver.
Levels == <<"active", "warning", "passive", "busoff">>
States == {"stopped", "active", "warning", "passive", "busoff", "sleeping"}
Rank(level) == CHOOSE i \in DOMAIN Levels : Levels[i] = level

CanInit ==
  /\ canBudget \in CanBudgets
  /\ mayWakeup \in BOOLEAN
  /\ ctl = "closed"
  /\ work = [at |-> "none", again |-> FALSE]
  /\ net = [awake |-> FALSE, at |-> "idle", frame |-> 0, echo |-> 0]
  /\ state = "stopped"
  /\ hw = [chip |-> "disabled", mb |-> 0, iflag |-> FALSE, imask |-> FALSE,
           errMsk |-> FALSE, stateMsk |-> FALSE, level |-> "active", flags |-> {}]
  /\ rx = [mb |-> [i \in Mailboxes |-> 0], flag |-> [i \in Mailboxes |-> FALSE],
           lock |-> -1, smb |-> 0]
  /\ irqOn = FALSE
  /\ irq = [at |-> "idle", last |-> "stopped", level |-> "active", pend |-> {}, frame |-> 0,
            got |-> FALSE, batch |-> {}]
  /\ hist = [frames |-> 0, sent |-> <<>>, echoed |-> <<>>, received |-> 0, up |-> <<>>,
             lost |-> {},
             caught |-> FALSE, torn |-> FALSE, disarmed |-> FALSE, failed |-> FALSE]

CanSpend(kind) == canBudget[kind] > 0 /\ canBudget' = [canBudget EXCEPT ![kind] = @ - 1]

-----------------------------------------------------------------------------
(* Starting and stopping the chip                                          *)

\* What is in the mailboxes is gone.  Nothing keeps the handler out: it may be between the
\* read of a mailbox and the clearing of its flag, which is that of another frame then.
RxReset ==
  /\ rx' = [rx EXCEPT !.mb = [i \in Mailboxes |-> 0], !.flag = [i \in Mailboxes |-> FALSE],
                      !.lock = -1, !.smb = 0]
  /\ hist' = [hist EXCEPT !.lost = @ \cup (({rx.mb[i] : i \in Mailboxes} \cup {rx.smb}) \ {0}),
                          !.torn = @ \/ irq.at = "clear"]

\* flexcan_chip_start up to the freeze: the module is enabled and reset, the error
\* counters with it, and all interrupts are off.
ChipReset ==
  /\ hw' = [hw EXCEPT !.chip = "frozen", !.iflag = FALSE, !.imask = FALSE, !.level = "active",
                      !.flags = {}, !.errMsk = FALSE, !.stateMsk = FALSE]
  /\ RxReset

\* The rest of it: the transmit mailbox is inactive, the chip synchronises with the bus.
ChipRun ==
  /\ hw' = [hw EXCEPT !.chip = "running", !.mb = 0]
  /\ state' = "active"

\* flexcan_chip_interrupts_enable, between disable_irq, which waits for the handler,
\* and enable_irq.  The bus error interrupt is off after it, whatever the handler has
\* seen since the chip was started.
InterruptsEnable ==
  /\ irq.at = "idle"
  /\ hw' = [hw EXCEPT !.imask = TRUE, !.stateMsk = TRUE, !.errMsk = FALSE]
  /\ hist' = [hist EXCEPT !.disarmed = (state = "warning")]

InterruptsDisable == hw' = [hw EXCEPT !.imask = FALSE, !.stateMsk = FALSE, !.errMsk = FALSE]

-----------------------------------------------------------------------------
(* Open and close                                                          *)

Open ==
  /\ ctl = "closed" /\ CanSpend("ctl")
  /\ ctl' = "o.reset"
  /\ UNCHANGED <<mayWakeup, work, net, state, hw, rx, irqOn, irq, hist>>

OpenReset ==
  /\ ctl = "o.reset" /\ ChipReset
  /\ ctl' = "o.run"
  /\ UNCHANGED <<canBudget, mayWakeup, work, net, state, irqOn, irq>>

OpenRun ==
  /\ ctl = "o.run" /\ ChipRun
  /\ ctl' = "o.irq"
  /\ UNCHANGED <<canBudget, mayWakeup, work, net, rx, irqOn, irq, hist>>

OpenIrq ==
  /\ ctl = "o.irq"
  /\ irqOn' = TRUE
  /\ ctl' = "o.enable"
  /\ UNCHANGED <<canBudget, mayWakeup, work, net, state, hw, rx, irq, hist>>

OpenEnable ==
  /\ ctl = "o.enable" /\ InterruptsEnable
  /\ net' = [net EXCEPT !.awake = TRUE]
  /\ ctl' = "open"
  /\ UNCHANGED <<canBudget, mayWakeup, work, state, rx, irqOn, irq>>

\* An acknowledge that does not come, or request_irq that fails: everything is undone.
OpenFails ==
  /\ ctl \in {"o.reset", "o.run", "o.irq"} /\ CanSpend("ack")
  /\ hw' = [hw EXCEPT !.chip = "disabled"]
  /\ state' = IF ctl = "o.irq" THEN "stopped" ELSE state
  /\ ctl' = "closed"
  /\ UNCHANGED <<mayWakeup, work, net, rx, irqOn, irq, hist>>

\* The stack has waited for start_xmit before it calls ndo_stop.
Close ==
  /\ ctl = "open" /\ net.at = "idle" /\ CanSpend("ctl")
  /\ net' = [net EXCEPT !.awake = FALSE]
  /\ InterruptsDisable
  /\ ctl' = "c.irq"
  /\ UNCHANGED <<mayWakeup, work, state, rx, irqOn, irq, hist>>

\* Mutant: the handler may still be running.
CloseFreeIrqNow ==
  /\ ctl = "c.irq"
  /\ irqOn' = FALSE
  /\ ctl' = "c.stop"
  /\ UNCHANGED <<canBudget, mayWakeup, work, net, state, hw, rx, irq, hist>>

\* free_irq waits for the handler.
CloseFreeIrq ==
  /\ ctl = "c.irq" /\ irq.at = "idle"
  /\ irqOn' = FALSE
  /\ ctl' = "c.stop"
  /\ UNCHANGED <<canBudget, mayWakeup, work, net, state, hw, rx, irq, hist>>

CloseStop ==
  /\ ctl = "c.stop"
  /\ hw' = [hw EXCEPT !.chip = "disabled"]
  /\ state' = "stopped"
  /\ ctl' = "c.candev"
  /\ UNCHANGED <<canBudget, mayWakeup, work, net, rx, irqOn, irq, hist>>

\* close_candev cancels the restart, waiting for it when it runs, and drops the echo.
CloseCandev ==
  /\ ctl = "c.candev" /\ work.at \in {"none", "pending"}
  /\ work' = [work EXCEPT !.at = "none"]
  /\ net' = [net EXCEPT !.echo = 0]
  /\ ctl' = "closed"
  /\ UNCHANGED <<canBudget, mayWakeup, state, hw, rx, irqOn, irq, hist>>

-----------------------------------------------------------------------------
(* Transmission: flexcan_start_xmit                                        *)

\* A frame is on its way from start_xmit to its echo.
InFlight == net.at # "idle" \/ net.echo # 0 \/ hw.mb # 0 \/ hw.iflag

\* netif_running, and not being closed: the stack hands over frames only then.
Sending == ctl \in {"open", "s.mask", "s.detach", "s.noirq", "asleep", "r.attach", "r.start",
                    "r.run", "r.enable"}

\* The queue is stopped first.  A frame that is handed over while the chip does not run
\* is caught by the reset that follows.
StartXmit ==
  /\ Sending /\ net.awake /\ net.at = "idle" /\ CanSpend("tx")
  /\ net' = [net EXCEPT !.awake = FALSE, !.at = "echo", !.frame = hist.frames + 1]
  /\ hist' = [hist EXCEPT !.frames = @ + 1, !.caught = @ \/ hw.chip # "running"]
  /\ UNCHANGED <<mayWakeup, ctl, work, state, hw, rx, irqOn, irq>>

\* can_put_echo_skb: an occupied slot keeps what it has.
XmitEcho ==
  /\ net.at = "echo"
  /\ net' = [net EXCEPT !.at = "write", !.echo = IF @ = 0 THEN net.frame ELSE @]
  /\ UNCHANGED <<canBudget, mayWakeup, ctl, work, state, hw, rx, irqOn, irq, hist>>

\* The control word starts the mailbox.
XmitWrite ==
  /\ net.at = "write"
  /\ net' = [net EXCEPT !.at = "idle"]
  /\ hw' = [hw EXCEPT !.mb = net.frame]
  /\ UNCHANGED <<canBudget, mayWakeup, ctl, work, state, rx, irqOn, irq, hist>>

-----------------------------------------------------------------------------
(* The chip and the bus                                                    *)

\* The chip asserts its interrupt.
Line ==
  \/ hw.imask /\ (hw.iflag \/ \E i \in Mailboxes : rx.flag[i])
  \/ hw.stateMsk /\ hw.flags \cap {"warning", "busoff"} # {}
  \/ hw.errMsk /\ "error" \in hw.flags

OnBus == hw.chip = "running" /\ hw.level # "busoff"

Transmit ==
  /\ OnBus /\ hw.mb # 0
  /\ hw' = [hw EXCEPT !.mb = 0, !.iflag = TRUE]
  /\ hist' = [hist EXCEPT !.sent = Append(@, hw.mb)]
  /\ UNCHANGED <<canBudget, mayWakeup, ctl, work, net, state, rx, irqOn, irq>>

\* The error counters rise to the next level.  There is a flag for entering warning and
\* bus off, and one for every bus error; only the own frame can lead to a bus off.
ErrorsRise ==
  /\ OnBus /\ CanSpend("err")
  /\ hw.level = "passive" => hw.mb # 0
  /\ LET level == Levels[Rank(hw.level) + 1]
     IN  hw' = [hw EXCEPT !.level = level,
                          !.flags = @ \cup {"error"} \cup ({level} \cap {"warning", "busoff"})]
  /\ UNCHANGED <<mayWakeup, ctl, work, net, state, rx, irqOn, irq, hist>>

\* Frames that go through bring them down again, without a flag.
ErrorsFall ==
  /\ OnBus /\ hw.level # "active" /\ CanSpend("err")
  /\ hw' = [hw EXCEPT !.level = Levels[Rank(hw.level) - 1]]
  /\ UNCHANGED <<mayWakeup, ctl, work, net, state, rx, irqOn, irq, hist>>

\* A frame goes to the first free mailbox; without one it overwrites the last, or waits
\* in the serial buffer while the handler has that locked.
Free == {i \in Mailboxes : rx.mb[i] = 0 /\ rx.lock # i}
Lowest(S) == CHOOSE i \in S : \A j \in S : i <= j
Highest == CHOOSE i \in Mailboxes : \A j \in Mailboxes : j <= i
MoveIn(i, frame) ==
  rx' = [rx EXCEPT !.mb[i] = frame, !.flag[i] = TRUE, !.smb = IF @ = frame THEN 0 ELSE @]

Receive ==
  /\ OnBus /\ CanSpend("rx")
  /\ LET frame == hist.received + 1
         over == IF Free # {} THEN 0 ELSE IF rx.lock = Highest THEN rx.smb ELSE rx.mb[Highest]
     IN  /\ CASE Free # {} -> MoveIn(Lowest(Free), frame)
              [] Free = {} /\ rx.lock # Highest -> MoveIn(Highest, frame)
              [] OTHER -> rx' = [rx EXCEPT !.smb = frame]
         /\ hist' = [hist EXCEPT !.received = frame, !.lost = @ \cup ({over} \ {0})]
  /\ UNCHANGED <<mayWakeup, ctl, work, net, state, hw, irqOn, irq>>

-----------------------------------------------------------------------------
(* flexcan_irq                                                             *)

IrqEnter ==
  /\ irqOn /\ Line /\ irq.at = "idle" /\ ctl # "asleep"
  /\ irq' = [irq EXCEPT !.at = "rx", !.last = state, !.got = TRUE]
  /\ UNCHANGED <<canBudget, mayWakeup, ctl, work, net, state, hw, rx, irqOn, hist>>

\* The loop over the flags, ended when there are none or when nothing was offloaded.
IrqRxFlags ==
  /\ irq.at = "rx"
  /\ LET flags == {i \in Mailboxes : rx.flag[i]}
     IN  irq' = IF flags # {} /\ irq.got
                THEN [irq EXCEPT !.at = "mailbox", !.pend = flags, !.got = FALSE]
                ELSE [irq EXCEPT !.at = "tx"]
  /\ UNCHANGED <<canBudget, mayWakeup, ctl, work, net, state, hw, rx, irqOn, hist>>

\* flexcan_mailbox_read: reading the control word locks the mailbox.  A frame for which
\* there is no memory, or no room in the queue, is dropped.
MailboxRead ==
  /\ irq.at = "mailbox" /\ irq.pend # {}
  /\ LET i == Lowest(irq.pend)
     IN  IF rx.mb[i] = 0
         THEN irq' = [irq EXCEPT !.pend = @ \ {i}] /\ UNCHANGED <<canBudget, rx, hist>>
         ELSE /\ rx' = [rx EXCEPT !.lock = i]
              /\ \/ /\ irq' = [irq EXCEPT !.at = "clear", !.frame = rx.mb[i]]
                    /\ UNCHANGED <<canBudget, hist>>
                 \/ /\ CanSpend("oom")
                    /\ irq' = [irq EXCEPT !.at = "clear", !.frame = 0]
                    /\ hist' = [hist EXCEPT !.lost = @ \cup {rx.mb[i]}]
  /\ UNCHANGED <<mayWakeup, ctl, work, net, state, hw, irqOn>>

\* then its flag is cleared,
MailboxClear ==
  /\ irq.at = "clear"
  /\ rx' = [rx EXCEPT !.flag[Lowest(irq.pend)] = FALSE]
  /\ irq' = [irq EXCEPT !.at = "unlock"]
  /\ UNCHANGED <<canBudget, mayWakeup, ctl, work, net, state, hw, irqOn, hist>>

\* Mutant: the mailbox is unlocked, and its flag cleared after that.
MailboxUnlockClear ==
  /\ irq.at = "unlock"
  /\ rx' = [rx EXCEPT !.lock = -1, !.smb = 0, !.mb[rx.lock] = rx.smb, !.flag[rx.lock] = FALSE]
  /\ irq' = [irq EXCEPT !.at = "mailbox", !.pend = @ \ {Lowest(@)},
                        !.got = @ \/ irq.frame # 0,
                        !.batch = @ \cup ({irq.frame} \ {0}), !.frame = 0]
  /\ UNCHANGED <<canBudget, mayWakeup, ctl, work, net, state, hw, irqOn, hist>>

\* and reading the timer unlocks it: what the serial buffer has for it moves in.
MailboxUnlock ==
  /\ irq.at = "unlock"
  /\ rx' = IF rx.lock = -1 THEN rx
           ELSE [rx EXCEPT !.lock = -1, !.smb = 0, !.mb[rx.lock] = rx.smb,
                           !.flag[rx.lock] = @ \/ rx.smb # 0]
  /\ irq' = [irq EXCEPT !.at = "mailbox", !.pend = @ \ {Lowest(@)},
                        !.got = @ \/ irq.frame # 0,
                        !.batch = @ \cup ({irq.frame} \ {0}), !.frame = 0]
  /\ UNCHANGED <<canBudget, mayWakeup, ctl, work, net, state, hw, irqOn, hist>>

MailboxesDone ==
  /\ irq.at = "mailbox" /\ irq.pend = {}
  /\ irq' = [irq EXCEPT !.at = "rx"]
  /\ UNCHANGED <<canBudget, mayWakeup, ctl, work, net, state, hw, rx, irqOn, hist>>

IrqNoTx ==
  /\ irq.at = "tx" /\ ~hw.iflag
  /\ irq' = [irq EXCEPT !.at = "esr"]
  /\ UNCHANGED <<canBudget, mayWakeup, ctl, work, net, state, hw, rx, irqOn, hist>>

\* Mutant: the queue is woken before the mailbox is inactive again.
IrqEchoWakes ==
  /\ irq.at = "tx" /\ hw.iflag
  /\ net' = [net EXCEPT !.echo = 0, !.awake = TRUE]
  /\ hist' = [hist EXCEPT !.echoed = IF net.echo = 0 THEN @ ELSE Append(@, net.echo)]
  /\ irq' = [irq EXCEPT !.at = "txdone"]
  /\ UNCHANGED <<canBudget, mayWakeup, ctl, work, state, hw, rx, irqOn>>

\* The transmission is complete: the echo goes up,
IrqEcho ==
  /\ irq.at = "tx" /\ hw.iflag
  /\ net' = [net EXCEPT !.echo = 0]
  /\ hist' = [hist EXCEPT !.echoed = IF net.echo = 0 THEN @ ELSE Append(@, net.echo)]
  /\ irq' = [irq EXCEPT !.at = "txdone"]
  /\ UNCHANGED <<canBudget, mayWakeup, ctl, work, state, hw, rx, irqOn>>

\* then the mailbox is inactive, its flag clear, and the queue awake.
IrqTxDone ==
  /\ irq.at = "txdone"
  /\ hw' = [hw EXCEPT !.mb = 0, !.iflag = FALSE]
  /\ net' = [net EXCEPT !.awake = TRUE]
  /\ irq' = [irq EXCEPT !.at = "esr"]
  /\ UNCHANGED <<canBudget, mayWakeup, ctl, work, state, rx, irqOn, hist>>

\* The error and status register is read, and all its sources acknowledged.
IrqEsr ==
  /\ irq.at = "esr"
  /\ irq' = [irq EXCEPT !.at = "state", !.level = hw.level]
  /\ hw' = [hw EXCEPT !.flags = {}]
  /\ UNCHANGED <<canBudget, mayWakeup, ctl, work, net, state, rx, irqOn, hist>>

\* schedule_delayed_work: a work item that runs will run again.
Queued ==
  CASE work.at = "none" -> [work EXCEPT !.at = "pending"]
    [] work.at = "pending" -> work
    [] OTHER -> [work EXCEPT !.again = TRUE]

\* flexcan_irq_state: a new state is taken over, unless there is no memory for the frame
\* that announces it; a bus off schedules the restart (restart_ms is not 0).  One that
\* was read before a restart has reset the chip schedules another, which catches the frames
\* that are sent after the first.
IrqState ==
  /\ irq.at = "state"
  /\ irq' = [irq EXCEPT !.at = "ctrl"]
  /\ \/ /\ irq.level # state
        /\ state' = irq.level
        /\ work' = IF irq.level = "busoff" THEN Queued ELSE work
        /\ hist' = [hist EXCEPT !.caught = @ \/ work'.again]
        /\ UNCHANGED canBudget
     \/ /\ irq.level # state /\ CanSpend("oom")
        /\ hist' = [hist EXCEPT !.failed = TRUE]
        /\ UNCHANGED <<state, work>>
     \/ irq.level = state /\ UNCHANGED <<canBudget, state, work, hist>>
  /\ UNCHANGED <<mayWakeup, ctl, net, hw, rx, irqOn>>

\* A batch in the order of the time stamps.
InOrder(frames) ==
  CHOOSE s \in [1 .. Cardinality(frames) -> frames] :
    ToSet(s) = frames /\ \A i, j \in DOMAIN s : i < j => s[i] < s[j]

\* Mutant: the error interrupt is only enabled when the chip is passive already.
IrqCtrlLate ==
  /\ irq.at = "ctrl"
  /\ hw' = IF irq.last = state THEN hw
           ELSE [hw EXCEPT !.stateMsk = TRUE, !.errMsk = (state = "passive")]
  /\ rx' = rx
  /\ irq' = [irq EXCEPT !.at = "idle", !.batch = {}]
  /\ hist' = [hist EXCEPT !.up = @ \o InOrder(irq.batch),
                          !.disarmed = @ /\ irq.last = state]
  /\ UNCHANGED <<canBudget, mayWakeup, ctl, work, net, state, irqOn>>

\* QUIRK_BROKEN_PERR_STATE: the chip does not announce that it is passive, so the bus
\* error interrupt is on while it may become so.  Then the frames go up, sorted by time.
IrqCtrl ==
  /\ irq.at = "ctrl"
  /\ hw' = IF irq.last = state \/ state \in {"stopped", "sleeping"} THEN hw
           ELSE [hw EXCEPT !.stateMsk = TRUE, !.errMsk = (state = "warning")]
  /\ irq' = [irq EXCEPT !.at = "idle", !.batch = {}]
  /\ hist' = [hist EXCEPT !.up = @ \o InOrder(irq.batch),
                          !.disarmed = @ /\ (irq.last = state
                                               \/ state \in {"stopped", "sleeping"})]
  /\ UNCHANGED <<canBudget, mayWakeup, ctl, work, net, state, rx, irqOn>>

-----------------------------------------------------------------------------
(* The restart after a bus off: can_restart of the CAN core calls          *)
(* flexcan_set_mode                                                        *)

\* The work item has run, and runs again if it was queued meanwhile.
WorkEnds == work' = [at |-> IF work.again THEN "pending" ELSE "none", again |-> FALSE]

RestartFlush ==
  /\ work.at = "pending"
  /\ work' = [work EXCEPT !.at = "reset"]
  /\ net' = [net EXCEPT !.echo = 0]
  /\ UNCHANGED <<canBudget, mayWakeup, ctl, state, hw, rx, irqOn, irq, hist>>

RestartReset ==
  /\ work.at = "reset" /\ ChipReset
  /\ work' = [work EXCEPT !.at = "run"]
  /\ UNCHANGED <<canBudget, mayWakeup, ctl, net, state, irqOn, irq>>

RestartRun ==
  /\ work.at = "run" /\ ChipRun
  /\ work' = [work EXCEPT !.at = "enable"]
  /\ UNCHANGED <<canBudget, mayWakeup, ctl, net, rx, irqOn, irq, hist>>

\* Mutant: the queue is left as it is.
RestartEnableOnly ==
  /\ work.at = "enable" /\ InterruptsEnable
  /\ WorkEnds
  /\ UNCHANGED <<canBudget, mayWakeup, ctl, net, state, rx, irqOn, irq>>

RestartEnable ==
  /\ work.at = "enable" /\ InterruptsEnable
  /\ net' = [net EXCEPT !.awake = TRUE]
  /\ WorkEnds
  /\ UNCHANGED <<canBudget, mayWakeup, ctl, state, rx, irqOn, irq>>

\* Nothing tries again.
RestartFails ==
  /\ work.at \in {"reset", "run"} /\ CanSpend("ack")
  /\ hw' = [hw EXCEPT !.chip = "disabled"]
  /\ WorkEnds
  /\ hist' = [hist EXCEPT !.failed = TRUE]
  /\ UNCHANGED <<mayWakeup, ctl, net, state, rx, irqOn, irq>>

-----------------------------------------------------------------------------
(* Suspend and resume, of an interface that is open                        *)

\* The chip is stopped, or enters stop mode when it may wake the system up.
SuspendChip ==
  /\ ctl = "open" /\ CanSpend("ctl")
  /\ hw' = [hw EXCEPT !.chip = IF mayWakeup THEN "stop" ELSE "disabled"]
  /\ state' = IF mayWakeup THEN state ELSE "stopped"
  /\ ctl' = IF mayWakeup THEN "s.detach" ELSE "s.mask"
  /\ hist' = [hist EXCEPT !.caught = @ \/ InFlight \/ work.at # "none"
                                      \/ (mayWakeup /\ hw.level # "active")]
  /\ UNCHANGED <<mayWakeup, work, net, rx, irqOn, irq>>

\* An acknowledge that does not come in time, and suspend gives up; what was asked of the
\* chip stays asked: to freeze, to be disabled (only HALT is taken back), or to stop.
SuspendFails ==
  /\ ctl = "open" /\ CanSpend("ack")
  /\ \E chip \in IF mayWakeup THEN {"stop"} ELSE {"frozen", "disabled"} :
       hw' = [hw EXCEPT !.chip = chip]
  /\ hist' = [hist EXCEPT !.failed = TRUE]
  /\ UNCHANGED <<mayWakeup, ctl, work, net, state, rx, irqOn, irq>>

SuspendMask ==
  /\ ctl = "s.mask" /\ InterruptsDisable
  /\ ctl' = "s.detach"
  /\ UNCHANGED <<canBudget, mayWakeup, work, net, state, rx, irqOn, irq, hist>>

\* The pins have no sleep state: the chip is stopped, but the queue is not.
SuspendPinsFail ==
  /\ ctl = "s.detach" /\ ~mayWakeup /\ CanSpend("ack")
  /\ ctl' = "open"
  /\ hist' = [hist EXCEPT !.failed = TRUE]
  /\ UNCHANGED <<mayWakeup, work, net, state, hw, rx, irqOn, irq>>

SuspendDetach ==
  /\ ctl = "s.detach"
  /\ net' = [net EXCEPT !.awake = FALSE]
  /\ state' = "sleeping"
  /\ ctl' = "s.noirq"
  /\ UNCHANGED <<canBudget, mayWakeup, work, hw, rx, irqOn, irq, hist>>

\* No handler runs any more.
SuspendNoirq ==
  /\ ctl = "s.noirq" /\ irq.at = "idle"
  /\ ctl' = "asleep"
  /\ UNCHANGED <<canBudget, mayWakeup, work, net, state, hw, rx, irqOn, irq, hist>>

ResumeNoirq ==
  /\ ctl = "asleep"
  /\ ctl' = "r.attach"
  /\ UNCHANGED <<canBudget, mayWakeup, work, net, state, hw, rx, irqOn, irq, hist>>

\* The queue is started before the chip.
ResumeAttach ==
  /\ ctl = "r.attach"
  /\ state' = "active"
  /\ net' = [net EXCEPT !.awake = TRUE]
  /\ ctl' = "r.start"
  /\ UNCHANGED <<canBudget, mayWakeup, work, hw, rx, irqOn, irq, hist>>

ResumeChip ==
  /\ ctl = "r.start"
  /\ IF mayWakeup
     THEN /\ hw' = [hw EXCEPT !.chip = IF @ = "stop" THEN "running" ELSE @]
          /\ ctl' = "open"
          /\ UNCHANGED <<rx, hist>>
     ELSE ChipReset /\ ctl' = "r.run"
  /\ UNCHANGED <<canBudget, mayWakeup, work, net, state, irqOn, irq>>

ResumeRun ==
  /\ ctl = "r.run" /\ ChipRun
  /\ ctl' = "r.enable"
  /\ UNCHANGED <<canBudget, mayWakeup, work, net, rx, irqOn, irq, hist>>

ResumeEnable ==
  /\ ctl = "r.enable" /\ InterruptsEnable
  /\ ctl' = "open"
  /\ UNCHANGED <<canBudget, mayWakeup, work, net, state, rx, irqOn, irq>>

\* The default state of the pins, or an acknowledge.
ResumeFails ==
  /\ ctl \in {"r.start", "r.run"} /\ CanSpend("ack")
  /\ hw' = [hw EXCEPT !.chip = IF mayWakeup THEN "stop" ELSE "disabled"]
  /\ hist' = [hist EXCEPT !.failed = TRUE]
  /\ ctl' = "open"
  /\ UNCHANGED <<mayWakeup, work, net, state, rx, irqOn, irq>>

-----------------------------------------------------------------------------

Opening == Open \/ OpenReset \/ OpenRun \/ OpenIrq \/ OpenEnable \/ OpenFails
Closing == Close \/ CloseFreeIrq \/ CloseStop \/ CloseCandev
Xmit == XmitEcho \/ XmitWrite
Bus == ErrorsRise \/ ErrorsFall \/ Receive
Irq ==
  \/ IrqEnter \/ IrqRxFlags \/ MailboxRead \/ MailboxClear \/ MailboxUnlock \/ MailboxesDone
  \/ IrqNoTx \/ IrqEcho \/ IrqTxDone \/ IrqEsr \/ IrqState \/ IrqCtrl
Restart == RestartFlush \/ RestartReset \/ RestartRun \/ RestartEnable
Suspending ==
  \/ SuspendChip \/ SuspendFails \/ SuspendMask \/ SuspendPinsFail
  \/ SuspendDetach \/ SuspendNoirq
Resuming == ResumeNoirq \/ ResumeAttach \/ ResumeChip \/ ResumeRun \/ ResumeEnable \/ ResumeFails

CanNext ==
  \/ Opening \/ Closing \/ StartXmit \/ Xmit \/ Transmit \/ Bus \/ Irq
  \/ Restart \/ RestartFails \/ Suspending \/ Resuming

\* Threads run, interrupts are served, work items are executed, and the bus takes a frame
\* or raises the error counters; nobody has to open, close, suspend or send.
CanFairness ==
  WF_canVars(Xmit) /\ WF_canVars(Transmit) /\ WF_canVars(Irq) /\ WF_canVars(Restart)

CanSpec == CanInit /\ [][CanNext]_canVars /\ CanFairness

-----------------------------------------------------------------------------

Frames == 0..hist.frames
Received == 0..hist.received

\* The types.  The handler is only about where an interrupt has been requested.
CanTypeOK ==
  /\ canBudget \in [CanKinds -> Nat] /\ mayWakeup \in BOOLEAN
  /\ ctl \in {"closed", "o.reset", "o.run", "o.irq", "o.enable", "open", "c.irq", "c.stop",
              "c.candev", "s.mask", "s.detach", "s.noirq", "asleep", "r.attach", "r.start",
              "r.run", "r.enable"}
  /\ work \in [at : {"none", "pending", "reset", "run", "enable"}, again : BOOLEAN]
  /\ net \in [awake : BOOLEAN, at : {"idle", "echo", "write"}, frame : Frames, echo : Frames]
  /\ state \in States
  /\ hw \in [chip : {"disabled", "frozen", "running", "stop"}, mb : Frames,
             iflag : BOOLEAN, imask : BOOLEAN, errMsk : BOOLEAN, stateMsk : BOOLEAN,
             level : Range(Levels), flags : SUBSET {"error", "warning", "busoff"}]
  /\ rx \in [mb : [Mailboxes -> Received], flag : [Mailboxes -> BOOLEAN],
             lock : Mailboxes \cup {-1}, smb : Received]
  /\ irqOn \in BOOLEAN
  /\ irq \in [at : {"idle", "rx", "mailbox", "clear", "unlock", "tx", "txdone", "esr", "state",
                    "ctrl"},
              last : States, level : Range(Levels), pend : SUBSET Mailboxes,
              frame : Received, got : BOOLEAN, batch : SUBSET Received]
  /\ irq.at # "idle" => irqOn
  /\ hist \in [frames : Nat, sent : Seq(Frames), echoed : Seq(Frames), received : Nat,
               up : Seq(Received), lost : SUBSET Received,
               caught : BOOLEAN, torn : BOOLEAN, disarmed : BOOLEAN, failed : BOOLEAN]

\* The frame whose echo goes up is the one the chip has sent, once and in order, and
\* start_xmit never touches a mailbox that is in use: netif_stop_queue and the handler's
\* netif_wake_queue (flexcan_start_xmit, flexcan_irq) are the only lock there is.  The
\* exceptions are a frame or a restart that a suspend catches, and a restart that is queued
\* again while it runs: it wakes the queue when it goes on, even if the next frame is on
\* its way.
EchoIsOfTheSentFrame ==
  ~hist.caught =>
    /\ \A i, j \in DOMAIN hist.echoed : i < j => hist.echoed[i] < hist.echoed[j]
    /\ \A i \in DOMAIN hist.echoed : Contains(hist.sent, hist.echoed[i])
    /\ irq.at = "txdone" => Last(hist.echoed) = Last(hist.sent)
    /\ net.at # "idle" => hw.mb = 0 /\ ~hw.iflag

\* Frames go up in the order of their reception, none twice, and after every interrupt
\* each frame has gone up, is counted as lost, or waits in a mailbox whose flag is set
\* (flexcan_mailbox_read clears the flag before it unlocks the mailbox), unless the chip was
\* reset under the handler.
RxInOrder ==
  /\ \A i, j \in DOMAIN hist.up : i < j => hist.up[i] < hist.up[j]
  /\ irq.at = "idle" /\ ~hist.torn =>
       \A f \in 1..hist.received :
         \/ Contains(hist.up, f) \/ f \in hist.lost
         \/ \E i \in Mailboxes : rx.mb[i] = f /\ rx.flag[i]

\* The chip cannot become error passive or bus off behind the driver's back: at rest the
\* driver knows the state, or the next bus error interrupts (the comment on the error
\* interrupt in flexcan_irq).  Without memory for the error frame the change is lost, a
\* resume from stop mode forgets what it was, a bus off of before the restart comes after it
\* (caught), and a restart or resume that enables the interrupts when the handler has seen a
\* warning already switches that one off (disarmed).
PassiveCannotHide ==
  /\ ctl = "open" /\ work.at = "none" /\ irq.at = "idle" /\ ~Line
  /\ hw.chip = "running" /\ hw.level \in {"passive", "busoff"}
  /\ ~hist.failed /\ ~hist.caught
  => \/ state = hw.level
     \/ hw.level = "passive" /\ state = "warning" /\ (hw.errMsk \/ hist.disarmed)

\* A stopped queue is woken again, by the interrupt of the frame that stopped it or, after
\* a bus off, by the automatic restart (restart_ms is not 0); unless memory or the chip
\* fails, a suspend comes between, or the restart is queued again while it runs.
TransmitterReturns ==
  (ctl = "open" /\ ~net.awake) ~> (net.awake \/ ctl # "open" \/ hist.caught \/ hist.failed)
=============================================================================
