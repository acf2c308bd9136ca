--------------------------------- MODULE ImxUart ---------------------------------
(***************************************************************************)
(* Transmission of the serial driver (12.serial/imx.c): bytes go from the  *)
(* ring of the tty to the FIFO by interrupt or by DMA, and on an RS-485    *)
(* line the driver takes the line (RTS) before and gives it back after,    *)
(* with a delay each.  Every handler, timer and callback holds port.lock,  *)
(* so each of them is one step on the record u; what is hard is the order  *)
(* in which they come.                                                     *)
(***************************************************************************)
EXTENDS Integers, Sequences, SequencesExt

CONSTANTS
  FifoSize,  \* bound: the transmit FIFO
  RingSize,  \* bound: UART_XMIT_SIZE
  Confs,     \* configurations of the port
  Budgets    \* bounds: how many events of each kind the environment may have

ConfFields == {"rs485", "dma", "before", "after", "rxDuringTx"}
BudgetKinds == {"write", "xchar", "flow", "flush", "termios", "fail", "ops"}

ASSUME ImxUartAssumption ==
  /\ FifoSize \in Nat \ {0} /\ RingSize \in Nat \ {0}
  /\ Confs \subseteq [ConfFields -> BOOLEAN]
  /\ Budgets \subseteq [BudgetKinds -> Nat]

VARIABLES
  conf,     \* rs485.flags and delays, and whether there are DMA channels
  budget,   \* what the environment may still do
  port,     \* "open", "closed" or where shutdown is
  asleep,   \* the port is closed by a suspend
  u,        \* struct imx_port, its registers and the tty's ring
  wire,     \* the bytes that have left
  written,  \* bytes the tty has handed over so far
  dropped,  \* bytes that were flushed or left behind by a close
  mishaps   \* what has happened that this driver does not recover from

vars == <<conf, budget, port, asleep, u, wire, written, dropped, mishaps>>

TxStates == {"off", "waitAfterRts", "send", "waitAfterSend"}
XCHAR == 0  \* the flow control character; bytes are 1, 2, ...

Init ==
  /\ conf \in Confs /\ budget \in Budgets
  /\ port = "closed" /\ asleep = FALSE
  /\ u = [ring |-> <<>>, fifo |-> <<>>, xchar |-> FALSE, stopped |-> FALSE, tx |-> "off",
          rts |-> FALSE, rxEn |-> FALSE, trdyEn |-> FALSE, tcEn |-> FALSE, txDmaEn |-> FALSE,
          dmaOn |-> FALSE, txing |-> FALSE, txBytes |-> 0, dma |-> <<>>, cb |-> FALSE,
          startTimer |-> {}, stopTimer |-> {}]
  /\ wire = <<>> /\ written = 0 /\ dropped = {} /\ mishaps = {}

Spend(kind) == budget[kind] > 0 /\ budget' = [budget EXCEPT ![kind] = @ - 1]

\* A mapping or a descriptor for the DMA may not be available.
DmaOutcomes == IF budget["fail"] > 0 THEN BOOLEAN ELSE {TRUE}
DmaOutcome(ok) == IF ok THEN UNCHANGED <<budget, mishaps>>
                  ELSE Spend("fail") /\ mishaps' = mishaps \cup {"dma"}

-----------------------------------------------------------------------------
(* The functions that are called with port.lock held                       *)

\* imx_uart_rts_active/inactive, imx_uart_stop_rx/start_rx.  A timer is the set of what
\* it is: armed, and running while its callback waits for the lock.
TakeLine(v) == [v EXCEPT !.rts = TRUE, !.rxEn = conf.rxDuringTx /\ @]
GiveBack(v) == [v EXCEPT !.rts = FALSE, !.rxEn = TRUE, !.tx = "off"]
Arm(timer) == timer \cup {"armed"}
TryToCancel(timer) == timer \ {"armed"}

\* Mutant: the line is given back as soon as there is nothing to send.
StopTxEarly(v) ==
  IF v.tx = "off" \/ v.txing THEN v
  ELSE LET w == [v EXCEPT !.trdyEn = FALSE, !.tcEn = FALSE]
       IN  IF ~conf.rs485 THEN [w EXCEPT !.tx = "off"] ELSE GiveBack(w)

\* Mutant: the transmission complete interrupt is disabled while the shifter is busy.
StopTxForgets(v) ==
  IF v.tx = "off" \/ v.txing THEN v
  ELSE IF v.fifo # <<>> THEN [v EXCEPT !.trdyEn = FALSE, !.tcEn = FALSE]
  ELSE LET w == [v EXCEPT !.trdyEn = FALSE, !.tcEn = FALSE]
       IN  IF ~conf.rs485 THEN [w EXCEPT !.tx = "off"] ELSE GiveBack(w)

\* imx_uart_stop_tx: not while a DMA runs or the shifter is busy.
StopTx(v) ==
  IF v.tx = "off" \/ v.txing THEN v
  ELSE IF v.fifo # <<>> THEN [v EXCEPT !.trdyEn = FALSE]
  ELSE LET w == [v EXCEPT !.trdyEn = FALSE, !.tcEn = FALSE]
       IN  CASE ~conf.rs485 -> [w EXCEPT !.tx = "off"]
             [] conf.rs485 /\ w.tx = "send" /\ conf.after ->
                  [w EXCEPT !.tx = "waitAfterSend", !.stopTimer = Arm(@)]
             [] OTHER -> GiveBack([w EXCEPT !.startTimer = TryToCancel(@)])

\* imx_uart_dma_tx: all that is in the ring.  On failure it stays there.
DmaTx(v, ok) ==
  IF v.txing THEN v
  ELSE IF ok THEN [v EXCEPT !.tcEn = FALSE, !.txBytes = Len(v.ring), !.txDmaEn = TRUE,
                            !.txing = TRUE, !.dma = @ \o v.ring]
  ELSE [v EXCEPT !.tcEn = FALSE, !.txBytes = Len(v.ring)]

HasData(v) == v.ring # <<>> /\ ~v.stopped

\* The end of imx_uart_start_tx: the interrupt or the DMA is set going.
Go(v, ok) ==
  CASE ~v.dmaOn -> [v EXCEPT !.trdyEn = TRUE]
    [] v.dmaOn /\ v.xchar -> [v EXCEPT !.txDmaEn = FALSE, !.trdyEn = TRUE]
    [] v.dmaOn /\ ~v.xchar /\ HasData(v) -> DmaTx(v, ok)
    [] OTHER -> v

\* imx_uart_start_tx: the line is taken first, and its delay waited for.
StartTx(v, ok) ==
  IF ~v.xchar /\ v.ring = <<>> THEN v
  ELSE IF ~conf.rs485 THEN Go([v EXCEPT !.tx = "send"], ok)
  ELSE IF v.tx = "off" /\ conf.before
       THEN [TakeLine(v) EXCEPT !.tx = "waitAfterRts", !.startTimer = Arm(@)]
  ELSE IF v.tx = "send" THEN Go(v, ok)
  ELSE Go([(IF v.tx = "off" THEN TakeLine(v) ELSE v)
           EXCEPT !.tx = "send", !.stopTimer = TryToCancel(@), !.tcEn = @ \/ ~v.dmaOn], ok)

\* imx_uart_transmit_buffer.
Fill(v) ==
  LET n == IF Len(v.ring) < FifoSize - Len(v.fifo) THEN Len(v.ring)
           ELSE FifoSize - Len(v.fifo)
  IN  [v EXCEPT !.fifo = @ \o SubSeq(v.ring, 1, n), !.ring = SubSeq(@, n + 1, Len(@))]

TransmitBuffer(v, ok) ==
  CASE v.xchar -> [v EXCEPT !.fifo = Append(@, XCHAR), !.xchar = FALSE]
    [] ~v.xchar /\ ~HasData(v) -> StopTx(v)
    [] ~v.xchar /\ HasData(v) /\ v.dmaOn ->
         IF v.txing THEN [v EXCEPT !.trdyEn = FALSE, !.txDmaEn = TRUE]
         ELSE DmaTx([v EXCEPT !.trdyEn = FALSE], ok)
    [] OTHER -> IF Fill(v).ring = <<>> THEN StopTx(Fill(v)) ELSE Fill(v)

-----------------------------------------------------------------------------
(* Interrupts, timers, DMA                                                 *)

Running == port # "closed"  \* the clocks are on and the transmitter is enabled

\* imx_uart_int and imx_uart_txint: only sources that are enabled count.
TxInt ==
  /\ Running
  /\ \/ u.trdyEn /\ Len(u.fifo) < FifoSize
     \/ u.tcEn /\ u.fifo = <<>>
  /\ \E ok \in DmaOutcomes : u' = TransmitBuffer(u, ok) /\ DmaOutcome(ok)
  /\ UNCHANGED <<conf, port, asleep, wire, written, dropped>>

Shift ==
  /\ Running /\ u.fifo # <<>>
  /\ u' = [u EXCEPT !.fifo = Tail(@)]
  /\ wire' = IF Head(u.fifo) = XCHAR THEN wire ELSE Append(wire, Head(u.fifo))
  /\ UNCHANGED <<conf, budget, port, asleep, written, dropped, mishaps>>

DmaMove ==
  /\ Running /\ u.dma # <<>> /\ u.txDmaEn /\ Len(u.fifo) < FifoSize
  /\ u' = [u EXCEPT !.fifo = Append(@, Head(u.dma)), !.dma = Tail(@), !.cb = @ \/ Len(u.dma) = 1]
  /\ UNCHANGED <<conf, budget, port, asleep, wire, written, dropped, mishaps>>

\* The ring is advanced by what the transfer was started with.
Advance(v) == [v EXCEPT !.cb = FALSE, !.txDmaEn = FALSE, !.txing = FALSE,
                        !.ring = SubSeq(@, v.txBytes + 1, Len(@))]

\* Mutant: the ring is not advanced.
DmaTxCallbackAgain ==
  /\ u.cb
  /\ u' = [u EXCEPT !.cb = FALSE, !.txDmaEn = FALSE, !.txing = FALSE, !.tcEn = TRUE]
  /\ UNCHANGED <<conf, budget, port, asleep, wire, written, dropped, mishaps>>

\* imx_uart_dma_tx_callback: the next transfer, or the end of this transmission.
DmaTxCallback ==
  /\ u.cb
  /\ LET v == Advance(u)
     IN  \E ok \in IF HasData(v) THEN DmaOutcomes ELSE {TRUE} :
           /\ u' = IF HasData(v) THEN DmaTx(v, ok) ELSE [v EXCEPT !.tcEn = @ \/ conf.rs485]
           /\ DmaOutcome(ok)
  /\ UNCHANGED <<conf, port, asleep, wire, written, dropped>>

StartTimerFires ==
  /\ "armed" \in u.startTimer /\ "running" \notin u.startTimer
  /\ u' = [u EXCEPT !.startTimer = {"running"}]
  /\ UNCHANGED <<conf, budget, port, asleep, wire, written, dropped, mishaps>>

\* Both callbacks look at tx_state again once they have the lock.
TriggerStartTx ==
  /\ "running" \in u.startTimer
  /\ LET v == [u EXCEPT !.startTimer = @ \ {"running"}]
     IN  \E ok \in DmaOutcomes :
           /\ u' = IF v.tx = "waitAfterRts" THEN StartTx(v, ok) ELSE v
           /\ DmaOutcome(ok)
  /\ UNCHANGED <<conf, port, asleep, wire, written, dropped>>

StopTimerFires ==
  /\ "armed" \in u.stopTimer /\ "running" \notin u.stopTimer
  /\ u' = [u EXCEPT !.stopTimer = {"running"}]
  /\ UNCHANGED <<conf, budget, port, asleep, wire, written, dropped, mishaps>>

\* Mutant: the callback does not look at tx_state.
TriggerStopTxBlindly ==
  /\ "running" \in u.stopTimer
  /\ u' = GiveBack([u EXCEPT !.stopTimer = @ \ {"running"}])
  /\ UNCHANGED <<conf, budget, port, asleep, wire, written, dropped, mishaps>>

TriggerStopTx ==
  /\ "running" \in u.stopTimer
  /\ LET v == [u EXCEPT !.stopTimer = @ \ {"running"}]
     IN  u' = IF v.tx = "waitAfterSend" THEN StopTx(v) ELSE v
  /\ UNCHANGED <<conf, budget, port, asleep, wire, written, dropped, mishaps>>

-----------------------------------------------------------------------------
(* What the tty asks for, with port.lock held                              *)

Awake == port = "open" /\ ~asleep

\* uart_write of one byte.
Write ==
  /\ Awake /\ budget["write"] > 0 /\ Len(u.ring) < RingSize
  /\ written' = written + 1
  /\ LET v == [u EXCEPT !.ring = Append(@, written + 1)]
     IN  \E ok \in BOOLEAN :
           /\ ok \/ (u.dmaOn /\ ~u.stopped /\ budget["fail"] > 0)
           /\ u' = IF u.stopped THEN v ELSE StartTx(v, ok)
           /\ budget' = [budget EXCEPT !["write"] = @ - 1, !["fail"] = IF ok THEN @ ELSE @ - 1]
           /\ mishaps' = IF ok THEN mishaps ELSE mishaps \cup {"dma"}
  /\ UNCHANGED <<conf, port, asleep, wire, dropped>>

\* uart_send_xchar: also when transmission is stopped.  With DMA on, nothing enables
\* the transmission complete interrupt after it, and a transfer that was held up for it
\* goes on only when the tty is not stopped.
SendXchar ==
  /\ Awake /\ Spend("xchar")
  /\ u' = StartTx([u EXCEPT !.xchar = TRUE], TRUE)
  /\ mishaps' = IF conf.dma THEN mishaps \cup {"xchar"} ELSE mishaps
  /\ UNCHANGED <<conf, port, asleep, wire, written, dropped>>

\* imx_uart_rtsint, imx_uart_mctrl_check or the user: transmission is stopped.
FlowStop ==
  /\ Awake /\ ~u.stopped /\ Spend("flow")
  /\ u' = StopTx([u EXCEPT !.stopped = TRUE])
  /\ UNCHANGED <<conf, port, asleep, wire, written, dropped, mishaps>>

FlowStart ==
  /\ Awake /\ u.stopped
  /\ \E ok \in IF u.dmaOn THEN DmaOutcomes ELSE {TRUE} :
       u' = StartTx([u EXCEPT !.stopped = FALSE], ok) /\ DmaOutcome(ok)
  /\ UNCHANGED <<conf, port, asleep, wire, written, dropped>>

BytesOf(s) == ToSet(s) \ {XCHAR}

\* imx_uart_flush_buffer, the core has just cleared the ring: the FIFO is reset only when
\* there is a DMA, whose callback may already be waiting for the lock.  The line stays
\* taken if the end of what was flushed was to give it back.
FlushBuffer ==
  /\ Awake /\ Spend("flush")
  /\ \E late \in {FALSE, u.cb} :
       LET v == [u EXCEPT !.ring = <<>>]
           w == [v EXCEPT !.fifo = <<>>, !.dma = <<>>, !.cb = late, !.txBytes = 0,
                          !.txing = FALSE, !.txDmaEn = @ /\ ~u.txing]
       IN  /\ u' = IF u.dmaOn THEN w ELSE v
           /\ mishaps' = mishaps \cup (IF late THEN {"late"} ELSE {})
                \cup (IF conf.rs485 /\ (u.tx = "waitAfterRts" \/ (u.dmaOn /\ u.tx = "send" /\ ~u.tcEn))
                      THEN {"flush"} ELSE {})
  /\ dropped' = dropped \cup (IF u.dmaOn THEN BytesOf(u.fifo) \cup BytesOf(u.dma) ELSE {})
                \cup ToSet(SubSeq(u.ring, (IF u.txing THEN u.txBytes ELSE 0) + 1, Len(u.ring)))
  /\ UNCHANGED <<conf, port, asleep, wire, written>>

\* imx_uart_set_termios and imx_uart_rs485_config: RTS gets the level it has after
\* sending, whatever tx_state is.
RtsIdle(v) == IF conf.rs485 THEN [v EXCEPT !.rts = FALSE] ELSE v

SetTermios ==
  /\ Awake /\ Spend("termios")
  /\ \E rs485 \in {FALSE, conf.rs485} :
       u' = [RtsIdle(u) EXCEPT !.rxEn = @ \/ (rs485 /\ conf.rxDuringTx)]
  /\ mishaps' = IF conf.rs485 /\ u.tx # "off" THEN mishaps \cup {"termios"} ELSE mishaps
  /\ UNCHANGED <<conf, port, asleep, wire, written, dropped>>

-----------------------------------------------------------------------------
(* Opening, closing, suspend and resume.  What the noirq handlers save and *)
(* restore are the registers of a port that is shut down.                  *)

\* imx_uart_startup: without channels the port works by interrupt.  When the reset or a
\* clock fails it returns before it has changed anything.
Started(v, dmaInited) == [v EXCEPT !.fifo = <<>>, !.rxEn = TRUE, !.dmaOn = dmaInited]

Startup ==
  /\ port = "closed" /\ ~asleep /\ port' = "open"
  /\ \E dmaInited \in {FALSE, conf.dma} : u' = RtsIdle(Started(u, dmaInited))
  /\ dropped' = dropped \cup BytesOf(u.fifo)
  /\ UNCHANGED <<conf, budget, asleep, wire, written, mishaps>>

\* imx_uart_resume, imx_uart_thaw: what is in the ring is sent.  When the tty is stopped
\* the line is taken all the same, and held.
Resume ==
  /\ port = "closed" /\ asleep /\ port' = "open" /\ asleep' = FALSE
  /\ \E dmaInited \in {FALSE, conf.dma} :
       /\ u' = StartTx(RtsIdle(Started(u, dmaInited)), TRUE)
       /\ mishaps' = IF conf.rs485 /\ dmaInited /\ u.stopped /\ u.ring # <<>>
                     THEN mishaps \cup {"held"} ELSE mishaps
  /\ dropped' = dropped \cup BytesOf(u.fifo)
  /\ UNCHANGED <<conf, budget, wire, written>>

\* A startup that fails in a resume: the core gives the port up, and the ring with it.
ReopenFails ==
  /\ port = "closed" /\ asleep /\ asleep' = FALSE /\ Spend("fail")
  /\ u' = [u EXCEPT !.ring = <<>>]
  /\ dropped' = dropped \cup ToSet(u.ring)
  /\ mishaps' = IF u.xchar THEN mishaps \cup {"cut"} ELSE mishaps
  /\ UNCHANGED <<conf, port, wire, written>>

\* imx_uart_suspend, imx_uart_freeze: what is in the FIFO may or may not leave in time.
Suspend ==
  /\ Awake /\ Spend("ops") /\ asleep' = TRUE
  /\ u' = [StopTx(u) EXCEPT !.rxEn = FALSE]
  /\ UNCHANGED <<conf, port, wire, written, dropped, mishaps>>

\* imx_uart_shutdown begins when the port is closed, or suspended.
Leaving == port = "open" /\ (IF asleep THEN UNCHANGED budget ELSE Spend("ops"))

ShutdownTerminate ==
  /\ u.dmaOn /\ Leaving /\ port' = "terminated"
  /\ u' = [u EXCEPT !.dma = <<>>, !.cb = FALSE, !.txing = FALSE]
  /\ mishaps' = IF u.txing THEN mishaps \cup {"cut"} ELSE mishaps
  /\ UNCHANGED <<conf, asleep, wire, written, dropped>>

\* A timer or an interrupt may have started another transfer, which stop_tx leaves alone.
ShutdownStop ==
  /\ port = "terminated" /\ port' = "stopped"
  /\ u' = [StopTx(u) EXCEPT !.rxEn = FALSE, !.txDmaEn = FALSE, !.dmaOn = FALSE]
  /\ UNCHANGED <<conf, budget, asleep, wire, written, dropped, mishaps>>

ShutdownDisable ==
  /\ IF port = "stopped" THEN UNCHANGED budget ELSE ~u.dmaOn /\ Leaving
  /\ port' = "disabled"
  /\ u' = [u EXCEPT !.dma = <<>>, !.cb = FALSE]
  /\ mishaps' = IF u.txing THEN mishaps \cup {"cut"} ELSE mishaps
  /\ UNCHANGED <<conf, asleep, wire, written, dropped>>

\* Mutant: the transmit interrupts stay enabled.
ShutdownEndEnabled ==
  /\ port = "disabled" /\ port' = "closed"
  /\ u' = [u EXCEPT !.ring = IF asleep THEN @ ELSE <<>>]
  /\ dropped' = IF asleep THEN dropped ELSE dropped \cup ToSet(u.ring)
  /\ UNCHANGED <<conf, budget, asleep, wire, written, mishaps>>

\* Neither tx_state nor the timers are reset: a transmission that was cut stays half done.
ShutdownEnd ==
  /\ port = "disabled" /\ port' = "closed"
  /\ u' = [u EXCEPT !.trdyEn = FALSE, !.tcEn = FALSE,
                    !.ring = IF asleep THEN @ ELSE <<>>]
  /\ dropped' = IF asleep THEN dropped ELSE dropped \cup ToSet(u.ring)
  /\ mishaps' = IF \/ u.startTimer \cup u.stopTimer # {}
                   \/ conf.rs485 /\ u.tx # "off"
                   \/ u.xchar /\ ~asleep
                THEN mishaps \cup {"cut"} ELSE mishaps
  /\ UNCHANGED <<conf, budget, asleep, wire, written>>

-----------------------------------------------------------------------------
Handlers == \/ TxInt \/ DmaTxCallback \/ StartTimerFires \/ TriggerStartTx
            \/ StopTimerFires \/ TriggerStopTx
Hardware == Shift \/ DmaMove
Shutdown == ShutdownTerminate \/ ShutdownStop \/ ShutdownDisable \/ ShutdownEnd
Tty == Write \/ SendXchar \/ FlowStop \/ FlowStart \/ FlushBuffer \/ SetTermios
Ops == Startup \/ Resume \/ ReopenFails \/ Suspend \/ Shutdown

Next == Handlers \/ Hardware \/ Tty \/ Ops

\* Interrupts are taken, timers fire and get the lock, the wire and the DMA go on, and a
\* shutdown that has begun goes on to its end.
Fairness ==
  /\ WF_vars(TxInt) /\ WF_vars(DmaTxCallback)
  /\ WF_vars(StartTimerFires) /\ WF_vars(TriggerStartTx)
  /\ WF_vars(StopTimerFires) /\ WF_vars(TriggerStopTx)
  /\ WF_vars(Shift) /\ WF_vars(DmaMove)
  /\ WF_vars((port # "open" \/ asleep) /\ Shutdown)

Spec == Init /\ [][Next]_vars /\ Fairness

-----------------------------------------------------------------------------
(* Properties                                                              *)

\* The lengths stay within the FIFO (one flow control character may be put on top), the
\* ring and the transfer, a disabled port has no interrupt enabled, and a DMA is only
\* under way when channels are there.
TypeOK ==
  /\ conf \in Confs /\ budget \in [BudgetKinds -> Nat] /\ asleep \in BOOLEAN
  /\ port \in {"open", "terminated", "stopped", "disabled", "closed"}
  /\ u.tx \in TxStates /\ written \in Nat /\ dropped \subseteq 1 .. written
  /\ u.ring \in Seq(1 .. written) /\ Len(u.ring) <= RingSize
  /\ u.fifo \in Seq(0 .. written) /\ Len(u.fifo) <= FifoSize
  /\ u.dma \in Seq(1 .. written) /\ (u.dma # <<>> => conf.dma /\ (u.txing \/ "late" \in mishaps))
  /\ wire \in Seq(1 .. written) /\ u.txBytes \in 0 .. RingSize
  /\ u.startTimer \cup u.stopTimer \subseteq {"armed", "running"}
  /\ mishaps \subseteq {"dma", "xchar", "late", "flush", "termios", "cut", "held"}
  /\ port = "closed" /\ "cut" \notin mishaps => ~u.trdyEn /\ ~u.tcEn /\ ~u.dmaOn

\* What has not been sent yet: a DMA works on the first txBytes of the ring, which stay
\* there until its callback.
Unsent == IF u.txing THEN u.dma \o SubSeq(u.ring, u.txBytes + 1, Len(u.ring)) ELSE u.ring

\* Every byte that was not flushed or closed away leaves once, in the order in which it was
\* written, whatever order interrupts, callbacks, flow control and suspends come in.
\* Not so after a callback that was late for a flush, or a transfer a shutdown cut.
SentInOrder ==
  mishaps \cap {"late", "cut"} = {} =>
    LET line == wire \o u.fifo \o Unsent
    IN  /\ BytesOf(line) = (1 .. written) \ dropped
        /\ \A i, j \in 1 .. Len(line) : i < j /\ line[j] # XCHAR => line[i] < line[j]

\* On an RS-485 line, as long as a byte is in the FIFO the driver holds the line, and does
\* not hear itself unless it was told to: RTS is not given back under the last byte.  Not
\* so once new settings came in the middle of a transmission, a shutdown cut one, or a
\* callback was late for a flush.
RtsWhileSending ==
  conf.rs485 /\ u.fifo # <<>> /\ Awake /\ mishaps \cap {"late", "termios", "cut"} = {} =>
    u.rts /\ (u.rxEn => conf.rxDuringTx)

\* Nothing left to send: the line has been given back and the receiver is on.  A flow
\* control character that a stop overtook waits for the next start.
Idle == /\ u.fifo = <<>> /\ ~HasData(u) /\ (u.xchar => u.stopped) /\ ~u.txing
        /\ conf.rs485 => u.tx = "off" /\ ~u.rts /\ (u.rxEn \/ asleep)

\* A port that is open sends what it was given and gives the line back: no interrupt,
\* callback or timer that has to come is ever disabled.
BecomesIdle == (Awake /\ ~Idle) ~> (Idle \/ ~Awake \/ mishaps # {})

=============================================================================
