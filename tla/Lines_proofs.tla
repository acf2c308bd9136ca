------------------------------ MODULE Lines_proofs ------------------------------
(***************************************************************************)
(* Proofs about the two lines on which a driver and its interrupt take     *)
(* turns, the serial port and the CAN bus.                                 *)
(*                                                                         *)
(* ImxUart, for any sizes of FIFO and ring, any set of configurations and  *)
(* any number of events.  Every step is one of the functions that run      *)
(* under port.lock on the record u, so there is one lemma about each of    *)
(* these functions per invariant, and the steps follow from them.  IInv    *)
(* holds the types, what a DMA transfer belongs to, and what the line is   *)
(* in each state; OrderInv, which rests on it, where the bytes are that    *)
(* have not left yet.                                                      *)
(*                                                                         *)
(* FlexCan, for any mailboxes and any number of events.  Nothing is        *)
(* locked, so CanInv says what each actor may assume of the others at each *)
(* of its steps: EchoInv of the one frame that is on its way, StateInv of  *)
(* what is going to tell the driver the level of the chip, RxInv of where  *)
(* the frames are that have not gone up.                                   *)
(***************************************************************************)
EXTENDS ImxUart, FlexCan, FiniteSetTheorems, SequenceTheorems, WellFoundedInduction, TLAPS

-----------------------------------------------------------------------------
(* The serial port                                                         *)

Timer == SUBSET {"armed", "running"}

Mishaps == {"dma", "xchar", "late", "flush", "termios", "cut", "held"}

\* The types of the port when so many bytes have been written.
Ports(n) ==
  {v \in [ring : Seq(1 .. n), fifo : Seq(0 .. n), dma : Seq(1 .. n), txBytes : 0 .. RingSize,
          xchar : BOOLEAN, stopped : BOOLEAN, tx : TxStates, rts : BOOLEAN, rxEn : BOOLEAN,
          trdyEn : BOOLEAN, tcEn : BOOLEAN, txDmaEn : BOOLEAN, dmaOn : BOOLEAN,
          txing : BOOLEAN, cb : BOOLEAN, startTimer : Timer, stopTimer : Timer] :
     Len(v.ring) <= RingSize /\ Len(v.fifo) <= FifoSize}

TypesInv ==
  /\ conf \in Confs /\ budget \in [BudgetKinds -> Nat] /\ asleep \in BOOLEAN
  /\ port \in {"open", "terminated", "stopped", "disabled", "closed"}
  /\ written \in Nat /\ u \in Ports(written)
  /\ wire \in Seq(1 .. written) /\ dropped \subseteq 1 .. written
  /\ mishaps \subseteq Mishaps

\* A transfer needs channels, what is left of one belongs to a transmission, and its
\* callback comes when nothing is left.
DmaInv ==
  /\ u.dmaOn \/ u.txing \/ u.cb \/ u.dma # <<>> => conf.dma
  /\ u.cb \/ u.dma # <<>> => u.txing \/ "late" \in mishaps
  /\ u.cb => u.dma = <<>> \/ "late" \in mishaps

\* A port that has been shut down starts nothing, unless the shutdown cut something off.
ClosedInv ==
  /\ port \in {"stopped", "disabled", "closed"} => ~u.dmaOn
  /\ port \in {"disabled", "closed"} => ~u.cb /\ u.dma = <<>>
  /\ port = "closed" /\ "cut" \notin mishaps =>
       /\ ~u.trdyEn /\ ~u.tcEn /\ u.startTimer = {} /\ u.stopTimer = {}
       /\ conf.rs485 => u.tx = "off"

\* Only in the state SEND anything can be put into the FIFO, and from the time the line
\* is taken until it is given back RTS is on and the receiver as it is to be.
LineHeld(v) ==
  /\ v.tx # "send" => v.fifo = <<>> /\ ~v.trdyEn /\ ~v.tcEn /\ ~v.txing
  /\ v.tx # "off" => v.rts /\ (v.rxEn => conf.rxDuringTx)
Undisturbed == mishaps \cap {"late", "termios", "cut"} = {}
LineInv == Undisturbed /\ conf.rs485 => LineHeld(u)

IInv == TypesInv /\ DmaInv /\ ClosedInv /\ LineInv

-----------------------------------------------------------------------------
(* The functions that are called with port.lock held                       *)

\* What they do to a transfer: nothing, or they start one.
Transfer(v, w) ==
  /\ w.dmaOn = v.dmaOn /\ w.cb = v.cb
  /\ (w.txing = v.txing /\ w.dma = v.dma) \/ (~v.txing /\ w.txing)

\* The same when a transfer can only be started where there are channels.
Starts(v, w) ==
  /\ w.dmaOn = v.dmaOn /\ w.cb = v.cb
  /\ (w.txing = v.txing /\ w.dma = v.dma) \/ (~v.txing /\ w.txing /\ v.dmaOn)

\* More bytes written are no trouble to the types.
LEMMA PortsGrow ==
  ASSUME NEW n \in Nat, NEW v \in Ports(n)
  PROVE  v \in Ports(n + 1)
<1>1. 1 .. n \subseteq 1 .. n + 1 /\ 0 .. n \subseteq 0 .. n + 1
  OBVIOUS
<1>2. v.ring \in Seq(1 .. n) /\ v.fifo \in Seq(0 .. n) /\ v.dma \in Seq(1 .. n)
  BY DEF Ports
<1>3. v.ring \in Seq(1 .. n + 1)
  BY <1>1, <1>2, SeqMonotonic
<1>4. v.fifo \in Seq(0 .. n + 1)
  BY <1>1, <1>2, SeqMonotonic
<1>5. v.dma \in Seq(1 .. n + 1)
  BY <1>1, <1>2, SeqMonotonic
<1> QED
  BY <1>3, <1>4, <1>5 DEF Ports

\* imx_uart_stop_tx leaves a transfer alone, and gives the line back with an empty FIFO only.
LEMMA StopTxKeeps ==
  ASSUME NEW n \in Nat, NEW v \in Ports(n)
  PROVE  /\ StopTx(v) \in Ports(n)
         /\ Transfer(v, StopTx(v)) /\ StopTx(v).txing = v.txing /\ StopTx(v).dma = v.dma
         /\ conf.rs485 /\ LineHeld(v) => LineHeld(StopTx(v))
<1> DEFINE w == [v EXCEPT !.trdyEn = FALSE, !.tcEn = FALSE]
<1>1. CASE v.tx = "off" \/ v.txing
  <2>1. StopTx(v) = v
    BY <1>1 DEF StopTx
  <2> QED
    BY <2>1 DEF Transfer
<1>2. CASE ~(v.tx = "off" \/ v.txing) /\ v.fifo # <<>>
  <2>1. StopTx(v) = [v EXCEPT !.trdyEn = FALSE]
    BY <1>2 DEF StopTx
  <2> QED
    BY <1>2, <2>1 DEF Transfer, Ports, LineHeld
<1>3. CASE ~(v.tx = "off" \/ v.txing) /\ v.fifo = <<>>
  <2>1. /\ w \in Ports(n) /\ w.tx = v.tx /\ Transfer(v, w) /\ w.txing = FALSE
        /\ w.dma = v.dma /\ w.fifo = <<>> /\ ~w.trdyEn /\ ~w.tcEn
        /\ w.rts = v.rts /\ w.rxEn = v.rxEn
    BY <1>3 DEF Ports, Transfer
  <2>2. CASE ~conf.rs485
    <3>1. StopTx(v) = [w EXCEPT !.tx = "off"]
      BY <1>3, <2>2 DEF StopTx
    <3> HIDE DEF w
    <3> QED
      BY <1>3, <2>1, <2>2, <3>1 DEF Ports, Transfer, TxStates
  <2>3. CASE conf.rs485 /\ w.tx = "send" /\ conf.after
    <3> DEFINE timer == Arm(w.stopTimer)
    <3>1. StopTx(v) = [w EXCEPT !.tx = "waitAfterSend", !.stopTimer = timer]
      BY <1>3, <2>3 DEF StopTx
    <3> HIDE DEF w
    <3>2. timer \in Timer
      BY <2>1 DEF Arm, Ports, Timer
    <3> HIDE DEF timer
    <3>3. StopTx(v) \in Ports(n)
      BY <2>1, <3>1, <3>2 DEF Ports, TxStates
    <3> QED
      BY <1>3, <2>1, <2>3, <3>1, <3>3 DEF Ports, Transfer, LineHeld
  <2>4. CASE conf.rs485 /\ ~(w.tx = "send" /\ conf.after)
    <3> DEFINE timer == TryToCancel(w.startTimer)
    <3>1. StopTx(v) = GiveBack([w EXCEPT !.startTimer = timer])
      BY <1>3, <2>4 DEF StopTx
    <3> HIDE DEF w
    <3>2. timer \in Timer
      BY <2>1 DEF TryToCancel, Ports, Timer
    <3> HIDE DEF timer
    <3>3. StopTx(v) = [w EXCEPT !.startTimer = timer, !.rts = FALSE, !.rxEn = TRUE,
                                !.tx = "off"]
      BY <2>1, <3>1 DEF GiveBack, Ports
    <3>4. StopTx(v) \in Ports(n)
      BY <2>1, <3>2, <3>3 DEF Ports, TxStates
    <3> QED
      BY <1>3, <2>1, <3>3, <3>4 DEF Ports, Transfer, LineHeld
  <2> QED
    BY <2>2, <2>3, <2>4
<1> QED
  BY <1>1, <1>2, <1>3

\* imx_uart_dma_tx starts a transfer, or fails; it does not touch the line.
LEMMA DmaTxKeeps ==
  ASSUME NEW n \in Nat, NEW v \in Ports(n), NEW ok \in BOOLEAN
  PROVE  /\ DmaTx(v, ok) \in Ports(n) /\ Transfer(v, DmaTx(v, ok))
         /\ DmaTx(v, ok).tx = v.tx
         /\ DmaTx(v, ok).rts = v.rts /\ DmaTx(v, ok).rxEn = v.rxEn
<1>1. /\ v.ring \in Seq(1 .. n) /\ v.dma \in Seq(1 .. n)
      /\ Len(v.ring) \in 0 .. RingSize /\ v.dma \o v.ring \in Seq(1 .. n)
  <2>1. v.ring \in Seq(1 .. n) /\ v.dma \in Seq(1 .. n) /\ Len(v.ring) <= RingSize
    BY DEF Ports
  <2>2. Len(v.ring) \in Nat
    BY <2>1, LenProperties
  <2>3. v.dma \o v.ring \in Seq(1 .. n)
    BY <2>1, ConcatProperties
  <2> QED
    BY <2>1, <2>2, <2>3, ImxUartAssumption
<1>2. CASE v.txing
  BY <1>2 DEF DmaTx, Transfer
<1>3. CASE ~v.txing /\ ok
  <2>1. DmaTx(v, ok) = [v EXCEPT !.tcEn = FALSE, !.txBytes = Len(v.ring), !.txDmaEn = TRUE,
                                 !.txing = TRUE, !.dma = v.dma \o v.ring]
    BY <1>3 DEF DmaTx
  <2> DEFINE sent == v.dma \o v.ring
             n0 == Len(v.ring)
  <2>2. DmaTx(v, ok) = [v EXCEPT !.tcEn = FALSE, !.txBytes = n0, !.txDmaEn = TRUE,
                                 !.txing = TRUE, !.dma = sent]
    BY <2>1
  <2>3. sent \in Seq(1 .. n) /\ n0 \in 0 .. RingSize
    BY <1>1
  <2> HIDE DEF sent, n0
  <2>4. DmaTx(v, ok) \in Ports(n)
    BY <2>2, <2>3 DEF Ports
  <2> QED
    BY <1>3, <2>2, <2>4 DEF Ports, Transfer
<1>4. CASE ~v.txing /\ ~ok
  <2>1. DmaTx(v, ok) = [v EXCEPT !.tcEn = FALSE, !.txBytes = Len(v.ring)]
    BY <1>4 DEF DmaTx
  <2> QED
    BY <1>1, <2>1 DEF Ports, Transfer
<1> QED
  BY <1>2, <1>3, <1>4

\* The end of imx_uart_start_tx: from here on the state is SEND.
LEMMA GoKeeps ==
  ASSUME NEW n \in Nat, NEW v \in Ports(n), NEW ok \in BOOLEAN
  PROVE  /\ Go(v, ok) \in Ports(n) /\ Starts(v, Go(v, ok)) /\ Go(v, ok).tx = v.tx
         /\ Go(v, ok).rts = v.rts /\ Go(v, ok).rxEn = v.rxEn
<1>1. CASE ~v.dmaOn
  <2>1. Go(v, ok) = [v EXCEPT !.trdyEn = TRUE]
    BY <1>1 DEF Go
  <2> QED
    BY <2>1 DEF Ports, Starts
<1>2. CASE v.dmaOn /\ v.xchar
  <2>1. Go(v, ok) = [v EXCEPT !.txDmaEn = FALSE, !.trdyEn = TRUE]
    BY <1>2 DEF Go
  <2> QED
    BY <2>1 DEF Ports, Starts
<1>3. CASE v.dmaOn /\ ~v.xchar /\ HasData(v)
  <2>1. Go(v, ok) = DmaTx(v, ok)
    BY <1>3 DEF Go
  <2> DEFINE w == DmaTx(v, ok)
  <2>2. /\ w \in Ports(n) /\ Transfer(v, w) /\ w.tx = v.tx
        /\ w.rts = v.rts /\ w.rxEn = v.rxEn
    BY DmaTxKeeps
  <2>3. Starts(v, w)
    BY <1>3, <2>2, Zenon DEF Starts, Transfer
  <2> QED
    BY <2>1, <2>2, <2>3, Zenon
<1>4. CASE v.dmaOn /\ ~v.xchar /\ ~HasData(v)
  <2>1. Go(v, ok) = v
    BY <1>4 DEF Go
  <2> QED
    BY <2>1 DEF Starts
<1> QED
  BY <1>1, <1>2, <1>3, <1>4

\* imx_uart_start_tx takes the line before anything is sent.
LEMMA StartTxKeeps ==
  ASSUME NEW n \in Nat, NEW v \in Ports(n), NEW ok \in BOOLEAN, conf \in [ConfFields -> BOOLEAN]
  PROVE  /\ StartTx(v, ok) \in Ports(n) /\ Starts(v, StartTx(v, ok))
         /\ conf.rs485 /\ LineHeld(v) => LineHeld(StartTx(v, ok))
<1>1. CASE ~v.xchar /\ v.ring = <<>>
  <2>1. StartTx(v, ok) = v
    BY <1>1 DEF StartTx
  <2> QED
    BY <2>1 DEF Starts
<1>2. CASE ~(~v.xchar /\ v.ring = <<>>) /\ ~conf.rs485
  <2> DEFINE w == [v EXCEPT !.tx = "send"]
  <2>1. StartTx(v, ok) = Go(w, ok)
    BY <1>2 DEF StartTx
  <2>2. w \in Ports(n) /\ w.dmaOn = v.dmaOn /\ w.cb = v.cb /\ w.txing = v.txing /\ w.dma = v.dma
    BY DEF Ports, TxStates
  <2> HIDE DEF w
  <2> QED
    BY <1>2, <2>1, <2>2, GoKeeps DEF Starts
<1>3. CASE ~(~v.xchar /\ v.ring = <<>>) /\ conf.rs485 /\ v.tx = "off" /\ conf.before
  <2> DEFINE timer == Arm(v.startTimer)
             held == TakeLine(v)
             hears == conf.rxDuringTx /\ v.rxEn
  <2>1. timer \in Timer
    BY DEF Arm, Ports, Timer
  <2>2. hears \in BOOLEAN
    OBVIOUS
  <2>3. held = [v EXCEPT !.rts = TRUE, !.rxEn = hears]
    BY Zenon DEF TakeLine
  <2>4. StartTx(v, ok) = [held EXCEPT !.tx = "waitAfterRts", !.startTimer = Arm(@)]
    BY <1>3 DEF StartTx
  <2> HIDE DEF hears, held
  <2>5. held.startTimer = v.startTimer
    BY <2>3 DEF Ports
  <2>6. StartTx(v, ok) = [v EXCEPT !.rts = TRUE, !.rxEn = hears, !.tx = "waitAfterRts",
                                   !.startTimer = timer]
    BY <2>3, <2>4, <2>5 DEF Ports
  <2> HIDE DEF timer
  <2>7. StartTx(v, ok) \in Ports(n) /\ Starts(v, StartTx(v, ok))
    BY <2>1, <2>2, <2>6 DEF Ports, TxStates, Starts
  <2> QED
    BY <1>3, <2>6, <2>7 DEF Ports, LineHeld, hears
<1>4. CASE ~(~v.xchar /\ v.ring = <<>>) /\ conf.rs485 /\ v.tx = "send"
  <2>1. StartTx(v, ok) = Go(v, ok)
    BY <1>4 DEF StartTx
  <2> QED
    BY <1>4, <2>1, GoKeeps DEF LineHeld
<1>5. CASE /\ ~(~v.xchar /\ v.ring = <<>>) /\ conf.rs485 /\ v.tx # "send"
           /\ ~(v.tx = "off" /\ conf.before)
  <2> DEFINE held == IF v.tx = "off" THEN TakeLine(v) ELSE v
             timer == TryToCancel(v.stopTimer)
             tc == v.tcEn \/ ~v.dmaOn
             hears == conf.rxDuringTx /\ v.rxEn
             w == [held EXCEPT !.tx = "send", !.stopTimer = timer, !.tcEn = tc]
  <2>1. StartTx(v, ok)
          = Go([held EXCEPT !.tx = "send", !.stopTimer = TryToCancel(@),
                            !.tcEn = @ \/ ~v.dmaOn], ok)
    BY <1>5 DEF StartTx
  <2>2. hears \in BOOLEAN /\ tc \in BOOLEAN
    OBVIOUS
  <2>3. timer \in Timer
    BY DEF TryToCancel, Ports, Timer
  <2>4. v.tx = "off" => held = [v EXCEPT !.rts = TRUE, !.rxEn = hears]
    BY Zenon DEF TakeLine
  <2> HIDE DEF hears
  <2>5. /\ held \in Ports(n) /\ held.stopTimer = v.stopTimer /\ held.tcEn = v.tcEn
        /\ held.dmaOn = v.dmaOn /\ held.cb = v.cb /\ held.txing = v.txing /\ held.dma = v.dma
        /\ LineHeld(v) => held.rts /\ (held.rxEn => conf.rxDuringTx)
    <3>1. CASE v.tx = "off"
      <4> HIDE DEF held
      <4> QED
        BY <2>2, <2>4, <3>1 DEF Ports, LineHeld, hears
    <3>2. CASE v.tx # "off"
      <4>1. held = v
        BY <3>2
      <4> HIDE DEF held
      <4> QED
        BY <3>2, <4>1 DEF LineHeld
    <3> QED
      BY <3>1, <3>2
  <2>6. StartTx(v, ok) = Go(w, ok)
    BY <2>1, <2>5
  <2> HIDE DEF held, timer, tc
  <2>7. /\ w \in Ports(n) /\ w.tx = "send" /\ w.rts = held.rts /\ w.rxEn = held.rxEn
        /\ w.dmaOn = held.dmaOn /\ w.cb = held.cb /\ w.txing = held.txing /\ w.dma = held.dma
    BY <2>2, <2>3, <2>5 DEF Ports, TxStates, tc
  <2> HIDE DEF w
  <2> QED
    BY <1>5, <2>5, <2>6, <2>7, GoKeeps DEF Starts, LineHeld
<1> QED
  BY <1>1, <1>2, <1>3, <1>4, <1>5

\* imx_uart_transmit_buffer: no more than the FIFO holds.
LEMMA FillKeeps ==
  ASSUME NEW n \in Nat, NEW v \in Ports(n)
  PROVE  /\ Fill(v) \in Ports(n) /\ Fill(v).tx = v.tx /\ Fill(v).txing = v.txing
         /\ Fill(v).rts = v.rts /\ Fill(v).rxEn = v.rxEn
         /\ Fill(v).dmaOn = v.dmaOn /\ Fill(v).cb = v.cb /\ Fill(v).dma = v.dma
<1> DEFINE k == IF Len(v.ring) < FifoSize - Len(v.fifo) THEN Len(v.ring)
                ELSE FifoSize - Len(v.fifo)
           moved == SubSeq(v.ring, 1, k)
           rest == SubSeq(v.ring, k + 1, Len(v.ring))
<1>1. /\ v.ring \in Seq(1 .. n) /\ v.fifo \in Seq(0 .. n)
      /\ Len(v.ring) <= RingSize /\ Len(v.fifo) <= FifoSize
  BY DEF Ports
<1>2. /\ Len(v.ring) \in Nat /\ Len(v.fifo) \in Nat /\ FifoSize \in Nat /\ RingSize \in Nat
      /\ \A i \in 1 .. Len(v.ring) : v.ring[i] \in 1 .. n
  BY <1>1, LenProperties, ElementOfSeq, ImxUartAssumption
<1>3. k \in 0 .. Len(v.ring) /\ k <= FifoSize - Len(v.fifo)
  <2> DEFINE r == Len(v.ring)
             f == Len(v.fifo)
  <2>1. r \in Nat /\ f \in Nat /\ FifoSize \in Nat /\ f <= FifoSize
    BY <1>1, <1>2
  <2>2. k = IF r < FifoSize - f THEN r ELSE FifoSize - f
    OBVIOUS
  <2> HIDE DEF k, r, f
  <2>3. k \in 0 .. r /\ k <= FifoSize - f
    <3>1. CASE r < FifoSize - f
      BY <2>1, <2>2, <3>1
    <3>2. CASE ~(r < FifoSize - f)
      BY <2>1, <2>2, <3>2
    <3> QED
      BY <3>1, <3>2
  <2> QED
    BY <2>3 DEF r, f
<1>4. Fill(v) = [v EXCEPT !.fifo = v.fifo \o moved, !.ring = rest]
  BY DEF Fill
<1> HIDE DEF k
<1>5. moved \in Seq(1 .. n) /\ Len(moved) = k
  <2>1. \A i \in 1 .. k : v.ring[i] \in 1 .. n
    BY <1>2, <1>3
  <2>2. k \in Int /\ 1 \in Int
    BY <1>3
  <2>3. moved \in Seq(1 .. n) /\ Len(moved) = IF 1 <= k THEN k - 1 + 1 ELSE 0
    BY <2>1, <2>2, SubSeqProperties
  <2> QED
    BY <2>3, <1>2, <1>3
<1>6. rest \in Seq(1 .. n) /\ Len(rest) <= Len(v.ring)
  <2>1. \A i \in k + 1 .. Len(v.ring) : v.ring[i] \in 1 .. n
    BY <1>2, <1>3
  <2>2. k + 1 \in Int /\ Len(v.ring) \in Int
    BY <1>2, <1>3
  <2>3. /\ rest \in Seq(1 .. n)
        /\ Len(rest) = IF k + 1 <= Len(v.ring) THEN Len(v.ring) - (k + 1) + 1 ELSE 0
    BY <2>1, <2>2, SubSeqProperties
  <2> QED
    BY <2>3, <1>2, <1>3
<1>7. v.fifo \o moved \in Seq(0 .. n) /\ Len(v.fifo \o moved) = Len(v.fifo) + k
  <2>1. moved \in Seq(0 .. n)
    BY <1>5, 1 .. n \subseteq 0 .. n, SeqMonotonic
  <2> QED
    BY <1>1, <1>5, <2>1, ConcatProperties
<1> DEFINE filled == v.fifo \o moved
<1>8. filled \in Seq(0 .. n) /\ Len(filled) <= FifoSize /\ Len(rest) <= RingSize
  <2>1. Len(rest) \in Nat /\ k \in Int
    BY <1>3, <1>6, LenProperties
  <2>2. Len(rest) <= RingSize
    <3> HIDE DEF rest
    <3> QED
      BY <1>1, <1>2, <1>6, <2>1
  <2>3. filled \in Seq(0 .. n) /\ Len(filled) = Len(v.fifo) + k
    BY <1>7
  <2> HIDE DEF filled
  <2>4. Len(filled) <= FifoSize
    BY <1>2, <1>3, <2>1, <2>3
  <2> QED
    BY <2>2, <2>3, <2>4
<1>9. Fill(v) = [v EXCEPT !.fifo = filled, !.ring = rest]
  BY <1>4
<1> HIDE DEF filled, rest
<1> QED
  BY <1>6, <1>8, <1>9 DEF Ports

\* The interrupt handler is here only in the state SEND, when the line is RS-485.
LEMMA TransmitBufferKeeps ==
  ASSUME NEW n \in Nat, NEW v \in Ports(n), NEW ok \in BOOLEAN,
         v.xchar => Len(v.fifo) < FifoSize
  PROVE  /\ TransmitBuffer(v, ok) \in Ports(n) /\ Starts(v, TransmitBuffer(v, ok))
         /\ conf.rs485 /\ LineHeld(v) /\ v.tx = "send" => LineHeld(TransmitBuffer(v, ok))
<1>1. CASE v.xchar
  <2> DEFINE filled == Append(v.fifo, XCHAR)
  <2>1. TransmitBuffer(v, ok) = [v EXCEPT !.fifo = filled, !.xchar = FALSE]
    BY <1>1 DEF TransmitBuffer
  <2>2. v.fifo \in Seq(0 .. n) /\ XCHAR \in 0 .. n
    BY DEF Ports, XCHAR
  <2>3. filled \in Seq(0 .. n) /\ Len(filled) = Len(v.fifo) + 1 /\ Len(v.fifo) \in Nat
    BY <2>2, AppendProperties, LenProperties
  <2>4. Len(filled) <= FifoSize
    BY <1>1, <2>3, ImxUartAssumption
  <2> HIDE DEF filled
  <2> QED
    BY <2>1, <2>3, <2>4 DEF Ports, Starts, LineHeld
<1>2. CASE ~v.xchar /\ ~HasData(v)
  <2>1. TransmitBuffer(v, ok) = StopTx(v)
    BY <1>2 DEF TransmitBuffer
  <2> QED
    BY <2>1, StopTxKeeps DEF Transfer, Starts
<1>3. CASE ~v.xchar /\ HasData(v) /\ v.dmaOn /\ v.txing
  <2>1. TransmitBuffer(v, ok) = [v EXCEPT !.trdyEn = FALSE, !.txDmaEn = TRUE]
    BY <1>3 DEF TransmitBuffer
  <2> QED
    BY <2>1 DEF Ports, Starts, LineHeld
<1>4. CASE ~v.xchar /\ HasData(v) /\ v.dmaOn /\ ~v.txing
  <2> DEFINE w == [v EXCEPT !.trdyEn = FALSE]
  <2>1. TransmitBuffer(v, ok) = DmaTx(w, ok)
    BY <1>4 DEF TransmitBuffer
  <2>2. /\ w \in Ports(n) /\ w.tx = v.tx /\ w.rts = v.rts /\ w.rxEn = v.rxEn
        /\ w.dmaOn = v.dmaOn /\ w.cb = v.cb /\ w.txing = v.txing /\ w.dma = v.dma
    BY DEF Ports
  <2> DEFINE x == DmaTx(w, ok)
  <2> HIDE DEF w
  <2>3. /\ x \in Ports(n) /\ Transfer(w, x) /\ x.tx = w.tx
        /\ x.rts = w.rts /\ x.rxEn = w.rxEn
    BY <2>2, DmaTxKeeps
  <2> HIDE DEF x
  <2> QED
    BY <1>4, <2>1, <2>2, <2>3 DEF Transfer, Starts, LineHeld, x
<1>5. CASE ~v.xchar /\ HasData(v) /\ ~v.dmaOn
  <2>1. TransmitBuffer(v, ok) \in {Fill(v), StopTx(Fill(v))}
    BY <1>5 DEF TransmitBuffer
  <2>2. v.tx = "send" /\ LineHeld(v) => LineHeld(Fill(v))
    BY FillKeeps DEF LineHeld
  <2> QED
    BY <2>1, <2>2, FillKeeps, StopTxKeeps DEF Transfer, Starts
<1> QED
  BY <1>1, <1>2, <1>3, <1>4, <1>5

-----------------------------------------------------------------------------
(* The steps                                                               *)

\* The port is closed at first.
LEMMA InitIInv == Init => IInv
<1> SUFFICES ASSUME Init PROVE IInv
  OBVIOUS
<1>1. /\ conf \in Confs /\ budget \in Budgets /\ port = "closed" /\ asleep = FALSE
      /\ wire = <<>> /\ written = 0 /\ dropped = {} /\ mishaps = {}
      /\ u = [ring |-> <<>>, fifo |-> <<>>, xchar |-> FALSE, stopped |-> FALSE, tx |-> "off",
              rts |-> FALSE, rxEn |-> FALSE, trdyEn |-> FALSE, tcEn |-> FALSE,
              txDmaEn |-> FALSE, dmaOn |-> FALSE, txing |-> FALSE, txBytes |-> 0,
              dma |-> <<>>, cb |-> FALSE, startTimer |-> {}, stopTimer |-> {}]
  BY DEF Init
<1>2. budget \in [BudgetKinds -> Nat]
  BY <1>1, ImxUartAssumption
<1>3. \A S : <<>> \in Seq(S) /\ Len(<<>>) = 0
  OBVIOUS
<1>4. 0 \in 0 .. RingSize /\ 0 <= RingSize /\ 0 <= FifoSize
  BY ImxUartAssumption
<1>5. u \in Ports(written)
  BY <1>1, <1>3, <1>4 DEF Ports, TxStates, Timer
<1>6. TypesInv
  BY <1>1, <1>2, <1>3, <1>5 DEF TypesInv, Mishaps
<1>7. DmaInv /\ ClosedInv /\ LineInv
  BY <1>1 DEF DmaInv, ClosedInv, LineInv, LineHeld
<1> QED
  BY <1>6, <1>7 DEF IInv

\* What the environment may still do stays a number.
LEMMA SpendKeeps ==
  ASSUME TypesInv, NEW kind \in BudgetKinds, Spend(kind)
  PROVE  budget' \in [BudgetKinds -> Nat]
BY DEF TypesInv, Spend

\* A transfer that cannot be set up is one of the mishaps.
LEMMA OutcomeKeeps ==
  ASSUME TypesInv, NEW ok \in BOOLEAN, DmaOutcome(ok)
  PROVE  /\ budget' \in [BudgetKinds -> Nat]
         /\ mishaps \subseteq mishaps' /\ mishaps' \subseteq Mishaps
<1>1. CASE ok
  BY <1>1 DEF DmaOutcome, TypesInv
<1>2. CASE ~ok
  <2>1. Spend("fail") /\ mishaps' = mishaps \cup {"dma"}
    BY <1>2 DEF DmaOutcome
  <2>2. budget' \in [BudgetKinds -> Nat]
    BY <2>1, SpendKeeps DEF BudgetKinds
  <2> QED
    BY <2>1, <2>2 DEF TypesInv, Mishaps
<1> QED
  BY <1>1, <1>2

\* What a handler that only starts a transmission keeps: a shut port has no DMA to start.
LEMMA ServedKeeps ==
  ASSUME IInv, UNCHANGED <<conf, port, asleep, wire, written, dropped>>,
         budget' \in [BudgetKinds -> Nat],
         mishaps \subseteq mishaps', mishaps' \subseteq Mishaps,
         u' \in Ports(written), Starts(u, u'),
         port # "closed" \/ "cut" \in mishaps,
         Undisturbed /\ conf.rs485 => LineHeld(u')
  PROVE  IInv'
<1>1. TypesInv'
  BY DEF IInv, TypesInv
<1>2. DmaInv'
  BY DEF IInv, DmaInv, Starts
<1>3. ClosedInv'
  BY DEF IInv, DmaInv, ClosedInv, Starts
<1>4. LineInv'
  BY DEF LineInv, Undisturbed, LineHeld
<1> QED
  BY <1>1, <1>2, <1>3, <1>4 DEF IInv

\* The bytes of a sequence are those in it.
LEMMA ToSetIn ==
  ASSUME NEW S, NEW s \in Seq(S)
  PROVE  ToSet(s) \subseteq S
BY ElementOfSeq DEF ToSet

-----------------------------------------------------------------------------
\* Interrupts, timers, DMA.
LEMMA HandlersKeep == IInv /\ Handlers => IInv'
<1> SUFFICES ASSUME IInv, Handlers PROVE IInv'
  OBVIOUS
<1> USE DEF Running
<1>a. /\ written \in Nat /\ u \in Ports(written) /\ TypesInv
      /\ conf \in [ConfFields -> BOOLEAN] /\ budget \in [BudgetKinds -> Nat]
      /\ mishaps \subseteq Mishaps
  BY ImxUartAssumption DEF IInv, TypesInv
<1>b. \A ok \in DmaOutcomes : ok \in BOOLEAN
  BY DEF DmaOutcomes
<1>1. CASE TxInt
  <2>1. PICK ok \in DmaOutcomes : u' = TransmitBuffer(u, ok) /\ DmaOutcome(ok)
    BY <1>1 DEF TxInt
  <2>2. /\ port # "closed" /\ UNCHANGED <<conf, port, asleep, wire, written, dropped>>
        /\ (u.trdyEn /\ Len(u.fifo) < FifoSize) \/ (u.tcEn /\ u.fifo = <<>>)
    BY <1>1 DEF TxInt
  <2>3. Len(u.fifo) < FifoSize
    BY <2>2, ImxUartAssumption
  <2>4. /\ u' \in Ports(written) /\ Starts(u, u')
        /\ conf.rs485 /\ LineHeld(u) /\ u.tx = "send" => LineHeld(u')
    BY <1>a, <1>b, <2>1, <2>3, TransmitBufferKeeps
  <2>5. Undisturbed /\ conf.rs485 => LineHeld(u')
    BY <2>2, <2>4 DEF IInv, LineInv, Undisturbed, LineHeld
  <2>6. /\ budget' \in [BudgetKinds -> Nat]
        /\ mishaps \subseteq mishaps' /\ mishaps' \subseteq Mishaps
    BY <1>a, <1>b, <2>1, OutcomeKeeps
  <2> QED
    BY <2>2, <2>4, <2>5, <2>6, ServedKeeps
<1>2. CASE DmaTxCallback
  <2> DEFINE rest == SubSeq(u.ring, u.txBytes + 1, Len(u.ring))
             v == Advance(u)
  <2>1. u.cb /\ UNCHANGED <<conf, port, asleep, wire, written, dropped>>
    BY <1>2 DEF DmaTxCallback
  <2>2. PICK ok \in BOOLEAN : /\ u' \in {DmaTx(v, ok), [v EXCEPT !.tcEn = @ \/ conf.rs485]}
                              /\ DmaOutcome(ok)
    BY <1>2, <1>b, Zenon DEF DmaTxCallback
  <2>3. rest \in Seq(1 .. written) /\ Len(rest) <= RingSize
    <3>1. /\ u.ring \in Seq(1 .. written) /\ Len(u.ring) <= RingSize
          /\ u.txBytes \in Nat
      BY <1>a, ImxUartAssumption DEF Ports
    <3>2. Len(u.ring) \in Nat /\ \A i \in 1 .. Len(u.ring) : u.ring[i] \in 1 .. written
      BY <3>1, LenProperties, ElementOfSeq
    <3>3. \A i \in u.txBytes + 1 .. Len(u.ring) : u.ring[i] \in 1 .. written
      BY <3>1, <3>2
    <3>4. u.txBytes + 1 \in Int /\ Len(u.ring) \in Int
      BY <3>1, <3>2
    <3>5. /\ rest \in Seq(1 .. written)
          /\ Len(rest) = IF u.txBytes + 1 <= Len(u.ring)
                         THEN Len(u.ring) - (u.txBytes + 1) + 1 ELSE 0
      BY <3>3, <3>4, SubSeqProperties
    <3> HIDE DEF rest
    <3> QED
      BY <3>1, <3>2, <3>5, ImxUartAssumption
  <2>4. v = [u EXCEPT !.cb = FALSE, !.txDmaEn = FALSE, !.txing = FALSE, !.ring = rest]
    BY DEF Advance
  <2> HIDE DEF v, rest
  <2>5. /\ v \in Ports(written) /\ v.dmaOn = u.dmaOn /\ ~v.cb /\ ~v.txing /\ v.dma = u.dma
        /\ v.tx = u.tx /\ v.rts = u.rts /\ v.rxEn = u.rxEn /\ v.tcEn = u.tcEn
    BY <1>a, <2>3, <2>4 DEF Ports
  <2>6. /\ u' \in Ports(written) /\ u'.tx = u.tx /\ u'.rts = u.rts /\ u'.rxEn = u.rxEn
        /\ u'.dmaOn = u.dmaOn /\ ~u'.cb /\ (u'.dma = u.dma \/ u'.txing)
    <3>1. CASE u' = DmaTx(v, ok)
      BY <1>a, <2>5, <3>1, DmaTxKeeps DEF Transfer
    <3>2. CASE u' = [v EXCEPT !.tcEn = @ \/ conf.rs485]
      <4> DEFINE tc == v.tcEn \/ conf.rs485
      <4>1. tc \in BOOLEAN
        OBVIOUS
      <4>2. u' = [v EXCEPT !.tcEn = tc]
        BY <3>2, <2>5 DEF Ports
      <4> HIDE DEF tc
      <4> QED
        BY <2>5, <4>1, <4>2 DEF Ports
    <3> QED
      BY <2>2, <3>1, <3>2
  <2>7. /\ budget' \in [BudgetKinds -> Nat]
        /\ mishaps \subseteq mishaps' /\ mishaps' \subseteq Mishaps
    BY <1>a, <2>2, OutcomeKeeps
  <2>8. TypesInv'
    BY <1>a, <2>1, <2>6, <2>7 DEF TypesInv
  <2>9. DmaInv'
    BY <2>1, <2>6, <2>7 DEF IInv, DmaInv
  <2>10. ClosedInv'
    BY <2>1, <2>6 DEF IInv, ClosedInv
  <2>11. LineInv'
    <3>1. SUFFICES ASSUME Undisturbed, conf.rs485 PROVE LineHeld(u')
      BY <2>1, <2>7 DEF LineInv, Undisturbed, LineHeld
    <3>2. LineHeld(u) /\ u.txing
      BY <2>1, <3>1 DEF IInv, DmaInv, LineInv, Undisturbed
    <3> QED
      BY <2>6, <3>2 DEF LineHeld
  <2> QED
    BY <2>8, <2>9, <2>10, <2>11 DEF IInv
<1>3. CASE StartTimerFires \/ StopTimerFires
  <2>1. /\ UNCHANGED <<conf, budget, port, asleep, wire, written, dropped, mishaps>>
        /\ u.startTimer \cup u.stopTimer # {}
        /\ u' \in {[u EXCEPT !.startTimer = {"running"}], [u EXCEPT !.stopTimer = {"running"}]}
    BY <1>3 DEF StartTimerFires, StopTimerFires
  <2> DEFINE timer == {"running"}
  <2>2. timer \in Timer
    BY DEF Timer
  <2> HIDE DEF timer
  <2>3. CASE u' = [u EXCEPT !.startTimer = timer]
    <3>1. u' \in Ports(written) /\ Starts(u, u')
      BY <1>a, <2>2, <2>3 DEF Ports, Starts
    <3>2. LineHeld(u) => LineHeld(u')
      BY <1>a, <2>2, <2>3 DEF Ports, LineHeld
    <3> QED
      BY <1>a, <2>1, <3>1, <3>2, ServedKeeps DEF IInv, ClosedInv, LineInv, Undisturbed
  <2>4. CASE u' = [u EXCEPT !.stopTimer = timer]
    <3>1. u' \in Ports(written) /\ Starts(u, u')
      BY <1>a, <2>2, <2>4 DEF Ports, Starts
    <3>2. LineHeld(u) => LineHeld(u')
      BY <1>a, <2>2, <2>4 DEF Ports, LineHeld
    <3> QED
      BY <1>a, <2>1, <3>1, <3>2, ServedKeeps DEF IInv, ClosedInv, LineInv, Undisturbed
  <2> QED
    BY <2>1, <2>3, <2>4 DEF timer
<1>4. CASE TriggerStartTx
  <2> DEFINE timer == u.startTimer \ {"running"}
             v == [u EXCEPT !.startTimer = timer]
  <2>1. PICK ok \in DmaOutcomes : /\ u' \in {StartTx(v, ok), v}
                                  /\ DmaOutcome(ok)
    BY <1>4, Zenon DEF TriggerStartTx
  <2>2. /\ u.startTimer # {}
        /\ UNCHANGED <<conf, port, asleep, wire, written, dropped>>
    BY <1>4 DEF TriggerStartTx
  <2>3. timer \in Timer
    BY <1>a DEF Ports, Timer
  <2> HIDE DEF timer
  <2>4. v \in Ports(written) /\ Starts(u, v) /\ (LineHeld(u) => LineHeld(v))
        /\ v.dmaOn = u.dmaOn
    BY <1>a, <2>3 DEF Ports, Starts, LineHeld
  <2> HIDE DEF v
  <2>5. /\ u' \in Ports(written) /\ Starts(v, u')
        /\ conf.rs485 /\ LineHeld(v) => LineHeld(u')
    <3>1. CASE u' = StartTx(v, ok)
      BY <1>a, <1>b, <2>4, <3>1, StartTxKeeps
    <3>2. CASE u' = v
      BY <2>4, <3>2 DEF Starts
    <3> QED
      BY <2>1, <3>1, <3>2
  <2>6. Starts(u, u')
    BY <2>4, <2>5 DEF Starts
  <2>7. /\ budget' \in [BudgetKinds -> Nat]
        /\ mishaps \subseteq mishaps' /\ mishaps' \subseteq Mishaps
    BY <1>a, <1>b, <2>1, OutcomeKeeps
  <2> QED
    BY <2>2, <2>4, <2>5, <2>6, <2>7, ServedKeeps DEF IInv, ClosedInv, LineInv, Undisturbed
<1>5. CASE TriggerStopTx
  <2> DEFINE timer == u.stopTimer \ {"running"}
             v == [u EXCEPT !.stopTimer = timer]
  <2>1. /\ u.stopTimer # {} /\ u' \in {StopTx(v), v}
        /\ UNCHANGED <<conf, budget, port, asleep, wire, written, dropped, mishaps>>
    BY <1>5, Zenon DEF TriggerStopTx
  <2>2. timer \in Timer
    BY <1>a DEF Ports, Timer
  <2> HIDE DEF timer
  <2>3. v \in Ports(written) /\ Starts(u, v) /\ (LineHeld(u) => LineHeld(v))
    BY <1>a, <2>2 DEF Ports, Starts, LineHeld
  <2> HIDE DEF v
  <2>4. /\ u' \in Ports(written) /\ Starts(v, u')
        /\ conf.rs485 /\ LineHeld(v) => LineHeld(u')
    <3>1. CASE u' = StopTx(v)
      BY <1>a, <2>3, <3>1, StopTxKeeps DEF Transfer, Starts
    <3>2. CASE u' = v
      BY <2>3, <3>2 DEF Starts
    <3> QED
      BY <2>1, <3>1, <3>2
  <2>5. Starts(u, u')
    BY <2>3, <2>4 DEF Starts
  <2> QED
    BY <1>a, <2>1, <2>3, <2>4, <2>5, ServedKeeps DEF IInv, ClosedInv, LineInv, Undisturbed
<1> QED
  BY <1>1, <1>2, <1>3, <1>4, <1>5 DEF Handlers

\* The wire and the DMA.
LEMMA HardwareKeeps == IInv /\ Hardware => IInv'
<1> SUFFICES ASSUME IInv, Hardware PROVE IInv'
  OBVIOUS
<1>a. /\ written \in Nat /\ u \in Ports(written) /\ wire \in Seq(1 .. written)
      /\ u.fifo \in Seq(0 .. written) /\ u.dma \in Seq(1 .. written)
      /\ Len(u.fifo) <= FifoSize /\ Len(u.fifo) \in Nat /\ FifoSize \in Nat
  <2>1. /\ written \in Nat /\ u \in Ports(written) /\ wire \in Seq(1 .. written)
        /\ u.fifo \in Seq(0 .. written) /\ u.dma \in Seq(1 .. written)
        /\ Len(u.fifo) <= FifoSize
    BY DEF IInv, TypesInv, Ports
  <2> QED
    BY <2>1, LenProperties, ImxUartAssumption
<1>1. CASE Shift
  <2> DEFINE rest == Tail(u.fifo)
  <2>1. /\ u.fifo # <<>> /\ u' = [u EXCEPT !.fifo = rest]
        /\ wire' = IF Head(u.fifo) = XCHAR THEN wire ELSE Append(wire, Head(u.fifo))
        /\ port # "closed"
        /\ UNCHANGED <<conf, budget, port, asleep, written, dropped, mishaps>>
    <3>1. u' = [u EXCEPT !.fifo = Tail(@)]
      BY <1>1 DEF Shift
    <3>2. u' = [u EXCEPT !.fifo = rest]
      BY <1>a, <3>1 DEF Ports
    <3> QED
      BY <1>1, <3>2 DEF Shift, Running
  <2>2. /\ rest \in Seq(0 .. written) /\ Len(rest) = Len(u.fifo) - 1
        /\ Head(u.fifo) \in 0 .. written
    BY <1>a, <2>1, HeadTailProperties
  <2>3. wire' \in Seq(1 .. written)
    <3>1. CASE Head(u.fifo) = XCHAR
      BY <1>a, <2>1, <3>1
    <3>2. CASE Head(u.fifo) # XCHAR
      <4>1. Head(u.fifo) \in 1 .. written
        BY <1>a, <2>2, <3>2 DEF XCHAR
      <4> QED
        BY <1>a, <2>1, <3>2, <4>1, AppendProperties
    <3> QED
      BY <3>1, <3>2
  <2>4. Len(rest) <= FifoSize
    <3> HIDE DEF rest
    <3> QED
      BY <1>a, <2>2
  <2> HIDE DEF rest
  <2>5. u' \in Ports(written) /\ Starts(u, u')
    BY <1>a, <2>1, <2>2, <2>4 DEF Ports, Starts
  <2>6. LineHeld(u) => LineHeld(u')
    BY <1>a, <2>1 DEF Ports, LineHeld
  <2>7. TypesInv'
    BY <2>1, <2>3, <2>5 DEF IInv, TypesInv
  <2>8. DmaInv'
    BY <2>1, <2>5 DEF IInv, DmaInv, Starts
  <2>9. ClosedInv'
    BY <2>1, <2>5 DEF IInv, DmaInv, ClosedInv, Starts
  <2>10. LineInv'
    BY <2>1, <2>6 DEF IInv, LineInv, Undisturbed, LineHeld
  <2> QED
    BY <2>7, <2>8, <2>9, <2>10 DEF IInv
<1>2. CASE DmaMove
  <2> DEFINE filled == Append(u.fifo, Head(u.dma))
             rest == Tail(u.dma)
             cb == u.cb \/ Len(u.dma) = 1
  <2>1. /\ u' = [u EXCEPT !.fifo = Append(@, Head(u.dma)), !.dma = Tail(@),
                          !.cb = @ \/ Len(u.dma) = 1]
        /\ u.dma # <<>> /\ Len(u.fifo) < FifoSize /\ port # "closed"
        /\ UNCHANGED <<conf, budget, port, asleep, wire, written, dropped, mishaps>>
    BY <1>2 DEF DmaMove, Running
  <2>2. u' = [u EXCEPT !.fifo = filled, !.dma = rest, !.cb = cb]
    BY <1>a, <2>1 DEF Ports
  <2>3. /\ Head(u.dma) \in 1 .. written /\ rest \in Seq(1 .. written)
        /\ Len(rest) = Len(u.dma) - 1 /\ Len(rest) \in Nat /\ Len(u.dma) \in Nat
    BY <1>a, <2>1, HeadTailProperties, LenProperties
  <2>4. filled \in Seq(0 .. written) /\ Len(filled) = Len(u.fifo) + 1
    <3>1. Head(u.dma) \in 0 .. written
      BY <1>a, <2>3
    <3> QED
      BY <1>a, <3>1, AppendProperties
  <2>5. cb \in BOOLEAN
    OBVIOUS
  <2>6. cb => u.cb \/ rest = <<>>
    <3>1. Len(u.dma) = 1 => Len(rest) = 0
      BY <2>3
    <3>2. Len(rest) = 0 => rest = <<>>
      BY <2>3, EmptySeq
    <3> QED
      BY <3>1, <3>2
  <2>7. Len(filled) <= FifoSize
    <3> HIDE DEF filled
    <3> QED
      BY <1>a, <2>1, <2>4
  <2> HIDE DEF filled, rest, cb
  <2>8. u' \in Ports(written)
    BY <1>a, <2>2, <2>3, <2>4, <2>5, <2>7 DEF Ports
  <2>9. /\ u'.fifo = filled /\ u'.dma = rest /\ u'.cb = cb /\ u'.txing = u.txing
        /\ u'.dmaOn = u.dmaOn /\ u'.tx = u.tx /\ u'.rts = u.rts /\ u'.rxEn = u.rxEn
    BY <1>a, <2>2 DEF Ports
  <2>10. TypesInv'
    BY <2>1, <2>8 DEF IInv, TypesInv
  <2>11. DmaInv'
    BY <2>1, <2>6, <2>9 DEF IInv, DmaInv
  <2>12. ClosedInv'
    BY <2>1, <2>9 DEF IInv, ClosedInv
  <2>13. LineInv'
    <3>1. SUFFICES ASSUME Undisturbed, conf.rs485 PROVE LineHeld(u')
      BY <2>1 DEF LineInv, Undisturbed, LineHeld
    <3>2. LineHeld(u) /\ u.txing
      BY <2>1, <3>1 DEF IInv, DmaInv, LineInv, Undisturbed
    <3> QED
      BY <2>9, <3>2 DEF LineHeld
  <2> QED
    BY <2>10, <2>11, <2>12, <2>13 DEF IInv
<1> QED
  BY <1>1, <1>2 DEF Hardware

\* What the tty asks for finds the port open.
LEMMA AskedKeeps ==
  ASSUME IInv, Awake, UNCHANGED <<conf, port>>, asleep' \in BOOLEAN,
         wire' = wire,
         budget' \in [BudgetKinds -> Nat], written' \in Nat, u' \in Ports(written'),
         wire \in Seq(1 .. written'), dropped' \subseteq 1 .. written',
         mishaps \subseteq mishaps', mishaps' \subseteq Mishaps,
         Starts(u, u'),
         Undisturbed /\ Undisturbed' /\ conf.rs485 => LineHeld(u')
  PROVE  IInv'
<1>1. TypesInv'
  BY DEF IInv, TypesInv
<1>2. DmaInv'
  BY DEF IInv, DmaInv, Starts
<1>3. ClosedInv'
  BY DEF ClosedInv, Awake
<1>4. LineInv'
  BY DEF LineInv, Undisturbed, LineHeld
<1> QED
  BY <1>1, <1>2, <1>3, <1>4 DEF IInv

\* Up to what is in a sequence of bytes that can be dropped.
LEMMA BytesOfIn ==
  ASSUME NEW n \in Nat, NEW s \in Seq(0 .. n)
  PROVE  BytesOf(s) \subseteq 1 .. n
<1>1. ToSet(s) \subseteq 0 .. n
  BY ToSetIn
<1> QED
  BY <1>1 DEF BytesOf, XCHAR

\* RTS goes to its level after sending, and nothing else changes.
LEMMA RtsIdleKeeps ==
  ASSUME NEW n \in Nat, NEW v \in Ports(n)
  PROVE  /\ RtsIdle(v) \in Ports(n)
         /\ RtsIdle(v).dmaOn = v.dmaOn /\ RtsIdle(v).cb = v.cb /\ RtsIdle(v).dma = v.dma
         /\ RtsIdle(v).txing = v.txing /\ RtsIdle(v).tx = v.tx /\ RtsIdle(v).fifo = v.fifo
         /\ RtsIdle(v).trdyEn = v.trdyEn /\ RtsIdle(v).tcEn = v.tcEn
BY ZenonT(40) DEF RtsIdle, Ports

\* What the tty asks for.
LEMMA TtyKeeps == IInv /\ Tty => IInv'
<1> SUFFICES ASSUME IInv, Tty PROVE IInv'
  OBVIOUS
<1>a. /\ written \in Nat /\ u \in Ports(written) /\ TypesInv
      /\ wire \in Seq(1 .. written) /\ dropped \subseteq 1 .. written
      /\ conf \in [ConfFields -> BOOLEAN] /\ budget \in [BudgetKinds -> Nat]
      /\ mishaps \subseteq Mishaps /\ asleep \in BOOLEAN
  BY ImxUartAssumption DEF IInv, TypesInv
<1>b. \A ok \in DmaOutcomes : ok \in BOOLEAN
  BY DEF DmaOutcomes
<1>c. Undisturbed /\ conf.rs485 => LineHeld(u)
  BY DEF IInv, LineInv, Undisturbed
<1>1. CASE Write
  <2> DEFINE longer == Append(u.ring, written + 1)
             v == [u EXCEPT !.ring = longer]
  <2>1. PICK ok \in BOOLEAN :
          /\ u' \in {v, StartTx(v, ok)}
          /\ ok \/ budget["fail"] > 0
          /\ budget' = [budget EXCEPT !["write"] = @ - 1, !["fail"] = IF ok THEN @ ELSE @ - 1]
          /\ mishaps' = IF ok THEN mishaps ELSE mishaps \cup {"dma"}
    <3>1. PICK ok \in BOOLEAN :
          /\ ok \/ (u.dmaOn /\ ~u.stopped /\ budget["fail"] > 0)
          /\ u' = IF u.stopped THEN [u EXCEPT !.ring = Append(@, written + 1)]
                  ELSE StartTx([u EXCEPT !.ring = Append(@, written + 1)], ok)
          /\ budget' = [budget EXCEPT !["write"] = @ - 1, !["fail"] = IF ok THEN @ ELSE @ - 1]
          /\ mishaps' = IF ok THEN mishaps ELSE mishaps \cup {"dma"}
      BY <1>1 DEF Write
    <3>2. [u EXCEPT !.ring = Append(@, written + 1)] = v
      BY <1>a DEF Ports
    <3> QED
      BY <3>1, <3>2, Zenon
  <2>2. /\ Awake /\ budget["write"] > 0 /\ Len(u.ring) < RingSize /\ written' = written + 1
        /\ UNCHANGED <<conf, port, asleep, wire, dropped>>
    BY <1>1 DEF Write
  <2>3. budget' \in [BudgetKinds -> Nat]
    <3> DEFINE writes == budget["write"] - 1
               fails == IF ok THEN budget["fail"] ELSE budget["fail"] - 1
    <3>1. budget["write"] \in Nat /\ budget["fail"] \in Nat
      BY <1>a DEF BudgetKinds
    <3>2. writes \in Nat /\ fails \in Nat
      BY <2>1, <2>2, <3>1
    <3>3. budget' = [budget EXCEPT !["write"] = writes, !["fail"] = fails]
      BY <1>a, <2>1 DEF BudgetKinds
    <3> HIDE DEF writes, fails
    <3> QED
      BY <1>a, <3>2, <3>3 DEF BudgetKinds
  <2>4. mishaps \subseteq mishaps' /\ mishaps' \subseteq Mishaps
    BY <1>a, <2>1 DEF Mishaps
  <2>5. u \in Ports(written + 1) /\ written + 1 \in Nat
    BY <1>a, PortsGrow
  <2>6. 1 .. written \subseteq 1 .. written + 1
    BY <1>a
  <2>7. wire \in Seq(1 .. written + 1) /\ dropped \subseteq 1 .. written + 1
    BY <1>a, <2>6, SeqMonotonic
  <2>8. longer \in Seq(1 .. written + 1) /\ Len(longer) <= RingSize
    <3>1. u.ring \in Seq(1 .. written + 1) /\ written + 1 \in 1 .. written + 1
      BY <1>a, <2>5 DEF Ports
    <3>2. /\ longer \in Seq(1 .. written + 1) /\ Len(longer) = Len(u.ring) + 1
          /\ Len(u.ring) \in Nat
      BY <3>1, AppendProperties, LenProperties
    <3> HIDE DEF longer
    <3> QED
      BY <2>2, <3>2, ImxUartAssumption
  <2> HIDE DEF longer
  <2>9. v \in Ports(written + 1) /\ Starts(u, v) /\ (LineHeld(u) => LineHeld(v))
        /\ v.dmaOn = u.dmaOn
    BY <2>5, <2>8 DEF Ports, Starts, LineHeld
  <2> HIDE DEF v
  <2>10. /\ u' \in Ports(written + 1) /\ Starts(v, u')
         /\ conf.rs485 /\ LineHeld(v) => LineHeld(u')
    <3>1. CASE u' = StartTx(v, ok)
      BY <1>a, <2>5, <2>9, <3>1, StartTxKeeps
    <3>2. CASE u' = v
      BY <2>9, <3>2 DEF Starts
    <3> QED
      BY <2>1, <3>1, <3>2
  <2>11. Starts(u, u')
    BY <2>9, <2>10 DEF Starts
  <2> QED
    BY <1>a, <1>c, <2>2, <2>3, <2>4, <2>5, <2>7, <2>9, <2>10, <2>11, AskedKeeps
<1>2. CASE SendXchar
  <2> DEFINE v == [u EXCEPT !.xchar = TRUE]
  <2>1. /\ Awake /\ Spend("xchar") /\ u' = StartTx(v, TRUE)
        /\ UNCHANGED <<conf, port, asleep, wire, written, dropped>>
        /\ mishaps' = IF conf.dma THEN mishaps \cup {"xchar"} ELSE mishaps
    BY <1>2 DEF SendXchar
  <2>2. v \in Ports(written) /\ Starts(u, v) /\ (LineHeld(u) => LineHeld(v))
        /\ v.dmaOn = u.dmaOn
    BY <1>a DEF Ports, Starts, LineHeld
  <2> HIDE DEF v
  <2>3. /\ u' \in Ports(written) /\ Starts(v, u')
        /\ conf.rs485 /\ LineHeld(v) => LineHeld(u')
    BY <1>a, <2>1, <2>2, StartTxKeeps
  <2>4. Starts(u, u')
    BY <2>2, <2>3 DEF Starts
  <2>5. mishaps \subseteq mishaps' /\ mishaps' \subseteq Mishaps
    BY <1>a, <2>1 DEF Mishaps
  <2>6. budget' \in [BudgetKinds -> Nat]
    BY <1>a, <2>1, SpendKeeps DEF BudgetKinds
  <2> QED
    BY <1>a, <1>c, <2>1, <2>2, <2>3, <2>4, <2>5, <2>6, AskedKeeps
<1>3. CASE FlowStop
  <2> DEFINE v == [u EXCEPT !.stopped = TRUE]
  <2>1. /\ Awake /\ Spend("flow") /\ u' = StopTx(v)
        /\ UNCHANGED <<conf, port, asleep, wire, written, dropped, mishaps>>
    BY <1>3 DEF FlowStop
  <2>2. v \in Ports(written) /\ Starts(u, v) /\ (LineHeld(u) => LineHeld(v))
    BY <1>a DEF Ports, Starts, LineHeld
  <2> HIDE DEF v
  <2>3. /\ u' \in Ports(written) /\ Starts(v, u')
        /\ conf.rs485 /\ LineHeld(v) => LineHeld(u')
    BY <1>a, <2>1, <2>2, StopTxKeeps DEF Transfer, Starts
  <2>4. Starts(u, u')
    BY <2>2, <2>3 DEF Starts
  <2>5. budget' \in [BudgetKinds -> Nat]
    BY <1>a, <2>1, SpendKeeps DEF BudgetKinds
  <2> QED
    BY <1>a, <1>c, <2>1, <2>2, <2>3, <2>4, <2>5, AskedKeeps
<1>4. CASE FlowStart
  <2> DEFINE v == [u EXCEPT !.stopped = FALSE]
  <2>1. PICK ok \in BOOLEAN : u' = StartTx(v, ok) /\ DmaOutcome(ok)
    BY <1>4, <1>b, Zenon DEF FlowStart
  <2>2. Awake /\ UNCHANGED <<conf, port, asleep, wire, written, dropped>>
    BY <1>4 DEF FlowStart
  <2>3. v \in Ports(written) /\ Starts(u, v) /\ (LineHeld(u) => LineHeld(v))
        /\ v.dmaOn = u.dmaOn
    BY <1>a DEF Ports, Starts, LineHeld
  <2> HIDE DEF v
  <2>4. /\ u' \in Ports(written) /\ Starts(v, u')
        /\ conf.rs485 /\ LineHeld(v) => LineHeld(u')
    BY <1>a, <2>1, <2>3, StartTxKeeps
  <2>5. Starts(u, u')
    BY <2>3, <2>4 DEF Starts
  <2>6. /\ budget' \in [BudgetKinds -> Nat]
        /\ mishaps \subseteq mishaps' /\ mishaps' \subseteq Mishaps
    BY <1>a, <2>1, OutcomeKeeps
  <2> QED
    BY <1>a, <1>c, <2>2, <2>3, <2>4, <2>5, <2>6, AskedKeeps
<1>5. CASE FlushBuffer
  <2> DEFINE rest == SubSeq(u.ring, (IF u.txing THEN u.txBytes ELSE 0) + 1, Len(u.ring))
             v == [u EXCEPT !.ring = <<>>]
             dmaEn == u.txDmaEn /\ ~u.txing
  <2>1. PICK late \in {FALSE, u.cb} :
          /\ u' = IF u.dmaOn THEN [v EXCEPT !.fifo = <<>>, !.dma = <<>>, !.cb = late,
                                            !.txBytes = 0, !.txing = FALSE,
                                            !.txDmaEn = @ /\ ~u.txing]
                  ELSE v
          /\ mishaps' = mishaps \cup (IF late THEN {"late"} ELSE {})
               \cup (IF /\ conf.rs485
                        /\ u.tx = "waitAfterRts" \/ (u.dmaOn /\ u.tx = "send" /\ ~u.tcEn)
                     THEN {"flush"} ELSE {})
    BY <1>5 DEF FlushBuffer
  <2>2. /\ Awake /\ Spend("flush") /\ UNCHANGED <<conf, port, asleep, wire, written>>
        /\ dropped' = dropped
             \cup (IF u.dmaOn THEN BytesOf(u.fifo) \cup BytesOf(u.dma) ELSE {}) \cup ToSet(rest)
    BY <1>5 DEF FlushBuffer
  <2>3. budget' \in [BudgetKinds -> Nat]
    BY <1>a, <2>2, SpendKeeps DEF BudgetKinds
  <2>4. mishaps \subseteq mishaps' /\ mishaps' \subseteq Mishaps
    BY <1>a, <2>1 DEF Mishaps
  <2>5. /\ u.ring \in Seq(1 .. written) /\ u.fifo \in Seq(0 .. written)
        /\ u.dma \in Seq(1 .. written) /\ u.txBytes \in Nat /\ u.cb \in BOOLEAN
        /\ u.txDmaEn \in BOOLEAN
    BY <1>a, ImxUartAssumption DEF Ports
  <2>6. ToSet(rest) \subseteq 1 .. written
    <3> DEFINE m == (IF u.txing THEN u.txBytes ELSE 0) + 1
    <3>1. Len(u.ring) \in Nat /\ \A i \in 1 .. Len(u.ring) : u.ring[i] \in 1 .. written
      BY <2>5, LenProperties, ElementOfSeq
    <3>2. m \in Nat /\ m >= 1
      BY <2>5
    <3> HIDE DEF m
    <3>3. \A i \in m .. Len(u.ring) : u.ring[i] \in 1 .. written
      BY <3>1, <3>2
    <3>4. SubSeq(u.ring, m, Len(u.ring)) \in Seq(1 .. written)
      BY <3>1, <3>2, <3>3, SubSeqProperties
    <3> QED
      BY <3>4, ToSetIn DEF m
  <2> HIDE DEF rest
  <2>7. dropped' \subseteq 1 .. written
    <3>1. BytesOf(u.fifo) \subseteq 1 .. written
      BY <1>a, <2>5, BytesOfIn
    <3>2. BytesOf(u.dma) \subseteq 1 .. written
      BY <2>5, ToSetIn DEF BytesOf
    <3> QED
      BY <1>a, <2>2, <2>6, <3>1, <3>2
  <2>8. \A S : <<>> \in Seq(S) /\ Len(<<>>) = 0
    OBVIOUS
  <2>9. 0 \in 0 .. RingSize /\ 0 <= RingSize /\ 0 <= FifoSize
    BY ImxUartAssumption
  <2>10. /\ v \in Ports(written) /\ v.dmaOn = u.dmaOn /\ v.cb = u.cb /\ v.txing = u.txing
         /\ v.dma = u.dma /\ v.tx = u.tx /\ v.rts = u.rts /\ v.rxEn = u.rxEn
         /\ v.fifo = u.fifo /\ v.trdyEn = u.trdyEn /\ v.tcEn = u.tcEn /\ v.txDmaEn = u.txDmaEn
    BY <1>a, <2>8, <2>9 DEF Ports
  <2> HIDE DEF v
  <2>11. CASE u.dmaOn
    <3>1. dmaEn \in BOOLEAN /\ late \in BOOLEAN
      BY <2>5
    <3>2. u' = [v EXCEPT !.fifo = <<>>, !.dma = <<>>, !.cb = late, !.txBytes = 0,
                         !.txing = FALSE, !.txDmaEn = dmaEn]
      BY <2>1, <2>10, <2>11 DEF Ports
    <3> HIDE DEF dmaEn
    <3>3. /\ u' \in Ports(written) /\ u'.dmaOn = u.dmaOn /\ u'.cb = late /\ ~u'.txing
          /\ u'.dma = <<>> /\ u'.tx = u.tx /\ u'.rts = u.rts /\ u'.rxEn = u.rxEn
          /\ u'.fifo = <<>> /\ u'.trdyEn = u.trdyEn /\ u'.tcEn = u.tcEn
      BY <2>8, <2>9, <2>10, <3>1, <3>2, ZenonT(40) DEF Ports
    <3>4. TypesInv'
      BY <1>a, <2>2, <2>3, <2>4, <2>7, <3>3 DEF TypesInv
    <3>5. DmaInv'
      BY <2>1, <2>2, <2>11, <3>1, <3>3 DEF IInv, DmaInv
    <3>6. ClosedInv'
      BY <2>2 DEF ClosedInv, Awake
    <3>7. LineInv'
      BY <1>c, <2>2, <2>4, <3>3 DEF LineInv, Undisturbed, LineHeld
    <3> QED
      BY <3>4, <3>5, <3>6, <3>7 DEF IInv
  <2>12. CASE ~u.dmaOn
    <3>1. u' \in Ports(written) /\ Starts(u, u') /\ (LineHeld(u) => LineHeld(u'))
      BY <2>1, <2>10, <2>12 DEF Starts, LineHeld
    <3> QED
      BY <1>a, <1>c, <2>2, <2>3, <2>4, <2>7, <3>1, AskedKeeps
  <2> QED
    BY <2>11, <2>12
<1>6. CASE SetTermios
  <2>1. PICK rs485 \in {FALSE, conf.rs485} :
          u' = [RtsIdle(u) EXCEPT !.rxEn = @ \/ (rs485 /\ conf.rxDuringTx)]
    BY <1>6 DEF SetTermios
  <2>2. /\ Awake /\ Spend("termios") /\ UNCHANGED <<conf, port, asleep, wire, written, dropped>>
        /\ mishaps' = IF conf.rs485 /\ u.tx # "off" THEN mishaps \cup {"termios"} ELSE mishaps
    BY <1>6 DEF SetTermios
  <2>3. budget' \in [BudgetKinds -> Nat]
    BY <1>a, <2>2, SpendKeeps DEF BudgetKinds
  <2>4. mishaps \subseteq mishaps' /\ mishaps' \subseteq Mishaps
    BY <1>a, <2>2 DEF Mishaps
  <2> DEFINE v == RtsIdle(u)
             hears == v.rxEn \/ (rs485 /\ conf.rxDuringTx)
  <2>5. /\ v \in Ports(written) /\ v.dmaOn = u.dmaOn /\ v.cb = u.cb /\ v.txing = u.txing
        /\ v.dma = u.dma /\ v.tx = u.tx /\ v.fifo = u.fifo
        /\ v.trdyEn = u.trdyEn /\ v.tcEn = u.tcEn
    BY <1>a, RtsIdleKeeps
  <2>6. hears \in BOOLEAN
    OBVIOUS
  <2> HIDE DEF v
  <2>7. u' = [v EXCEPT !.rxEn = hears]
    BY <2>1, <2>5 DEF Ports, v
  <2> HIDE DEF hears
  <2>8. u' \in Ports(written) /\ Starts(u, u')
    BY <2>5, <2>6, <2>7 DEF Ports, Starts
  <2>9. Undisturbed' /\ conf.rs485 /\ LineHeld(u) => LineHeld(u')
    <3>1. SUFFICES ASSUME "termios" \notin mishaps', conf.rs485, LineHeld(u)
                   PROVE  LineHeld(u')
      BY DEF Undisturbed
    <3>2. u.tx = "off" /\ u.txing = FALSE /\ u.fifo = <<>>
      BY <2>2, <3>1 DEF LineHeld
    <3>3. /\ u'.tx = "off" /\ u'.txing = FALSE /\ u'.fifo = <<>>
          /\ u'.trdyEn = u.trdyEn /\ u'.tcEn = u.tcEn
      BY <2>5, <2>6, <2>7, <3>2 DEF Ports
    <3> QED
      BY <3>1, <3>2, <3>3 DEF LineHeld
  <2> QED
    BY <1>a, <1>c, <2>2, <2>3, <2>4, <2>8, <2>9, AskedKeeps
<1> QED
  BY <1>1, <1>2, <1>3, <1>4, <1>5, <1>6 DEF Tty

-----------------------------------------------------------------------------
\* A port that is opened: nothing is in its FIFO.
LEMMA StartedKeeps ==
  ASSUME NEW n \in Nat, NEW v \in Ports(n), NEW dmaInited \in BOOLEAN
  PROVE  LET w == RtsIdle(Started(v, dmaInited))
         IN  /\ w \in Ports(n) /\ w.dmaOn = dmaInited /\ w.cb = v.cb /\ w.dma = v.dma
             /\ w.txing = v.txing /\ w.tx = v.tx /\ w.fifo = <<>>
             /\ w.trdyEn = v.trdyEn /\ w.tcEn = v.tcEn
<1> DEFINE w == Started(v, dmaInited)
<1>1. \A S : <<>> \in Seq(S) /\ Len(<<>>) = 0
  OBVIOUS
<1>2. 0 <= FifoSize
  BY ImxUartAssumption
<1>3. /\ w \in Ports(n) /\ w.dmaOn = dmaInited /\ w.cb = v.cb /\ w.dma = v.dma
      /\ w.txing = v.txing /\ w.tx = v.tx /\ w.fifo = <<>>
      /\ w.trdyEn = v.trdyEn /\ w.tcEn = v.tcEn
  BY <1>1, <1>2 DEF Started, Ports
<1> HIDE DEF w
<1>4. /\ RtsIdle(w) \in Ports(n) /\ RtsIdle(w).dmaOn = w.dmaOn /\ RtsIdle(w).cb = w.cb
      /\ RtsIdle(w).dma = w.dma /\ RtsIdle(w).txing = w.txing /\ RtsIdle(w).tx = w.tx
      /\ RtsIdle(w).fifo = w.fifo /\ RtsIdle(w).trdyEn = w.trdyEn /\ RtsIdle(w).tcEn = w.tcEn
  BY <1>3, RtsIdleKeeps
<1> QED
  BY <1>3, <1>4 DEF w

\* Opening, closing, suspend and resume.
LEMMA OpsKeep == IInv /\ Ops => IInv'
<1> SUFFICES ASSUME IInv, Ops PROVE IInv'
  OBVIOUS
<1>a. /\ written \in Nat /\ u \in Ports(written) /\ TypesInv
      /\ wire \in Seq(1 .. written) /\ dropped \subseteq 1 .. written
      /\ conf \in [ConfFields -> BOOLEAN] /\ budget \in [BudgetKinds -> Nat]
      /\ mishaps \subseteq Mishaps /\ asleep \in BOOLEAN /\ conf \in Confs
  BY ImxUartAssumption DEF IInv, TypesInv
<1>b. Undisturbed /\ conf.rs485 => LineHeld(u)
  BY DEF IInv, LineInv, Undisturbed
<1>c. \A S : <<>> \in Seq(S) /\ Len(<<>>) = 0
  OBVIOUS
<1>d. 0 <= RingSize
  BY ImxUartAssumption
<1>e. /\ u.ring \in Seq(1 .. written) /\ u.fifo \in Seq(0 .. written)
      /\ BytesOf(u.fifo) \subseteq 1 .. written /\ ToSet(u.ring) \subseteq 1 .. written
  <2>1. u.ring \in Seq(1 .. written) /\ u.fifo \in Seq(0 .. written)
    BY <1>a DEF Ports
  <2>2. BytesOf(u.fifo) \subseteq 1 .. written
    BY <1>a, <2>1, BytesOfIn
  <2>3. ToSet(u.ring) \subseteq 1 .. written
    BY <2>1, ToSetIn
  <2> QED
    BY <2>1, <2>2, <2>3
<1>f. \A x \in {FALSE, conf.dma} : x \in BOOLEAN /\ (x => conf.dma)
  BY <1>a DEF ConfFields
<1>1. CASE Startup
  <2>1. PICK dmaInited \in {FALSE, conf.dma} : u' = RtsIdle(Started(u, dmaInited))
    BY <1>1 DEF Startup
  <2>2. /\ port = "closed" /\ port' = "open" /\ dropped' = dropped \cup BytesOf(u.fifo)
        /\ UNCHANGED <<conf, budget, asleep, wire, written, mishaps>>
    BY <1>1 DEF Startup
  <2>3. dmaInited \in BOOLEAN
    BY <1>f, <2>1
  <2>4. /\ u' \in Ports(written) /\ u'.dmaOn = dmaInited /\ u'.cb = u.cb /\ u'.dma = u.dma
        /\ u'.txing = u.txing /\ u'.tx = u.tx /\ u'.fifo = <<>>
        /\ u'.trdyEn = u.trdyEn /\ u'.tcEn = u.tcEn
    BY <1>a, <2>1, <2>3, StartedKeeps
  <2>5. TypesInv'
    BY <1>a, <1>e, <2>2, <2>4 DEF TypesInv
  <2>6. DmaInv'
    BY <1>f, <2>1, <2>2, <2>4 DEF IInv, DmaInv
  <2>7. ClosedInv'
    BY <2>2 DEF ClosedInv
  <2>8. LineInv'
    BY <2>2, <2>4 DEF IInv, ClosedInv, LineInv, Undisturbed, LineHeld
  <2> QED
    BY <2>5, <2>6, <2>7, <2>8 DEF IInv
<1>2. CASE Resume
  <2>1. PICK dmaInited \in {FALSE, conf.dma} :
          /\ u' = StartTx(RtsIdle(Started(u, dmaInited)), TRUE)
          /\ mishaps' = IF conf.rs485 /\ dmaInited /\ u.stopped /\ u.ring # <<>>
                        THEN mishaps \cup {"held"} ELSE mishaps
    BY <1>2 DEF Resume
  <2>2. /\ port = "closed" /\ port' = "open" /\ asleep' = FALSE
        /\ dropped' = dropped \cup BytesOf(u.fifo)
        /\ UNCHANGED <<conf, budget, wire, written>>
    BY <1>2 DEF Resume
  <2>3. dmaInited \in BOOLEAN
    BY <1>f, <2>1
  <2> DEFINE v == RtsIdle(Started(u, dmaInited))
  <2>4. /\ v \in Ports(written) /\ v.dmaOn = dmaInited /\ v.cb = u.cb /\ v.dma = u.dma
        /\ v.txing = u.txing /\ v.tx = u.tx /\ v.fifo = <<>>
        /\ v.trdyEn = u.trdyEn /\ v.tcEn = u.tcEn
    BY <1>a, <2>3, StartedKeeps
  <2>5. u' = StartTx(v, TRUE)
    BY <2>1
  <2> HIDE DEF v
  <2>6. /\ u' \in Ports(written) /\ Starts(v, u')
        /\ conf.rs485 /\ LineHeld(v) => LineHeld(u')
    BY <1>a, <2>4, <2>5, StartTxKeeps
  <2>7. mishaps \subseteq mishaps' /\ mishaps' \subseteq Mishaps
    BY <1>a, <2>1 DEF Mishaps
  <2>8. TypesInv'
    BY <1>a, <1>e, <2>2, <2>6, <2>7 DEF TypesInv
  <2>9. DmaInv'
    BY <1>f, <2>1, <2>2, <2>4, <2>6, <2>7 DEF IInv, DmaInv, Starts
  <2>10. ClosedInv'
    BY <2>2 DEF ClosedInv
  <2>11. LineInv'
    <3>1. SUFFICES ASSUME Undisturbed, conf.rs485 PROVE LineHeld(u')
      BY <2>2, <2>7 DEF LineInv, Undisturbed, LineHeld
    <3>2. LineHeld(v)
      BY <2>2, <2>4, <3>1 DEF IInv, ClosedInv, LineInv, Undisturbed, LineHeld
    <3> QED
      BY <2>6, <3>1, <3>2
  <2> QED
    BY <2>8, <2>9, <2>10, <2>11 DEF IInv
<1>3. CASE Suspend
  <2> DEFINE v == StopTx(u)
  <2>1. /\ Awake /\ Spend("ops") /\ asleep' = TRUE /\ u' = [v EXCEPT !.rxEn = FALSE]
        /\ UNCHANGED <<conf, port, wire, written, dropped, mishaps>>
    BY <1>3 DEF Suspend
  <2>2. /\ v \in Ports(written) /\ Starts(u, v) /\ (conf.rs485 /\ LineHeld(u) => LineHeld(v))
    BY <1>a, StopTxKeeps DEF Transfer, Starts
  <2> HIDE DEF v
  <2>3. u' \in Ports(written) /\ Starts(v, u') /\ (LineHeld(v) => LineHeld(u'))
    BY <2>1, <2>2 DEF Ports, Starts, LineHeld
  <2>4. Starts(u, u')
    BY <2>2, <2>3 DEF Starts
  <2>5. budget' \in [BudgetKinds -> Nat]
    BY <1>a, <2>1, SpendKeeps DEF BudgetKinds
  <2> QED
    BY <1>a, <1>b, <2>1, <2>2, <2>3, <2>4, <2>5, AskedKeeps
<1>4. CASE ShutdownTerminate
  <2>1. /\ Leaving /\ port' = "terminated"
        /\ u' = [u EXCEPT !.dma = <<>>, !.cb = FALSE, !.txing = FALSE]
        /\ mishaps' = IF u.txing THEN mishaps \cup {"cut"} ELSE mishaps
        /\ UNCHANGED <<conf, asleep, wire, written, dropped>>
    BY <1>4 DEF ShutdownTerminate
  <2>2. /\ u' \in Ports(written) /\ u'.dmaOn = u.dmaOn /\ ~u'.cb /\ u'.dma = <<>> /\ ~u'.txing
        /\ (LineHeld(u) => LineHeld(u'))
    BY <1>a, <1>c, <2>1 DEF Ports, LineHeld
  <2>3. mishaps \subseteq mishaps' /\ mishaps' \subseteq Mishaps
    BY <1>a, <2>1 DEF Mishaps
  <2>4. budget' \in [BudgetKinds -> Nat]
    BY <1>a, <2>1, SpendKeeps DEF Leaving, BudgetKinds
  <2>5. TypesInv'
    BY <1>a, <2>1, <2>2, <2>3, <2>4 DEF TypesInv
  <2>6. DmaInv'
    BY <2>1, <2>2 DEF IInv, DmaInv
  <2>7. ClosedInv'
    BY <2>1 DEF ClosedInv
  <2>8. LineInv'
    BY <1>b, <2>1, <2>2, <2>3 DEF LineInv, Undisturbed, LineHeld
  <2> QED
    BY <2>5, <2>6, <2>7, <2>8 DEF IInv
<1>5. CASE ShutdownStop
  <2> DEFINE v == StopTx(u)
  <2>1. /\ port = "terminated" /\ port' = "stopped"
        /\ u' = [v EXCEPT !.rxEn = FALSE, !.txDmaEn = FALSE, !.dmaOn = FALSE]
        /\ UNCHANGED <<conf, budget, asleep, wire, written, dropped, mishaps>>
    BY <1>5 DEF ShutdownStop
  <2>2. /\ v \in Ports(written) /\ Starts(u, v) /\ (conf.rs485 /\ LineHeld(u) => LineHeld(v))
    BY <1>a, StopTxKeeps DEF Transfer, Starts
  <2> HIDE DEF v
  <2>3. /\ u' \in Ports(written) /\ ~u'.dmaOn /\ u'.cb = v.cb /\ u'.dma = v.dma
        /\ u'.txing = v.txing /\ (LineHeld(v) => LineHeld(u'))
    BY <2>1, <2>2 DEF Ports, LineHeld
  <2>4. TypesInv'
    BY <1>a, <2>1, <2>3 DEF TypesInv
  <2>5. DmaInv'
    BY <2>1, <2>2, <2>3 DEF IInv, DmaInv, Starts
  <2>6. ClosedInv'
    BY <2>1, <2>3 DEF ClosedInv
  <2>7. LineInv'
    BY <1>b, <2>1, <2>2, <2>3 DEF LineInv, Undisturbed, LineHeld
  <2> QED
    BY <2>4, <2>5, <2>6, <2>7 DEF IInv
<1>6. CASE ShutdownDisable
  <2>1. /\ IF port = "stopped" THEN UNCHANGED budget ELSE ~u.dmaOn /\ Leaving
        /\ port' = "disabled" /\ u' = [u EXCEPT !.dma = <<>>, !.cb = FALSE]
        /\ mishaps' = IF u.txing THEN mishaps \cup {"cut"} ELSE mishaps
        /\ UNCHANGED <<conf, asleep, wire, written, dropped>>
    BY <1>6 DEF ShutdownDisable
  <2>2. /\ u' \in Ports(written) /\ u'.dmaOn = u.dmaOn /\ ~u'.cb /\ u'.dma = <<>>
        /\ u'.txing = u.txing /\ (LineHeld(u) => LineHeld(u'))
    BY <1>a, <1>c, <2>1 DEF Ports, LineHeld
  <2>3. mishaps \subseteq mishaps' /\ mishaps' \subseteq Mishaps
    BY <1>a, <2>1 DEF Mishaps
  <2>4. budget' \in [BudgetKinds -> Nat]
    BY <1>a, <2>1, SpendKeeps DEF Leaving, BudgetKinds
  <2>5. TypesInv'
    BY <1>a, <2>1, <2>2, <2>3, <2>4 DEF TypesInv
  <2>6. DmaInv'
    BY <2>1, <2>2 DEF IInv, DmaInv
  <2>7. ClosedInv'
    BY <2>1, <2>2 DEF IInv, ClosedInv
  <2>8. LineInv'
    BY <1>b, <2>1, <2>2, <2>3 DEF LineInv, Undisturbed, LineHeld
  <2> QED
    BY <2>5, <2>6, <2>7, <2>8 DEF IInv
<1>7. CASE ShutdownEnd
  <2> DEFINE rest == IF asleep THEN u.ring ELSE <<>>
  <2>1. /\ port = "disabled" /\ port' = "closed"
        /\ u' = [u EXCEPT !.trdyEn = FALSE, !.tcEn = FALSE, !.ring = IF asleep THEN @ ELSE <<>>]
        /\ dropped' = IF asleep THEN dropped ELSE dropped \cup ToSet(u.ring)
        /\ mishaps' = IF \/ u.startTimer \cup u.stopTimer # {}
                         \/ conf.rs485 /\ u.tx # "off"
                         \/ u.xchar /\ ~asleep
                      THEN mishaps \cup {"cut"} ELSE mishaps
        /\ UNCHANGED <<conf, budget, asleep, wire, written>>
    BY <1>7 DEF ShutdownEnd
  <2>2. u' = [u EXCEPT !.trdyEn = FALSE, !.tcEn = FALSE, !.ring = rest]
    BY <1>a, <2>1 DEF Ports
  <2>3. rest \in Seq(1 .. written) /\ Len(rest) <= RingSize
    BY <1>a, <1>c, <1>d DEF Ports
  <2> HIDE DEF rest
  <2>4. /\ u' \in Ports(written) /\ u'.dmaOn = u.dmaOn /\ u'.cb = u.cb /\ u'.dma = u.dma
        /\ u'.txing = u.txing /\ ~u'.trdyEn /\ ~u'.tcEn /\ u'.tx = u.tx
        /\ u'.startTimer = u.startTimer /\ u'.stopTimer = u.stopTimer
        /\ (LineHeld(u) => LineHeld(u'))
    BY <1>a, <2>2, <2>3 DEF Ports, LineHeld
  <2>5. mishaps \subseteq mishaps' /\ mishaps' \subseteq Mishaps
    BY <1>a, <2>1 DEF Mishaps
  <2>6. TypesInv'
    BY <1>a, <1>e, <2>1, <2>4, <2>5 DEF TypesInv
  <2>7. DmaInv'
    BY <2>1, <2>4, <2>5 DEF IInv, DmaInv
  <2>8. ClosedInv'
    BY <2>1, <2>4 DEF IInv, ClosedInv
  <2>9. LineInv'
    BY <1>b, <2>1, <2>4, <2>5 DEF LineInv, Undisturbed, LineHeld
  <2> QED
    BY <2>6, <2>7, <2>8, <2>9 DEF IInv
<1>8. CASE ReopenFails
  <2>1. /\ port = "closed" /\ u' = [u EXCEPT !.ring = <<>>] /\ asleep' = FALSE
        /\ dropped' = dropped \cup ToSet(u.ring) /\ Spend("fail")
        /\ mishaps' = IF u.xchar THEN mishaps \cup {"cut"} ELSE mishaps
        /\ UNCHANGED <<conf, port, wire, written>>
    BY <1>8 DEF ReopenFails
  <2>2. <<>> \in Seq(1 .. written) /\ Len(<<>>) = 0 /\ 0 <= RingSize
    BY ImxUartAssumption
  <2>3. /\ u' \in Ports(written) /\ u'.dmaOn = u.dmaOn /\ u'.cb = u.cb /\ u'.dma = u.dma
        /\ u'.txing = u.txing /\ u'.trdyEn = u.trdyEn /\ u'.tcEn = u.tcEn /\ u'.tx = u.tx
        /\ u'.startTimer = u.startTimer /\ u'.stopTimer = u.stopTimer
        /\ (LineHeld(u) => LineHeld(u'))
    BY <1>a, <2>1, <2>2 DEF Ports, LineHeld
  <2>4. ToSet(u.ring) \subseteq 1 .. written
    BY <1>a, ToSetIn DEF Ports
  <2>5. mishaps \subseteq mishaps' /\ mishaps' \subseteq Mishaps
    BY <1>a, <2>1 DEF Mishaps
  <2>6. budget' \in [BudgetKinds -> Nat]
    BY <1>a, <2>1, SpendKeeps DEF BudgetKinds
  <2>7. TypesInv'
    BY <1>a, <2>1, <2>3, <2>4, <2>5, <2>6 DEF TypesInv
  <2>8. DmaInv' /\ ClosedInv'
    BY <2>1, <2>3, <2>5 DEF IInv, DmaInv, ClosedInv
  <2>9. LineInv'
    BY <1>b, <2>1, <2>3, <2>5 DEF LineInv, Undisturbed, LineHeld
  <2> QED
    BY <2>7, <2>8, <2>9 DEF IInv
<1> QED
  BY <1>1, <1>2, <1>3, <1>4, <1>5, <1>6, <1>7, <1>8 DEF Ops, Shutdown

\* IInv is inductive.
LEMMA NextIInv == IInv /\ [Next]_vars => IInv'
<1>1. ASSUME IInv, UNCHANGED vars PROVE IInv'
  BY <1>1 DEF vars, IInv, TypesInv, DmaInv, ClosedInv, LineInv, Undisturbed, LineHeld
<1> QED
  BY <1>1, HandlersKeep, HardwareKeeps, TtyKeeps, OpsKeep DEF Next

-----------------------------------------------------------------------------
(* Sequences of bytes in order                                             *)

\* Every byte is greater than what is before it; a flow control character may be anywhere.
Rising(s) == \A i, j \in 1 .. Len(s) : i < j /\ s[j] # XCHAR => s[i] < s[j]

Before(S, T) == \A a \in S, b \in T : b # XCHAR => a < b

\* What ToSet is in terms of the length.
LEMMA ToSetOf ==
  ASSUME NEW S, NEW s \in Seq(S)
  PROVE  /\ Len(s) \in Nat /\ ToSet(s) = {s[i] : i \in 1 .. Len(s)}
         /\ \A i \in 1 .. Len(s) : s[i] \in S /\ s[i] \in ToSet(s)
<1>1. Len(s) \in Nat /\ \A i \in 1 .. Len(s) : s[i] \in S
  BY LenProperties, ElementOfSeq
<1>2. DOMAIN s = 1 .. Len(s)
  BY LenProperties
<1> QED
  BY <1>1, <1>2, Zenon DEF ToSet

\* No bytes are in order.
LEMMA NothingIsInOrder == Rising(<<>>) /\ ToSet(<<>>) = {}
BY DEF Rising, ToSet

\* A byte that is greater than all is appended in order; so is a flow control character.
LEMMA AppendIsInOrder ==
  ASSUME NEW n \in Nat, NEW s \in Seq(0 .. n), NEW x \in 0 .. n
  PROVE  /\ ToSet(Append(s, x)) = ToSet(s) \cup {x}
         /\ Rising(s) /\ Before(ToSet(s), {x}) => Rising(Append(s, x))
<1> DEFINE t == Append(s, x)
           l == Len(s)
<1>1. /\ t \in Seq(0 .. n) /\ Len(t) = l + 1 /\ l \in Nat
      /\ \A i \in 1 .. l : t[i] = s[i]
      /\ t[l + 1] = x
  BY AppendProperties, LenProperties
<1>2. \A i \in 1 .. l + 1 : i \in 1 .. l \/ i = l + 1
  BY <1>1
<1>3. 1 .. l \subseteq 1 .. l + 1 /\ l + 1 \in 1 .. l + 1
  BY <1>1
<1>4. ToSet(t) = {t[i] : i \in 1 .. l + 1} /\ ToSet(s) = {s[i] : i \in 1 .. l}
  BY <1>1, ToSetOf
<1> HIDE DEF t, l
<1>5. ToSet(t) = ToSet(s) \cup {x}
  BY <1>1, <1>2, <1>3, <1>4, Zenon
<1>6. ASSUME Rising(s), Before(ToSet(s), {x}) PROVE Rising(t)
  <2> SUFFICES ASSUME NEW i \in 1 .. l + 1, NEW j \in 1 .. l + 1, i < j, t[j] # XCHAR
               PROVE  t[i] < t[j]
    BY <1>1 DEF Rising
  <2>1. i \in 1 .. l
    BY <1>1
  <2>2. CASE j \in 1 .. l
    BY <1>1, <1>6, <2>1, <2>2 DEF Rising, l
  <2>3. CASE j = l + 1
    <3>1. s[i] \in ToSet(s)
      BY <1>4, <2>1
    <3> QED
      BY <1>1, <1>6, <2>1, <2>3, <3>1 DEF Before
  <2> QED
    BY <1>2, <2>2, <2>3
<1> QED
  BY <1>5, <1>6 DEF t

\* Two sequences of which one is before the other.
LEMMA ConcatIsInOrder ==
  ASSUME NEW n \in Nat, NEW s \in Seq(0 .. n), NEW t \in Seq(0 .. n)
  PROVE  /\ s \o t \in Seq(0 .. n) /\ ToSet(s \o t) = ToSet(s) \cup ToSet(t)
         /\ Rising(s) /\ Rising(t) /\ Before(ToSet(s), ToSet(t)) => Rising(s \o t)
<1> DEFINE w == s \o t
           l == Len(s)
           k == Len(t)
<1>1. /\ w \in Seq(0 .. n) /\ Len(w) = l + k /\ l \in Nat /\ k \in Nat
      /\ \A i \in 1 .. l + k : w[i] = IF i <= l THEN s[i] ELSE t[i - l]
  BY ConcatProperties, LenProperties
<1>n. l \in Nat /\ k \in Nat
  BY <1>1
<1>2. /\ \A i \in 1 .. l + k : i \in 1 .. l \/ i - l \in 1 .. k
      /\ \A i \in 1 .. l : i \in 1 .. l + k
      /\ \A i \in 1 .. k : i + l \in 1 .. l + k /\ ~(i + l <= l) /\ (i + l) - l = i
      /\ \A i \in 1 .. l + k : i <= l <=> i \in 1 .. l
  BY <1>1
<1>3. /\ ToSet(w) = {w[i] : i \in 1 .. l + k}
      /\ ToSet(s) = {s[i] : i \in 1 .. l} /\ ToSet(t) = {t[i] : i \in 1 .. k}
  <2>1. ToSet(w) = {w[i] : i \in 1 .. Len(w)}
    BY <1>1, ToSetOf
  <2>2. ToSet(s) = {s[i] : i \in 1 .. Len(s)} /\ ToSet(t) = {t[i] : i \in 1 .. Len(t)}
    BY ToSetOf
  <2> QED
    BY <1>1, <2>1, <2>2
<1> HIDE DEF w, l, k
<1>4. ToSet(w) = ToSet(s) \cup ToSet(t)
  <2>1. ASSUME NEW a \in ToSet(w) PROVE a \in ToSet(s) \cup ToSet(t)
    <3>1. PICK i \in 1 .. l + k : a = w[i]
      BY <1>3, <2>1, Zenon
    <3>2. CASE i \in 1 .. l
      <4>1. a = s[i]
        BY <1>1, <1>2, <3>1, <3>2
      <4> QED
        BY <1>3, <3>2, <4>1, Zenon
    <3>3. CASE ~(i \in 1 .. l)
      <4>1. a = t[i - l] /\ i - l \in 1 .. k
        BY <1>1, <1>2, <3>1, <3>3
      <4> QED
        BY <1>3, <4>1, Zenon
    <3> QED
      BY <3>2, <3>3
  <2>2. ASSUME NEW a \in ToSet(s) PROVE a \in ToSet(w)
    <3>1. PICK i \in 1 .. l : a = s[i]
      BY <1>3, <2>2, Zenon
    <3>2. w[i] = s[i] /\ i \in 1 .. l + k
      BY <1>1, <1>2
    <3> QED
      BY <1>3, <3>1, <3>2, Zenon
  <2>3. ASSUME NEW a \in ToSet(t) PROVE a \in ToSet(w)
    <3>1. PICK i \in 1 .. k : a = t[i]
      BY <1>3, <2>3, Zenon
    <3>2. w[i + l] = t[i] /\ i + l \in 1 .. l + k
      BY <1>1, <1>2
    <3> QED
      BY <1>3, <3>1, <3>2, Zenon
  <2> QED
    BY <2>1, <2>2, <2>3
<1>5. ASSUME Rising(s), Rising(t), Before(ToSet(s), ToSet(t)) PROVE Rising(w)
  <2> SUFFICES ASSUME NEW i \in 1 .. l + k, NEW j \in 1 .. l + k, i < j, w[j] # XCHAR
               PROVE  w[i] < w[j]
    BY <1>1 DEF Rising
  <2>1. CASE j <= l
    <3>1. i \in 1 .. l /\ j \in 1 .. l /\ w[i] = s[i] /\ w[j] = s[j]
      BY <1>1, <2>1
    <3> QED
      BY <1>5, <3>1 DEF Rising, l
  <2>2. CASE ~(j <= l) /\ i <= l
    <3>a. i \in 1 .. l /\ j - l \in 1 .. k
      BY <1>n, <2>2
    <3>1. i \in 1 .. l /\ j - l \in 1 .. k /\ w[i] = s[i] /\ w[j] = t[j - l]
      BY <1>1, <2>2, <3>a
    <3>2. w[i] \in ToSet(s) /\ w[j] \in ToSet(t)
      BY <1>3, <3>1
    <3> QED
      BY <1>5, <3>2 DEF Before
  <2>3. CASE ~(j <= l) /\ ~(i <= l)
    <3>a. i - l \in 1 .. k /\ j - l \in 1 .. k /\ i - l < j - l
      BY <1>n, <2>3
    <3>1. /\ i - l \in 1 .. k /\ j - l \in 1 .. k /\ i - l < j - l
          /\ w[i] = t[i - l] /\ w[j] = t[j - l]
      BY <1>1, <2>3, <3>a
    <3> QED
      BY <1>5, <3>1 DEF Rising, k
  <2> QED
    BY <2>1, <2>2, <2>3
<1> QED
  BY <1>1, <1>4, <1>5 DEF w

\* The first byte is before the rest.
LEMMA TailIsInOrder ==
  ASSUME NEW n \in Nat, NEW s \in Seq(0 .. n), s # <<>>
  PROVE  /\ ToSet(s) = {Head(s)} \cup ToSet(Tail(s))
         /\ Rising(s) => Rising(Tail(s)) /\ Before({Head(s)}, ToSet(Tail(s)))
<1> DEFINE t == Tail(s)
           l == Len(s)
<1>1. /\ t \in Seq(0 .. n) /\ Len(t) = l - 1 /\ l \in Nat /\ l - 1 \in Nat
      /\ \A i \in 1 .. l - 1 : t[i] = s[i + 1]
      /\ Head(s) = s[1]
  <2>1. t \in Seq(0 .. n) /\ Len(t) = l - 1 /\ \A i \in 1 .. Len(t) : t[i] = s[i + 1]
    BY HeadTailProperties
  <2>2. Len(t) \in Nat /\ l \in Nat
    BY <2>1, LenProperties
  <2>3. Head(s) = s[1]
    OBVIOUS
  <2> QED
    BY <2>1, <2>2, <2>3
<1>2. /\ ToSet(t) = {t[i] : i \in 1 .. l - 1} /\ ToSet(s) = {s[i] : i \in 1 .. l}
      /\ \A i \in 1 .. l : s[i] \in 0 .. n
  <2>1. ToSet(t) = {t[i] : i \in 1 .. Len(t)}
    BY <1>1, ToSetOf
  <2>2. ToSet(s) = {s[i] : i \in 1 .. Len(s)} /\ \A i \in 1 .. Len(s) : s[i] \in 0 .. n
    BY ToSetOf
  <2> QED
    BY <1>1, <2>1, <2>2
<1>3. /\ \A i \in 1 .. l : i = 1 \/ (i - 1 \in 1 .. l - 1 /\ (i - 1) + 1 = i)
      /\ \A i \in 1 .. l - 1 : i + 1 \in 1 .. l
      /\ 1 \in 1 .. l
  BY <1>1
<1> DEFINE h == Head(s)
<1> HIDE DEF t, l, h
<1>4. ToSet(s) = {h} \cup ToSet(t)
  <2>1. ASSUME NEW a \in ToSet(s) PROVE a \in {h} \cup ToSet(t)
    <3>1. PICK i \in 1 .. l : a = s[i]
      BY <1>2
    <3>2. CASE i = 1
      BY <1>1, <3>1, <3>2 DEF h
    <3>3. CASE i - 1 \in 1 .. l - 1 /\ (i - 1) + 1 = i
      <4>1. t[i - 1] = s[i]
        BY <1>1, <3>3
      <4> QED
        BY <1>2, <3>1, <3>3, <4>1, Zenon
    <3> QED
      BY <1>3, <3>2, <3>3
  <2>2. h \in ToSet(s)
    BY <1>1, <1>2, <1>3, Zenon DEF h
  <2>3. ASSUME NEW a \in ToSet(t) PROVE a \in ToSet(s)
    BY <1>1, <1>2, <1>3, Zenon
  <2> QED
    BY <2>1, <2>2, <2>3
<1>5. ASSUME Rising(s) PROVE Rising(t) /\ Before({h}, ToSet(t))
  <2>1. ASSUME NEW i \in 1 .. l - 1, NEW j \in 1 .. l - 1, i < j, t[j] # XCHAR
        PROVE  t[i] < t[j]
    <3>1. /\ i + 1 \in 1 .. l /\ j + 1 \in 1 .. l /\ i + 1 < j + 1
          /\ t[i] = s[i + 1] /\ t[j] = s[j + 1]
      BY <1>1, <1>3, <2>1
    <3> QED
      BY <1>5, <2>1, <3>1 DEF Rising, l
  <2>2. ASSUME NEW b \in ToSet(t), b # XCHAR PROVE h < b
    <3>1. PICK i \in 1 .. l - 1 : b = t[i]
      BY <1>2
    <3>2. i + 1 \in 1 .. l /\ 1 \in 1 .. l /\ 1 < i + 1 /\ b = s[i + 1]
      BY <1>1, <1>3, <3>1
    <3> QED
      BY <1>1, <1>5, <2>2, <3>2 DEF Rising, l, h
  <2> QED
    BY <1>1, <2>1, <2>2 DEF Rising, Before
<1> QED
  BY <1>4, <1>5 DEF t, h

\* Some bytes in a row.
LEMMA PartIsInOrder ==
  ASSUME NEW n \in Nat, NEW s \in Seq(0 .. n), NEW a \in Nat \ {0}, NEW b \in 0 .. Len(s)
  PROVE  /\ ToSet(SubSeq(s, a, b)) = {s[i] : i \in a .. b}
         /\ Rising(s) => Rising(SubSeq(s, a, b))
<1> DEFINE t == SubSeq(s, a, b)
           l == IF a <= b THEN b - a + 1 ELSE 0
<1>1. /\ Len(s) \in Nat /\ \A i \in 1 .. Len(s) : s[i] \in 0 .. n
  BY ToSetOf
<1>2. \A i \in a .. b : i \in 1 .. Len(s)
  BY <1>1
<1>3. \A i \in a .. b : s[i] \in 0 .. n
  BY <1>1, <1>2
<1>4. a \in Int /\ b \in Int
  BY <1>1
<1>5. /\ t \in Seq(0 .. n) /\ Len(t) = l
      /\ \A i \in 1 .. b - a + 1 : t[i] = s[a + i - 1]
  BY <1>3, <1>4, SubSeqProperties
<1>6. /\ l \in Nat /\ \A i \in 1 .. l : a + i - 1 \in a .. b /\ i \in 1 .. b - a + 1
      /\ \A i \in a .. b : i - a + 1 \in 1 .. l /\ a + (i - a + 1) - 1 = i
  BY <1>4
<1>7. ToSet(t) = {t[i] : i \in 1 .. l}
  BY <1>5, ToSetOf
<1> HIDE DEF t, l
<1>8. ToSet(t) = {s[i] : i \in a .. b}
  <2>1. ASSUME NEW x \in ToSet(t) PROVE x \in {s[i] : i \in a .. b}
    <3>1. PICK i \in 1 .. l : x = t[i]
      BY <1>7, <2>1, Zenon
    <3>2. t[i] = s[a + i - 1] /\ a + i - 1 \in a .. b
      BY <1>5, <1>6
    <3> QED
      BY <3>1, <3>2, Zenon
  <2>2. ASSUME NEW i \in a .. b PROVE s[i] \in ToSet(t)
    <3>1. i - a + 1 \in 1 .. l /\ t[i - a + 1] = s[a + (i - a + 1) - 1]
      BY <1>5, <1>6
    <3>2. t[i - a + 1] = s[i]
      BY <1>6, <3>1
    <3> QED
      BY <1>7, <3>1, <3>2, Zenon
  <2> QED
    BY <2>1, <2>2
<1>9. ASSUME Rising(s) PROVE Rising(t)
  <2> SUFFICES ASSUME NEW i \in 1 .. l, NEW j \in 1 .. l, i < j, t[j] # XCHAR
               PROVE  t[i] < t[j]
    BY <1>5 DEF Rising
  <2>1. a + i - 1 \in a .. b /\ a + j - 1 \in a .. b
    BY <1>6
  <2>2. a + i - 1 \in 1 .. Len(s) /\ a + j - 1 \in 1 .. Len(s)
    BY <1>2, <2>1
  <2>3. t[i] = s[a + i - 1] /\ t[j] = s[a + j - 1]
    BY <1>5, <1>6
  <2>4. a + i - 1 < a + j - 1
    BY <1>4, <1>6
  <2> QED
    BY <1>9, <2>2, <2>3, <2>4 DEF Rising
<1> QED
  BY <1>8, <1>9 DEF t

-----------------------------------------------------------------------------
(* What is still to be sent, in the order in which it will be              *)

\* Past what a transfer works on, the ring still waits to be sent.
First(v) == (IF v.txing THEN v.txBytes ELSE 0) + 1
Ahead(v) == {v.ring[i] : i \in First(v) .. Len(v.ring)}

\* The FIFO goes before the transfer, and both before what waits in the ring.
Orderly(v) ==
  /\ Rising(v.fifo) /\ Rising(v.dma) /\ Rising(v.ring)
  /\ Before(ToSet(v.fifo), ToSet(v.dma)) /\ Before(ToSet(v.fifo) \cup ToSet(v.dma), Ahead(v))

InLine(v) == (ToSet(v.fifo) \cup ToSet(v.dma) \cup Ahead(v)) \ {XCHAR}

\* Nothing is lost, and the order stays.
Kept(v, w) == InLine(w) = InLine(v) /\ (Orderly(v) => Orderly(w))

\* The interrupts do not fill the FIFO while a transfer does, or before the line is taken.
Control(v) ==
  /\ v.txing => v.txBytes <= Len(v.ring) /\ ~v.tcEn
  /\ conf.rs485 /\ v.tx # "send" => ~v.txing /\ ~v.trdyEn /\ ~v.tcEn
  /\ conf.rs485 \/ v.tx \in {"off", "send"}

SameContent(v, w) ==
  /\ w.ring = v.ring /\ w.fifo = v.fifo /\ w.dma = v.dma
  /\ w.txing = v.txing /\ w.txBytes = v.txBytes

\* What does not touch ring, FIFO or transfer keeps them.
LEMMA SameIsKept == ASSUME NEW v, NEW w, SameContent(v, w) PROVE Kept(v, w)
BY DEF SameContent, Kept, InLine, Orderly, Ahead, First

\* Without a transfer the whole ring waits.
LEMMA WithoutTransfer ==
  ASSUME NEW n \in Nat, NEW v \in Ports(n), ~v.txing
  PROVE  Ahead(v) = ToSet(v.ring)
<1>1. v.ring \in Seq(1 .. n)
  BY DEF Ports
<1>2. First(v) = 1
  BY DEF First
<1> QED
  BY <1>1, <1>2, ToSetOf DEF Ahead

\* The sequences of a port, as the lemmas on order want them.
LEMMA PortSequences ==
  ASSUME NEW n \in Nat, NEW v \in Ports(n)
  PROVE  /\ v.ring \in Seq(0 .. n) /\ v.fifo \in Seq(0 .. n) /\ v.dma \in Seq(0 .. n)
         /\ v.ring \in Seq(1 .. n) /\ v.dma \in Seq(1 .. n)
         /\ Len(v.ring) \in Nat /\ v.txBytes \in Nat
         /\ ToSet(v.ring) \subseteq 1 .. n /\ ToSet(v.dma) \subseteq 1 .. n
         /\ ToSet(v.fifo) \subseteq 0 .. n /\ Ahead(v) \subseteq ToSet(v.ring)
<1>1. /\ v.ring \in Seq(1 .. n) /\ v.fifo \in Seq(0 .. n) /\ v.dma \in Seq(1 .. n)
      /\ v.txBytes \in 0 .. RingSize
  BY DEF Ports
<1>2. 1 .. n \subseteq 0 .. n /\ v.txBytes \in Nat
  BY <1>1, ImxUartAssumption
<1>3. v.ring \in Seq(0 .. n) /\ v.dma \in Seq(0 .. n)
  BY <1>1, <1>2, SeqMonotonic
<1>4. Len(v.ring) \in Nat /\ ToSet(v.ring) = {v.ring[i] : i \in 1 .. Len(v.ring)}
  BY <1>1, ToSetOf
<1>5. ToSet(v.ring) \subseteq 1 .. n
  BY <1>1, ToSetIn
<1>6. ToSet(v.dma) \subseteq 1 .. n
  BY <1>1, ToSetIn
<1>7. ToSet(v.fifo) \subseteq 0 .. n
  BY <1>1, ToSetIn
<1>8. Ahead(v) \subseteq ToSet(v.ring)
  <2>1. First(v) .. Len(v.ring) \subseteq 1 .. Len(v.ring)
    <3>1. First(v) \in Nat \ {0}
      <4>1. CASE v.txing
        BY <1>2, <4>1 DEF First
      <4>2. CASE ~v.txing
        BY <4>2 DEF First
      <4> QED
        BY <4>1, <4>2
    <3> QED
      BY <1>4, <3>1
  <2> QED
    BY <1>4, <2>1, Zenon DEF Ahead
<1> QED
  BY <1>1, <1>2, <1>3, <1>4, <1>5, <1>6, <1>7, <1>8

\* imx_uart_stop_tx changes what is enabled only.
LEMMA StopTxInOrder ==
  ASSUME NEW n \in Nat, NEW v \in Ports(n)
  PROVE  LET w == StopTx(v)
         IN  /\ SameContent(v, w) /\ (Control(v) => Control(w))
             /\ (w.trdyEn => v.trdyEn) /\ (w.txing => w = v)
<1> DEFINE w == [v EXCEPT !.trdyEn = FALSE, !.tcEn = FALSE]
<1> USE DEF SameContent, Control
<1>1. CASE v.tx = "off" \/ v.txing
  <2>1. StopTx(v) = v
    BY <1>1 DEF StopTx
  <2> QED
    BY <2>1
<1>2. CASE ~(v.tx = "off" \/ v.txing) /\ v.fifo # <<>>
  <2>1. StopTx(v) = [v EXCEPT !.trdyEn = FALSE]
    BY <1>2 DEF StopTx
  <2> QED
    BY <1>2, <2>1 DEF Ports
<1>3. CASE ~(v.tx = "off" \/ v.txing) /\ v.fifo = <<>>
  <2>1. /\ w \in Ports(n) /\ w.tx = v.tx /\ SameContent(v, w)
        /\ ~w.trdyEn /\ ~w.tcEn /\ ~w.txing
    BY <1>3 DEF Ports
  <2>2. CASE ~conf.rs485
    <3>1. StopTx(v) = [w EXCEPT !.tx = "off"]
      BY <1>3, <2>2 DEF StopTx
    <3> HIDE DEF w
    <3> QED
      BY <1>3, <2>1, <2>2, <3>1 DEF Ports
  <2>3. CASE conf.rs485 /\ w.tx = "send" /\ conf.after
    <3> DEFINE timer == Arm(w.stopTimer)
    <3>1. StopTx(v) = [w EXCEPT !.tx = "waitAfterSend", !.stopTimer = timer]
      BY <1>3, <2>3 DEF StopTx
    <3> HIDE DEF w, timer
    <3> QED
      BY <1>3, <2>1, <2>3, <3>1 DEF Ports
  <2>4. CASE conf.rs485 /\ ~(w.tx = "send" /\ conf.after)
    <3> DEFINE timer == TryToCancel(w.startTimer)
    <3>1. StopTx(v) = GiveBack([w EXCEPT !.startTimer = timer])
      BY <1>3, <2>4 DEF StopTx
    <3> HIDE DEF w, timer
    <3>3. StopTx(v) = [w EXCEPT !.startTimer = timer, !.rts = FALSE, !.rxEn = TRUE,
                                !.tx = "off"]
      BY <2>1, <3>1 DEF GiveBack, Ports
    <3> QED
      BY <1>3, <2>1, <2>4, <3>3 DEF Ports
  <2> QED
    BY <2>2, <2>3, <2>4
<1> QED
  BY <1>1, <1>2, <1>3

\* imx_uart_dma_tx takes all that waits, and it comes after what the transfer has left.
LEMMA DmaTxInOrder ==
  ASSUME NEW n \in Nat, NEW v \in Ports(n), NEW ok \in BOOLEAN,
         conf.rs485 => v.tx = "send"
  PROVE  LET w == DmaTx(v, ok)
         IN  /\ Kept(v, w) /\ (Control(v) => Control(w))
             /\ w.trdyEn = v.trdyEn
<1>1. CASE v.txing
  <2>1. DmaTx(v, ok) = v
    BY <1>1 DEF DmaTx
  <2> QED
    BY <2>1 DEF Kept
<1>2. CASE ~v.txing /\ ok
  <2> DEFINE sent == v.dma \o v.ring
             l == Len(v.ring)
             w == DmaTx(v, ok)
  <2>1. w = [v EXCEPT !.tcEn = FALSE, !.txBytes = l, !.txDmaEn = TRUE, !.txing = TRUE,
                      !.dma = sent]
    BY <1>2 DEF DmaTx
  <2>2. /\ v.ring \in Seq(0 .. n) /\ v.dma \in Seq(0 .. n) /\ l \in Nat
        /\ Ahead(v) = ToSet(v.ring)
    BY <1>2, PortSequences, WithoutTransfer
  <2>3. /\ ToSet(sent) = ToSet(v.dma) \cup ToSet(v.ring)
        /\ Rising(v.dma) /\ Rising(v.ring) /\ Before(ToSet(v.dma), ToSet(v.ring))
             => Rising(sent)
    BY <2>2, ConcatIsInOrder
  <2> HIDE DEF sent, l
  <2>4. /\ w.ring = v.ring /\ w.fifo = v.fifo /\ w.dma = sent /\ w.txing /\ w.txBytes = l
        /\ ~w.tcEn /\ w.tx = v.tx /\ w.trdyEn = v.trdyEn
    BY <2>1 DEF Ports
  <2> HIDE DEF w
  <2>5. Ahead(w) = {}
    <3>1. First(w) = l + 1 /\ Len(w.ring) = l
      BY <2>4 DEF First, l
    <3>2. First(w) .. Len(w.ring) = {}
      BY <2>2, <3>1
    <3> QED
      BY <3>2 DEF Ahead
  <2>6. InLine(w) = InLine(v)
    BY <2>2, <2>3, <2>4, <2>5 DEF InLine
  <2>7. ASSUME Orderly(v) PROVE Orderly(w)
    <3>1. Rising(w.fifo) /\ Rising(w.dma) /\ Rising(w.ring)
      <4>1. Before(ToSet(v.dma), ToSet(v.ring))
        BY <2>2, <2>7, Zenon DEF Orderly, Before
      <4> QED
        BY <2>3, <2>4, <2>7, <4>1 DEF Orderly
    <3>2. Before(ToSet(w.fifo), ToSet(w.dma))
      BY <2>2, <2>3, <2>4, <2>7, Zenon DEF Orderly, Before
    <3>3. Before(ToSet(w.fifo) \cup ToSet(w.dma), Ahead(w))
      BY <2>5, Zenon DEF Before
    <3> QED
      BY <3>1, <3>2, <3>3 DEF Orderly
  <2>8. Control(v) => Control(w)
    BY <2>2, <2>4 DEF Control, l
  <2> QED
    BY <2>4, <2>6, <2>7, <2>8 DEF Kept, w
<1>3. CASE ~v.txing /\ ~ok
  <2> DEFINE l == Len(v.ring)
             w == DmaTx(v, ok)
  <2>1. w = [v EXCEPT !.tcEn = FALSE, !.txBytes = l]
    BY <1>3 DEF DmaTx
  <2> HIDE DEF l
  <2>2. /\ w.ring = v.ring /\ w.fifo = v.fifo /\ w.dma = v.dma /\ ~w.txing
        /\ ~w.tcEn /\ w.tx = v.tx /\ w.trdyEn = v.trdyEn
    BY <1>3, <2>1 DEF Ports
  <2> HIDE DEF w
  <2>3. Ahead(w) = Ahead(v)
    BY <1>3, <2>2 DEF Ahead, First
  <2>4. Kept(v, w)
    BY <2>2, <2>3 DEF Kept, InLine, Orderly
  <2>5. Control(v) => Control(w)
    BY <1>3, <2>2 DEF Control
  <2> QED
    BY <2>2, <2>4, <2>5 DEF w
<1> QED
  BY <1>1, <1>2, <1>3

\* One change after the other.
LEMMA KeptTwice ==
  ASSUME NEW v, NEW x, NEW w, Kept(v, x), Kept(x, w)
  PROVE  Kept(v, w)
BY DEF Kept

\* What is the same at first is kept.
LEMMA SameThenKept ==
  ASSUME NEW v, NEW x, NEW w, SameContent(v, x), Kept(x, w)
  PROVE  Kept(v, w)
BY SameIsKept, KeptTwice

\* The end of imx_uart_start_tx.
LEMMA GoInOrder ==
  ASSUME NEW n \in Nat, NEW v \in Ports(n), NEW ok \in BOOLEAN,
         conf.rs485 => v.tx = "send"
  PROVE  LET w == Go(v, ok)
         IN  /\ Kept(v, w) /\ (Control(v) => Control(w))
             /\ w.txing /\ w.trdyEn => v.txing \/ v.trdyEn
<1> DEFINE w == Go(v, ok)
<1>1. CASE ~v.dmaOn
  <2>1. w = [v EXCEPT !.trdyEn = TRUE]
    BY <1>1 DEF Go
  <2>2. SameContent(v, w) /\ w.tx = v.tx /\ w.tcEn = v.tcEn
    BY <2>1 DEF Ports, SameContent
  <2> HIDE DEF w
  <2> QED
    BY <2>2, SameIsKept DEF SameContent, Control, w
<1>2. CASE v.dmaOn /\ v.xchar
  <2>1. w = [v EXCEPT !.txDmaEn = FALSE, !.trdyEn = TRUE]
    BY <1>2 DEF Go
  <2>2. SameContent(v, w) /\ w.tx = v.tx /\ w.tcEn = v.tcEn
    BY <2>1 DEF Ports, SameContent
  <2> HIDE DEF w
  <2> QED
    BY <2>2, SameIsKept DEF SameContent, Control, w
<1>3. CASE v.dmaOn /\ ~v.xchar /\ HasData(v)
  <2>1. w = DmaTx(v, ok)
    BY <1>3 DEF Go
  <2> HIDE DEF w
  <2> QED
    BY <2>1, DmaTxInOrder DEF w
<1>4. CASE v.dmaOn /\ ~v.xchar /\ ~HasData(v)
  <2>1. w = v
    BY <1>4 DEF Go
  <2> QED
    BY <2>1 DEF Kept
<1> QED
  BY <1>1, <1>2, <1>3, <1>4

\* imx_uart_start_tx.
LEMMA StartTxInOrder ==
  ASSUME NEW n \in Nat, NEW v \in Ports(n), NEW ok \in BOOLEAN,
         conf \in [ConfFields -> BOOLEAN], Control(v)
  PROVE  LET w == StartTx(v, ok)
         IN  /\ Kept(v, w) /\ Control(w)
             /\ w.txing /\ w.trdyEn => v.txing \/ v.trdyEn
<1>1. CASE ~v.xchar /\ v.ring = <<>>
  <2>1. StartTx(v, ok) = v
    BY <1>1 DEF StartTx
  <2> QED
    BY <2>1 DEF Kept
<1>2. CASE ~(~v.xchar /\ v.ring = <<>>) /\ ~conf.rs485
  <2> DEFINE x == [v EXCEPT !.tx = "send"]
             w == Go(x, ok)
  <2>1. StartTx(v, ok) = w
    BY <1>2 DEF StartTx
  <2>2. /\ x \in Ports(n) /\ SameContent(v, x) /\ x.tx = "send"
        /\ x.trdyEn = v.trdyEn /\ x.tcEn = v.tcEn
    BY DEF Ports, TxStates, SameContent
  <2> HIDE DEF x
  <2>3. Control(x)
    BY <1>2, <2>2 DEF Control, SameContent
  <2>4. Kept(x, w) /\ Control(w) /\ (w.txing /\ w.trdyEn => x.txing \/ x.trdyEn)
    BY <1>2, <2>2, <2>3, GoInOrder
  <2> HIDE DEF w
  <2>5. Kept(v, w)
    BY <2>2, <2>4, SameThenKept
  <2> QED
    BY <2>1, <2>2, <2>4, <2>5 DEF SameContent
<1>3. CASE ~(~v.xchar /\ v.ring = <<>>) /\ conf.rs485 /\ v.tx = "off" /\ conf.before
  <2> DEFINE timer == Arm(v.startTimer)
             held == TakeLine(v)
             hears == conf.rxDuringTx /\ v.rxEn
             w == StartTx(v, ok)
  <2>1. held = [v EXCEPT !.rts = TRUE, !.rxEn = hears]
    BY Zenon DEF TakeLine
  <2>2. w = [held EXCEPT !.tx = "waitAfterRts", !.startTimer = Arm(@)]
    BY <1>3 DEF StartTx
  <2> HIDE DEF hears, held
  <2>3. held.startTimer = v.startTimer
    BY <2>1 DEF Ports
  <2>4. w = [v EXCEPT !.rts = TRUE, !.rxEn = hears, !.tx = "waitAfterRts", !.startTimer = timer]
    BY <2>1, <2>2, <2>3 DEF Ports
  <2> HIDE DEF timer
  <2>5. SameContent(v, w) /\ w.tx = "waitAfterRts" /\ w.trdyEn = v.trdyEn /\ w.tcEn = v.tcEn
    BY <2>4 DEF Ports, SameContent
  <2> HIDE DEF w
  <2> QED
    BY <1>3, <2>5, SameIsKept DEF SameContent, Control, w
<1>4. CASE ~(~v.xchar /\ v.ring = <<>>) /\ conf.rs485 /\ v.tx = "send"
  <2>1. StartTx(v, ok) = Go(v, ok)
    BY <1>4 DEF StartTx
  <2> QED
    BY <1>4, <2>1, GoInOrder
<1>5. CASE /\ ~(~v.xchar /\ v.ring = <<>>) /\ conf.rs485 /\ v.tx # "send"
           /\ ~(v.tx = "off" /\ conf.before)
  <2> DEFINE held == IF v.tx = "off" THEN TakeLine(v) ELSE v
             timer == TryToCancel(v.stopTimer)
             tc == v.tcEn \/ ~v.dmaOn
             hears == conf.rxDuringTx /\ v.rxEn
             x == [held EXCEPT !.tx = "send", !.stopTimer = timer, !.tcEn = tc]
             w == Go(x, ok)
  <2>1. StartTx(v, ok)
          = Go([held EXCEPT !.tx = "send", !.stopTimer = TryToCancel(@),
                            !.tcEn = @ \/ ~v.dmaOn], ok)
    BY <1>5 DEF StartTx
  <2>2. hears \in BOOLEAN /\ tc \in BOOLEAN
    OBVIOUS
  <2>3. timer \in Timer
    BY DEF TryToCancel, Ports, Timer
  <2>4. v.tx = "off" => held = [v EXCEPT !.rts = TRUE, !.rxEn = hears]
    BY Zenon DEF TakeLine
  <2> HIDE DEF hears
  <2>5. /\ held \in Ports(n) /\ held.stopTimer = v.stopTimer /\ held.tcEn = v.tcEn
        /\ held.dmaOn = v.dmaOn /\ held.trdyEn = v.trdyEn /\ SameContent(v, held)
    <3>1. CASE v.tx = "off"
      <4> HIDE DEF held
      <4> QED
        BY <2>2, <2>4, <3>1 DEF Ports, SameContent
    <3>2. CASE v.tx # "off"
      <4>1. held = v
        BY <3>2
      <4> HIDE DEF held
      <4> QED
        BY <3>2, <4>1 DEF SameContent
    <3> QED
      BY <3>1, <3>2
  <2>6. StartTx(v, ok) = w
    BY <2>1, <2>5
  <2> HIDE DEF held, timer, tc
  <2>7. /\ x \in Ports(n) /\ x.tx = "send" /\ x.trdyEn = v.trdyEn /\ SameContent(v, x)
    BY <2>2, <2>3, <2>5 DEF Ports, TxStates, SameContent
  <2> HIDE DEF x
  <2>8. ~v.txing /\ ~v.trdyEn
    BY <1>5 DEF Control
  <2>9. Control(x)
    BY <1>5, <2>7, <2>8 DEF Control, SameContent
  <2>10. Kept(x, w) /\ Control(w) /\ (w.txing /\ w.trdyEn => x.txing \/ x.trdyEn)
    BY <2>7, <2>9, GoInOrder
  <2> HIDE DEF w
  <2>11. Kept(v, w)
    BY <2>7, <2>10, SameThenKept
  <2> QED
    BY <2>6, <2>7, <2>10, <2>11 DEF SameContent
<1> QED
  BY <1>1, <1>2, <1>3, <1>4, <1>5

\* What is taken out of the ring goes behind what is in the FIFO.
LEMMA FillInOrder ==
  ASSUME NEW n \in Nat, NEW v \in Ports(n), ~v.txing, v.dma = <<>>
  PROVE  Kept(v, Fill(v)) /\ (Control(v) => Control(Fill(v)))
<1> DEFINE k == IF Len(v.ring) < FifoSize - Len(v.fifo) THEN Len(v.ring)
                ELSE FifoSize - Len(v.fifo)
           moved == SubSeq(v.ring, 1, k)
           rest == SubSeq(v.ring, k + 1, Len(v.ring))
           filled == v.fifo \o moved
           l == Len(v.ring)
           w == Fill(v)
<1>1. /\ v.ring \in Seq(0 .. n) /\ v.fifo \in Seq(0 .. n) /\ l \in Nat
      /\ Len(v.fifo) \in Nat /\ Len(v.fifo) <= FifoSize /\ FifoSize \in Nat
      /\ Ahead(v) = ToSet(v.ring) /\ ToSet(v.ring) = {v.ring[i] : i \in 1 .. l}
  <2>1. v.ring \in Seq(0 .. n) /\ v.fifo \in Seq(0 .. n) /\ l \in Nat
    BY PortSequences
  <2>2. Len(v.fifo) \in Nat /\ Len(v.fifo) <= FifoSize /\ FifoSize \in Nat
    BY <2>1, LenProperties, ImxUartAssumption DEF Ports
  <2>3. Ahead(v) = ToSet(v.ring)
    BY WithoutTransfer
  <2>4. ToSet(v.ring) = {v.ring[i] : i \in 1 .. l}
    BY <2>1, ToSetOf
  <2> QED
    BY <2>1, <2>2, <2>3, <2>4
<1>2. k \in 0 .. l
  <2> DEFINE f == Len(v.fifo)
  <2>1. f \in Nat /\ FifoSize \in Nat /\ f <= FifoSize /\ l \in Nat
    BY <1>1
  <2>2. k = IF l < FifoSize - f THEN l ELSE FifoSize - f
    OBVIOUS
  <2> HIDE DEF k, l, f
  <2> QED
    BY <2>1, <2>2
<1>3. w = [v EXCEPT !.fifo = filled, !.ring = rest]
  BY DEF Fill
<1> HIDE DEF k
<1>4. /\ moved \in Seq(0 .. n) /\ rest \in Seq(0 .. n)
      /\ ToSet(moved) = {v.ring[i] : i \in 1 .. k}
      /\ ToSet(rest) = {v.ring[i] : i \in k + 1 .. l}
      /\ Rising(v.ring) => Rising(moved) /\ Rising(rest)
  <2>1. /\ ToSet(moved) = {v.ring[i] : i \in 1 .. k}
        /\ Rising(v.ring) => Rising(moved)
    <3>1. 1 \in Nat \ {0} /\ k \in 0 .. Len(v.ring)
      BY <1>2
    <3> QED
      BY <1>1, <3>1, PartIsInOrder
  <2>2. /\ ToSet(rest) = {v.ring[i] : i \in k + 1 .. l}
        /\ Rising(v.ring) => Rising(rest)
    <3>1. k + 1 \in Nat \ {0} /\ l \in 0 .. Len(v.ring)
      BY <1>1, <1>2
    <3> QED
      BY <1>1, <3>1, PartIsInOrder
  <2>3. \A i \in 1 .. l : v.ring[i] \in 0 .. n
    BY <1>1, ToSetOf
  <2>4. moved \in Seq(0 .. n)
    <3>1. \A i \in 1 .. k : v.ring[i] \in 0 .. n
      BY <1>1, <1>2, <2>3
    <3>2. k \in Int /\ 1 \in Int
      BY <1>2
    <3> QED
      BY <3>1, <3>2, SubSeqProperties
  <2>5. rest \in Seq(0 .. n)
    <3>1. \A i \in k + 1 .. l : v.ring[i] \in 0 .. n
      BY <1>1, <1>2, <2>3
    <3>2. k + 1 \in Int /\ l \in Int
      BY <1>1, <1>2
    <3> QED
      BY <3>1, <3>2, SubSeqProperties
  <2> QED
    BY <2>1, <2>2, <2>4, <2>5
<1>5. /\ ToSet(moved) \cup ToSet(rest) = ToSet(v.ring)
      /\ Rising(v.ring) => Before(ToSet(moved), ToSet(rest))
  <2>1. /\ \A i \in 1 .. l : i \in 1 .. k \/ i \in k + 1 .. l
        /\ 1 .. k \subseteq 1 .. l /\ k + 1 .. l \subseteq 1 .. l
    BY <1>1, <1>2
  <2> HIDE DEF moved, rest, l
  <2>2. ToSet(moved) \cup ToSet(rest) = ToSet(v.ring)
    BY <1>1, <1>4, <2>1, Zenon
  <2>3. ASSUME Rising(v.ring), NEW a \in ToSet(moved), NEW b \in ToSet(rest), b # XCHAR
        PROVE  a < b
    <3>1. PICK i \in 1 .. k : a = v.ring[i]
      BY <1>4, <2>3, Zenon
    <3>2. PICK j \in k + 1 .. l : b = v.ring[j]
      BY <1>4, <2>3, Zenon
    <3>3. i \in 1 .. l /\ j \in 1 .. l /\ i < j
      BY <1>1, <1>2, <3>1, <3>2
    <3> QED
      BY <2>3, <3>1, <3>2, <3>3 DEF Rising, l
  <2> QED
    BY <2>2, <2>3, Zenon DEF Before
<1>6. /\ ToSet(filled) = ToSet(v.fifo) \cup ToSet(moved)
      /\ Rising(v.fifo) /\ Rising(moved) /\ Before(ToSet(v.fifo), ToSet(moved))
           => Rising(filled)
  BY <1>1, <1>4, ConcatIsInOrder, ZenonT(40)
<1> HIDE DEF filled, moved, rest, l
<1>7. /\ w.fifo = filled /\ w.ring = rest /\ w.dma = <<>> /\ ~w.txing /\ w.tcEn = v.tcEn
      /\ w.trdyEn = v.trdyEn /\ w.tx = v.tx
  BY <1>3 DEF Ports
<1>8. Ahead(w) = ToSet(rest)
  <2>1. First(w) = 1
    BY <1>7 DEF First
  <2>2. ToSet(rest) = {rest[i] : i \in 1 .. Len(rest)}
    BY <1>4, ToSetOf
  <2> QED
    BY <1>7, <2>1, <2>2 DEF Ahead
<1>9. ToSet(w.dma) = {} /\ ToSet(v.dma) = {}
  BY <1>7, NothingIsInOrder
<1> HIDE DEF w
<1>10. InLine(w) = InLine(v)
  BY <1>1, <1>5, <1>6, <1>7, <1>8, <1>9, ZenonT(30) DEF InLine
<1>11. ASSUME Orderly(v) PROVE Orderly(w)
  <2>1. Rising(v.fifo) /\ Rising(v.ring) /\ Before(ToSet(v.fifo), ToSet(v.ring))
    BY <1>1, <1>11, Zenon DEF Orderly, Before
  <2>2. Before(ToSet(v.fifo), ToSet(moved)) /\ Before(ToSet(v.fifo), ToSet(rest))
    BY <1>5, <2>1, Zenon DEF Before
  <2>3. Rising(w.fifo) /\ Rising(w.dma) /\ Rising(w.ring)
    BY <1>4, <1>6, <1>7, <2>1, <2>2, NothingIsInOrder
  <2>4. Before(ToSet(w.fifo), ToSet(w.dma))
    BY <1>9, Zenon DEF Before
  <2>5. Before(ToSet(w.fifo) \cup ToSet(w.dma), Ahead(w))
    BY <1>5, <1>6, <1>7, <1>8, <1>9, <2>1, <2>2, Zenon DEF Before
  <2> QED
    BY <2>3, <2>4, <2>5 DEF Orderly
<1>12. Control(v) => Control(w)
  BY <1>7 DEF Control
<1> QED
  BY <1>10, <1>11, <1>12 DEF Kept, w

\* imx_uart_transmit_buffer. Without DMA there is no transfer.
LEMMA TransmitBufferInOrder ==
  ASSUME NEW n \in Nat, NEW v \in Ports(n), NEW ok \in BOOLEAN, Control(v),
         conf.rs485 => v.tx = "send", ~v.dmaOn => ~v.txing /\ v.dma = <<>>
  PROVE  LET w == TransmitBuffer(v, ok)
         IN  /\ Kept(v, w) /\ Control(w)
             /\ w.txing /\ w.trdyEn => v.txing
<1> DEFINE w == TransmitBuffer(v, ok)
<1>1. CASE v.xchar
  <2> DEFINE filled == Append(v.fifo, XCHAR)
  <2>1. w = [v EXCEPT !.fifo = filled, !.xchar = FALSE]
    BY <1>1 DEF TransmitBuffer
  <2>2. v.fifo \in Seq(0 .. n) /\ XCHAR \in 0 .. n
    BY DEF Ports, XCHAR
  <2>3. /\ ToSet(filled) = ToSet(v.fifo) \cup {XCHAR}
        /\ Rising(v.fifo) /\ Before(ToSet(v.fifo), {XCHAR}) => Rising(filled)
    BY <2>2, AppendIsInOrder
  <2>4. Before(ToSet(v.fifo), {XCHAR})
    BY Zenon DEF Before
  <2> HIDE DEF filled
  <2>5. /\ w.fifo = filled /\ w.ring = v.ring /\ w.dma = v.dma /\ w.txing = v.txing
        /\ w.txBytes = v.txBytes /\ w.tcEn = v.tcEn /\ w.trdyEn = v.trdyEn /\ w.tx = v.tx
    BY <2>1 DEF Ports
  <2> HIDE DEF w
  <2>6. Ahead(w) = Ahead(v)
    BY <2>5 DEF Ahead, First
  <2>7. InLine(w) = InLine(v)
    BY <2>3, <2>5, <2>6, Zenon DEF InLine
  <2>8. \A b \in ToSet(v.dma) \cup Ahead(v) : XCHAR < b
    <3>1. ToSet(v.dma) \cup Ahead(v) \subseteq 1 .. n
      BY PortSequences
    <3> QED
      BY <3>1 DEF XCHAR
  <2>9. ASSUME Orderly(v) PROVE Orderly(w)
    <3>1. Rising(w.fifo) /\ Rising(w.dma) /\ Rising(w.ring)
      BY <2>3, <2>4, <2>5, <2>9 DEF Orderly
    <3>2. Before(ToSet(w.fifo), ToSet(w.dma))
      BY <2>3, <2>5, <2>8, <2>9, Zenon DEF Orderly, Before
    <3>3. Before(ToSet(w.fifo) \cup ToSet(w.dma), Ahead(w))
      BY <2>3, <2>5, <2>6, <2>8, <2>9, Zenon DEF Orderly, Before
    <3> QED
      BY <3>1, <3>2, <3>3 DEF Orderly
  <2>10. Control(w)
    BY <2>5 DEF Control
  <2> QED
    BY <2>5, <2>7, <2>9, <2>10 DEF Kept, w
<1>2. CASE ~v.xchar /\ ~HasData(v)
  <2>1. w = StopTx(v)
    BY <1>2 DEF TransmitBuffer
  <2>2. SameContent(v, w) /\ Control(w)
    BY <2>1, StopTxInOrder
  <2> HIDE DEF w
  <2> QED
    BY <2>2, SameIsKept DEF SameContent, w
<1>3. CASE ~v.xchar /\ HasData(v) /\ v.dmaOn /\ v.txing
  <2>1. w = [v EXCEPT !.trdyEn = FALSE, !.txDmaEn = TRUE]
    BY <1>3 DEF TransmitBuffer
  <2>2. SameContent(v, w) /\ w.tx = v.tx /\ w.tcEn = v.tcEn /\ ~w.trdyEn
    BY <2>1 DEF Ports, SameContent
  <2> HIDE DEF w
  <2> QED
    BY <2>2, SameIsKept DEF SameContent, Control, w
<1>4. CASE ~v.xchar /\ HasData(v) /\ v.dmaOn /\ ~v.txing
  <2> DEFINE x == [v EXCEPT !.trdyEn = FALSE]
  <2>1. w = DmaTx(x, ok)
    BY <1>4 DEF TransmitBuffer
  <2>2. /\ x \in Ports(n) /\ x.tx = v.tx /\ SameContent(v, x) /\ ~x.trdyEn
        /\ x.tcEn = v.tcEn
    BY DEF Ports, SameContent
  <2> HIDE DEF x, w
  <2>3. Control(x)
    BY <2>2 DEF Control, SameContent
  <2>4. Kept(x, w) /\ Control(w) /\ w.trdyEn = x.trdyEn
    BY <2>1, <2>2, <2>3, DmaTxInOrder
  <2>5. Kept(v, w)
    BY <2>2, <2>4, SameThenKept
  <2> QED
    BY <2>2, <2>4, <2>5 DEF w
<1>5. CASE ~v.xchar /\ HasData(v) /\ ~v.dmaOn
  <2> DEFINE x == Fill(v)
  <2>1. w \in {x, StopTx(x)}
    BY <1>5 DEF TransmitBuffer
  <2>2. Kept(v, x) /\ Control(x) /\ x \in Ports(n) /\ ~x.txing
    BY <1>5, FillInOrder, FillKeeps
  <2> HIDE DEF x, w
  <2>3. CASE w = x
    BY <2>2, <2>3 DEF w
  <2>4. CASE w = StopTx(x)
    <3>1. SameContent(x, w) /\ Control(w)
      BY <2>2, <2>4, StopTxInOrder
    <3>2. Kept(v, w)
      BY <2>2, <3>1, SameIsKept, KeptTwice
    <3> QED
      BY <2>2, <3>1, <3>2 DEF SameContent, w
  <2> QED
    BY <2>1, <2>3, <2>4
<1> QED
  BY <1>1, <1>2, <1>3, <1>4, <1>5

-----------------------------------------------------------------------------
(* The order of what is sent                                               *)

\* No callback was late for a flush, and no transfer was cut.
Good == mishaps \cap {"late", "cut"} = {}

\* Only a port with channels, or one that is being shut down, has a transfer; the latter
\* has then no interrupt enabled that would fill the FIFO.
PortControl ==
  /\ port = "open" /\ u.txing => u.dmaOn
  /\ port # "open" /\ u.txing => ~u.trdyEn
  /\ port \in {"disabled", "closed"} => ~u.txing

\* Every byte is on the wire, in line or dropped, and nothing in line is before what is on
\* the wire.
OrderInv ==
  Good =>
    /\ Orderly(u) /\ Control(u) /\ PortControl
    /\ Rising(wire) /\ Before(ToSet(wire), InLine(u))
    /\ ToSet(wire) \cup InLine(u) = (1 .. written) \ dropped

\* What has gone wrong stays so.
LEMMA MishapsStay == Next => mishaps \subseteq mishaps'
<1> SUFFICES ASSUME Next PROVE mishaps \subseteq mishaps'
  OBVIOUS
<1>1. \A ok : DmaOutcome(ok) => mishaps \subseteq mishaps'
  BY DEF DmaOutcome
<1>2. CASE TxInt
  BY <1>1, <1>2, Zenon DEF TxInt
<1>3. CASE DmaTxCallback
  BY <1>1, <1>3, Zenon DEF DmaTxCallback
<1>4. CASE TriggerStartTx
  BY <1>1, <1>4, Zenon DEF TriggerStartTx
<1>5. CASE StartTimerFires \/ StopTimerFires \/ TriggerStopTx
  BY <1>5 DEF StartTimerFires, StopTimerFires, TriggerStopTx
<1>6. CASE Hardware
  BY <1>6 DEF Hardware, Shift, DmaMove
<1>7. CASE Write
  BY <1>7, Zenon DEF Write
<1>8. CASE FlowStart
  BY <1>1, <1>8, Zenon DEF FlowStart
<1>9. CASE FlushBuffer
  BY <1>9, Zenon DEF FlushBuffer
<1>10. CASE SendXchar
  BY <1>10, Zenon DEF SendXchar
<1>11. CASE SetTermios
  BY <1>11, Zenon DEF SetTermios
<1>12. CASE FlowStop
  BY <1>12, Zenon DEF FlowStop
<1>13. CASE Startup \/ Suspend
  BY <1>13, Zenon DEF Startup, Suspend
<1>14. CASE Resume \/ ReopenFails
  BY <1>14, Zenon DEF Resume, ReopenFails
<1>15. CASE Shutdown
  BY <1>15, Zenon DEF Shutdown, ShutdownTerminate, ShutdownStop, ShutdownDisable, ShutdownEnd
<1> QED
  BY <1>2, <1>3, <1>4, <1>5, <1>6, <1>7, <1>8, <1>9, <1>10, <1>11, <1>12, <1>13, <1>14,
     <1>15 DEF Next, Handlers, Tty, Ops

\* No byte is in two places.
LEMMA PiecesApart ==
  ASSUME NEW n \in Nat, NEW v \in Ports(n), Orderly(v)
  PROVE  /\ BytesOf(v.fifo) \cap ToSet(v.dma) = {} /\ BytesOf(v.fifo) \cap Ahead(v) = {}
         /\ ToSet(v.dma) \cap Ahead(v) = {} /\ XCHAR \notin ToSet(v.dma) \cup Ahead(v)
         /\ InLine(v) = BytesOf(v.fifo) \cup ToSet(v.dma) \cup Ahead(v)
<1>1. /\ ToSet(v.dma) \subseteq 1 .. n /\ ToSet(v.fifo) \subseteq 0 .. n
      /\ Ahead(v) \subseteq 1 .. n
  BY PortSequences
<1>2. XCHAR \notin ToSet(v.dma) \cup Ahead(v)
  BY <1>1 DEF XCHAR
<1>3. \A a \in 0 .. n : ~(a < a)
  OBVIOUS
<1>4. 1 .. n \subseteq 0 .. n
  OBVIOUS
<1>5. BytesOf(v.fifo) \cap ToSet(v.dma) = {}
  BY <1>1, <1>2, <1>3, Zenon DEF Orderly, Before, BytesOf
<1>6. BytesOf(v.fifo) \cap Ahead(v) = {}
  BY <1>1, <1>2, <1>3, Zenon DEF Orderly, Before, BytesOf
<1>7. ToSet(v.dma) \cap Ahead(v) = {}
  BY <1>1, <1>2, <1>3, <1>4, Zenon DEF Orderly, Before
<1>8. InLine(v) = BytesOf(v.fifo) \cup ToSet(v.dma) \cup Ahead(v)
  BY <1>2 DEF InLine, BytesOf
<1> QED
  BY <1>2, <1>5, <1>6, <1>7, <1>8

\* When the FIFO is reset only its bytes are missing.
LEMMA FifoEmptied ==
  ASSUME NEW n \in Nat, NEW v \in Ports(n), NEW w, w.fifo = <<>>, w.ring = v.ring,
         w.dma = v.dma, w.txing = v.txing, w.txBytes = v.txBytes, Orderly(v)
  PROVE  /\ Orderly(w) /\ InLine(w) = InLine(v) \ BytesOf(v.fifo)
         /\ BytesOf(v.fifo) \subseteq InLine(v)
<1>1. Ahead(w) = Ahead(v)
  BY DEF Ahead, First
<1>2. Rising(w.fifo) /\ ToSet(w.fifo) = {}
  BY NothingIsInOrder
<1>3. Before(ToSet(w.fifo), ToSet(w.dma))
  BY <1>2, Zenon DEF Before
<1>4. Before(ToSet(w.fifo) \cup ToSet(w.dma), Ahead(w))
  BY <1>1, <1>2, Zenon DEF Before, Orderly
<1>5. Orderly(w)
  BY <1>2, <1>3, <1>4 DEF Orderly
<1>6. InLine(w) = (ToSet(v.dma) \cup Ahead(v)) \ {XCHAR}
  BY <1>1, <1>2 DEF InLine
<1> QED
  BY <1>5, <1>6, PiecesApart

\* When the ring is cleared only what waits there is missing.
LEMMA RingEmptied ==
  ASSUME NEW n \in Nat, NEW v \in Ports(n), NEW w, w.fifo = v.fifo, w.ring = <<>>,
         w.dma = v.dma, ~w.txing, ~v.txing, Orderly(v)
  PROVE  /\ Orderly(w) /\ InLine(w) = InLine(v) \ Ahead(v)
         /\ Ahead(v) \subseteq InLine(v)
<1>1. Ahead(w) = {}
  <2>1. First(w) .. Len(w.ring) = {}
    BY DEF First
  <2> QED
    BY <2>1 DEF Ahead
<1>2. Rising(w.ring)
  BY NothingIsInOrder
<1>3. Before(ToSet(w.fifo) \cup ToSet(w.dma), Ahead(w))
  BY <1>1, Zenon DEF Before
<1>4. Orderly(w)
  BY <1>2, <1>3 DEF Orderly
<1>5. InLine(w) = (ToSet(v.fifo) \cup ToSet(v.dma)) \ {XCHAR}
  BY <1>1 DEF InLine
<1>6. InLine(w) = BytesOf(v.fifo) \cup ToSet(v.dma)
  BY <1>5, PiecesApart DEF BytesOf
<1> QED
  BY <1>4, <1>6, PiecesApart

\* A step that drops some of what is in line, or nothing.
LEMMA DropsInOrder ==
  ASSUME IInv, OrderInv, Good, UNCHANGED <<conf, wire, written>>,
         NEW D \in SUBSET InLine(u), dropped' = dropped \cup D,
         InLine(u') = InLine(u) \ D, Orderly(u'), Control(u'), PortControl'
  PROVE  OrderInv'
<1>1. /\ Orderly(u) /\ Control(u) /\ PortControl
      /\ Rising(wire) /\ Before(ToSet(wire), InLine(u))
      /\ ToSet(wire) \cup InLine(u) = (1 .. written) \ dropped
  BY DEF OrderInv
<1>2. ToSet(wire) \subseteq 1 .. written
  BY ToSetIn DEF IInv, TypesInv
<1>3. ToSet(wire) \cap InLine(u) = {}
  <2>1. \A a \in 1 .. written : ~(a < a)
    BY DEF IInv, TypesInv
  <2>2. XCHAR \notin InLine(u)
    BY DEF InLine
  <2> QED
    BY <1>1, <1>2, <2>1, <2>2, Zenon DEF Before
<1>4. ToSet(wire') \cup InLine(u') = (1 .. written') \ dropped'
  BY <1>1, <1>3
<1>5. Before(ToSet(wire'), InLine(u'))
  BY <1>1, Zenon DEF Before
<1>6. Control(u)' /\ Orderly(u)' /\ InLine(u)' = InLine(u')
  BY DEF Control, Orderly, InLine, Ahead, First
<1>7. Before(ToSet(wire), InLine(u))' /\ Rising(wire)'
  BY <1>1, <1>5 DEF Rising
<1> QED
  BY <1>4, <1>6, <1>7 DEF OrderInv

\* A step that keeps everything.
LEMMA ServedInOrder ==
  ASSUME IInv, OrderInv, Good, UNCHANGED <<conf, wire, written, dropped>>,
         Kept(u, u'), Control(u'), PortControl'
  PROVE  OrderInv'
<1>1. Orderly(u') /\ InLine(u') = InLine(u) \ {}
  BY DEF OrderInv, Kept
<1>2. {} \in SUBSET InLine(u) /\ dropped' = dropped \cup {}
  OBVIOUS
<1> QED
  BY <1>1, <1>2, DropsInOrder

\* A port that is shut down gets no new transfer.
LEMMA PortControlKept ==
  ASSUME IInv, PortControl, port' = port, Starts(u, u'),
         port # "open" /\ u'.txing => ~u'.trdyEn
  PROVE  PortControl'
BY DEF IInv, ClosedInv, PortControl, Starts

\* The ring is advanced by what has left.
LEMMA AdvanceInOrder ==
  ASSUME NEW n \in Nat, NEW v \in Ports(n), v.txing, v.dma = <<>>
  PROVE  LET w == Advance(v)
         IN  /\ w \in Ports(n) /\ Kept(v, w) /\ ~w.txing /\ w.tx = v.tx
             /\ w.trdyEn = v.trdyEn /\ w.tcEn = v.tcEn
<1> DEFINE a == v.txBytes + 1
           l == Len(v.ring)
           rest == SubSeq(v.ring, a, l)
           w == Advance(v)
<1>1. /\ v.ring \in Seq(1 .. n) /\ v.ring \in Seq(0 .. n) /\ l \in Nat /\ v.txBytes \in Nat
      /\ l <= RingSize
  <2>1. v.ring \in Seq(1 .. n) /\ v.ring \in Seq(0 .. n) /\ l \in Nat /\ v.txBytes \in Nat
    BY PortSequences
  <2>2. l <= RingSize
    BY DEF Ports
  <2> QED
    BY <2>1, <2>2
<1>2. a \in Nat \ {0} /\ l \in 0 .. Len(v.ring)
  BY <1>1
<1>3. ToSet(rest) = {v.ring[i] : i \in a .. l} /\ (Rising(v.ring) => Rising(rest))
  BY <1>1, <1>2, PartIsInOrder
<1>4. rest \in Seq(1 .. n) /\ Len(rest) <= RingSize
  <2>1. \A i \in a .. l : v.ring[i] \in 1 .. n
    <3>1. \A i \in 1 .. Len(v.ring) : v.ring[i] \in 1 .. n
      BY <1>1, ElementOfSeq
    <3> QED
      BY <1>1, <1>2, <3>1
  <2>2. a \in Int /\ l \in Int
    BY <1>1
  <2>3. rest \in Seq(1 .. n) /\ Len(rest) = IF a <= l THEN l - a + 1 ELSE 0
    BY <2>1, <2>2, SubSeqProperties
  <2> HIDE DEF rest, l
  <2> QED
    BY <1>1, <2>3, ImxUartAssumption
<1>5. w = [v EXCEPT !.cb = FALSE, !.txDmaEn = FALSE, !.txing = FALSE, !.ring = rest]
  BY DEF Advance
<1>6. Ahead(v) = {v.ring[i] : i \in a .. l}
  BY DEF Ahead, First
<1> HIDE DEF w, rest, a, l
<1>7. /\ w \in Ports(n) /\ w.ring = rest /\ w.fifo = v.fifo /\ w.dma = v.dma /\ ~w.txing
      /\ w.tx = v.tx /\ w.trdyEn = v.trdyEn /\ w.tcEn = v.tcEn
  BY <1>4, <1>5 DEF Ports
<1>8. Ahead(w) = Ahead(v)
  BY <1>3, <1>6, <1>7, WithoutTransfer
<1>9. Kept(v, w)
  BY <1>3, <1>7, <1>8 DEF Kept, InLine, Orderly
<1> QED
  BY <1>7, <1>9 DEF w

\* Interrupts, timers, DMA.
LEMMA HandlersInOrder == IInv /\ OrderInv /\ Good /\ Handlers => OrderInv'
<1> SUFFICES ASSUME IInv, OrderInv, Good, Handlers PROVE OrderInv'
  OBVIOUS
<1>a. /\ written \in Nat /\ u \in Ports(written) /\ conf \in [ConfFields -> BOOLEAN]
      /\ Control(u) /\ PortControl
  BY ImxUartAssumption DEF IInv, TypesInv, OrderInv
<1>b. \A ok \in DmaOutcomes : ok \in BOOLEAN
  BY DEF DmaOutcomes
<1>c. (u.cb \/ u.dma # <<>> => u.txing) /\ (u.cb => u.dma = <<>>)
  BY DEF IInv, DmaInv, Good
<1>1. CASE TxInt
  <2>1. PICK ok \in DmaOutcomes : u' = TransmitBuffer(u, ok) /\ DmaOutcome(ok)
    BY <1>1 DEF TxInt
  <2>2. /\ port # "closed" /\ UNCHANGED <<conf, port, asleep, wire, written, dropped>>
        /\ (u.trdyEn /\ Len(u.fifo) < FifoSize) \/ (u.tcEn /\ u.fifo = <<>>)
    BY <1>1 DEF TxInt, Running
  <2>3. Len(u.fifo) < FifoSize
    BY <2>2, ImxUartAssumption
  <2>4. Starts(u, u')
    BY <1>a, <1>b, <2>1, <2>3, TransmitBufferKeeps
  <2>5. conf.rs485 => u.tx = "send"
    BY <1>a, <2>2 DEF Control
  <2>6. ~u.dmaOn => ~u.txing /\ u.dma = <<>>
    BY <1>a, <1>c, <2>2 DEF Control, PortControl
  <2>7. Kept(u, u') /\ Control(u') /\ (u'.txing /\ u'.trdyEn => u.txing)
    BY <1>a, <1>b, <2>1, <2>5, <2>6, TransmitBufferInOrder
  <2>8. port # "open" => ~u.txing
    BY <1>a, <2>2 DEF Control, PortControl
  <2>9. PortControl'
    BY <1>a, <2>2, <2>4, <2>7, <2>8, PortControlKept
  <2> QED
    BY <2>2, <2>7, <2>9, ServedInOrder
<1>2. CASE DmaTxCallback
  <2> DEFINE v == Advance(u)
  <2>1. u.cb /\ UNCHANGED <<conf, port, asleep, wire, written, dropped>>
    BY <1>2 DEF DmaTxCallback
  <2>2. PICK ok \in BOOLEAN : u' \in {DmaTx(v, ok), [v EXCEPT !.tcEn = @ \/ conf.rs485]}
    BY <1>2, <1>b, Zenon DEF DmaTxCallback
  <2>3. /\ v \in Ports(written) /\ Kept(u, v) /\ ~v.txing /\ v.tx = u.tx
        /\ v.trdyEn = u.trdyEn /\ v.tcEn = u.tcEn
    BY <1>a, <1>c, <2>1, AdvanceInOrder
  <2>4. /\ u.txing /\ (conf.rs485 => v.tx = "send") /\ Control(v)
        /\ port = "open" => u.dmaOn
        /\ port # "open" => ~v.trdyEn
        /\ port \notin {"disabled", "closed"}
    BY <1>a, <1>c, <2>1, <2>3 DEF Control, PortControl
  <2>5. v.dmaOn = u.dmaOn
    BY <1>a DEF Advance, Ports
  <2> HIDE DEF v
  <2>6. /\ Kept(v, u') /\ Control(u') /\ u'.trdyEn = v.trdyEn
        /\ u'.dmaOn = v.dmaOn
    <3>1. CASE u' = DmaTx(v, ok)
      <4>1. Transfer(v, u')
        BY <1>a, <2>3, <3>1, DmaTxKeeps
      <4>2. Kept(v, u') /\ Control(u') /\ u'.trdyEn = v.trdyEn
        BY <1>a, <2>3, <2>4, <3>1, DmaTxInOrder
      <4> QED
        BY <4>1, <4>2 DEF Transfer
    <3>2. CASE u' = [v EXCEPT !.tcEn = @ \/ conf.rs485]
      <4> DEFINE tc == v.tcEn \/ conf.rs485
      <4>1. u' = [v EXCEPT !.tcEn = tc]
        BY <2>3, <3>2 DEF Ports
      <4> HIDE DEF tc
      <4>2. SameContent(v, u') /\ u'.trdyEn = v.trdyEn /\ u'.dmaOn = v.dmaOn /\ u'.tx = v.tx
        BY <2>3, <4>1 DEF Ports, SameContent
      <4>3. Control(u')
        BY <2>3, <2>4, <4>2 DEF Control, SameContent
      <4>4. Kept(v, u')
        BY <4>2, SameIsKept
      <4> QED
        BY <4>2, <4>3, <4>4
    <3> QED
      BY <2>2, <3>1, <3>2
  <2>7. Kept(u, u')
    BY <2>3, <2>6, KeptTwice
  <2>8. PortControl'
    BY <2>1, <2>3, <2>4, <2>5, <2>6 DEF PortControl
  <2> QED
    BY <2>1, <2>6, <2>7, <2>8, ServedInOrder
<1>3. CASE StartTimerFires \/ StopTimerFires
  <2>1. /\ UNCHANGED <<conf, port, wire, written, dropped>>
        /\ u' \in {[u EXCEPT !.startTimer = {"running"}], [u EXCEPT !.stopTimer = {"running"}]}
    BY <1>3 DEF StartTimerFires, StopTimerFires
  <2>2. /\ SameContent(u, u') /\ u'.tx = u.tx /\ u'.trdyEn = u.trdyEn /\ u'.tcEn = u.tcEn
        /\ u'.dmaOn = u.dmaOn
    BY <1>a, <2>1 DEF Ports, SameContent
  <2>3. Control(u') /\ Kept(u, u')
    BY <1>a, <2>2, SameIsKept DEF Control, SameContent
  <2>4. PortControl'
    BY <1>a, <2>1, <2>2 DEF PortControl, SameContent
  <2> QED
    BY <2>1, <2>3, <2>4, ServedInOrder
<1>4. CASE TriggerStartTx
  <2> DEFINE timer == u.startTimer \ {"running"}
             v == [u EXCEPT !.startTimer = timer]
  <2>1. PICK ok \in DmaOutcomes :
          /\ u' = IF v.tx = "waitAfterRts" THEN StartTx(v, ok) ELSE v
          /\ DmaOutcome(ok)
    BY <1>4, Zenon DEF TriggerStartTx
  <2>2. UNCHANGED <<conf, port, asleep, wire, written, dropped>>
    BY <1>4 DEF TriggerStartTx
  <2>3. timer \in Timer
    BY <1>a DEF Ports, Timer
  <2> HIDE DEF timer
  <2>4. /\ v \in Ports(written) /\ SameContent(u, v) /\ v.tx = u.tx /\ v.trdyEn = u.trdyEn
        /\ v.tcEn = u.tcEn /\ v.dmaOn = u.dmaOn /\ v.cb = u.cb
    BY <1>a, <2>3 DEF Ports, SameContent
  <2> HIDE DEF v
  <2>5. Kept(u, v) /\ Control(v) /\ Starts(u, v)
    BY <1>a, <2>4, SameIsKept DEF Control, SameContent, Starts
  <2>6. CASE v.tx = "waitAfterRts"
    <3>1. u' = StartTx(v, ok)
      BY <2>1, <2>6
    <3>2. Kept(v, u') /\ Control(u') /\ (u'.txing /\ u'.trdyEn => v.txing \/ v.trdyEn)
      BY <1>a, <1>b, <2>4, <2>5, <3>1, StartTxInOrder
    <3>3. Starts(v, u')
      BY <1>a, <1>b, <2>4, <3>1, StartTxKeeps
    <3>4. ~v.txing /\ ~v.trdyEn
      BY <2>5, <2>6 DEF Control
    <3>5. Kept(u, u') /\ Starts(u, u')
      BY <2>4, <2>5, <3>2, <3>3, KeptTwice DEF Starts, SameContent
    <3>6. PortControl'
      BY <1>a, <2>2, <3>2, <3>4, <3>5, PortControlKept
    <3> QED
      BY <2>2, <3>2, <3>5, <3>6, ServedInOrder
  <2>7. CASE v.tx # "waitAfterRts"
    <3>1. u' = v
      BY <2>1, <2>7
    <3>2. port # "open" /\ u'.txing => ~u'.trdyEn
      BY <1>a, <2>4, <3>1 DEF PortControl, SameContent
    <3>3. PortControl'
      BY <1>a, <2>2, <2>5, <3>1, <3>2, PortControlKept
    <3> QED
      BY <2>2, <2>5, <3>1, <3>3, ServedInOrder
  <2> QED
    BY <2>6, <2>7
<1>5. CASE TriggerStopTx
  <2> DEFINE timer == u.stopTimer \ {"running"}
             v == [u EXCEPT !.stopTimer = timer]
  <2>1. /\ u' \in {StopTx(v), v}
        /\ UNCHANGED <<conf, budget, port, asleep, wire, written, dropped, mishaps>>
    BY <1>5, Zenon DEF TriggerStopTx
  <2>2. timer \in Timer
    BY <1>a DEF Ports, Timer
  <2> HIDE DEF timer
  <2>3. /\ v \in Ports(written) /\ SameContent(u, v) /\ v.tx = u.tx /\ v.trdyEn = u.trdyEn
        /\ v.tcEn = u.tcEn /\ v.dmaOn = u.dmaOn /\ v.cb = u.cb
    BY <1>a, <2>2 DEF Ports, SameContent
  <2> HIDE DEF v
  <2>4. Control(v)
    BY <1>a, <2>3 DEF Control, SameContent
  <2>5. /\ SameContent(v, u') /\ Control(u') /\ (u'.trdyEn => v.trdyEn)
        /\ Starts(v, u')
    <3>1. CASE u' = StopTx(v)
      BY <1>a, <2>3, <2>4, <3>1, StopTxInOrder, StopTxKeeps DEF Transfer, Starts
    <3>2. CASE u' = v
      BY <2>4, <3>2 DEF SameContent, Starts
    <3> QED
      BY <2>1, <3>1, <3>2
  <2>6. SameContent(u, u') /\ Starts(u, u') /\ (u'.trdyEn => u.trdyEn)
    BY <2>3, <2>5 DEF SameContent, Starts
  <2>7. port # "open" /\ u'.txing => ~u'.trdyEn
    BY <1>a, <2>6 DEF PortControl, SameContent
  <2>8. PortControl'
    BY <1>a, <2>1, <2>6, <2>7, PortControlKept
  <2> QED
    BY <2>1, <2>5, <2>6, <2>8, SameIsKept, ServedInOrder
<1> QED
  BY <1>1, <1>2, <1>3, <1>4, <1>5 DEF Handlers

\* The wire takes what comes first, and the DMA fills up behind what is in the FIFO.
LEMMA HardwareInOrder == IInv /\ OrderInv /\ Good /\ Hardware => OrderInv'
<1> SUFFICES ASSUME IInv, OrderInv, Good, Hardware PROVE OrderInv'
  OBVIOUS
<1>a. /\ written \in Nat /\ u \in Ports(written) /\ wire \in Seq(1 .. written)
      /\ Orderly(u) /\ Control(u) /\ PortControl
      /\ Rising(wire) /\ Before(ToSet(wire), InLine(u))
      /\ ToSet(wire) \cup InLine(u) = (1 .. written) \ dropped
  BY DEF IInv, TypesInv, OrderInv
<1>b. /\ u.fifo \in Seq(0 .. written) /\ u.dma \in Seq(0 .. written)
      /\ ToSet(u.dma) \subseteq 1 .. written /\ ToSet(u.fifo) \subseteq 0 .. written
      /\ Ahead(u) \subseteq 1 .. written
  BY <1>a, PortSequences
<1>1. CASE Shift
  <2> DEFINE h == Head(u.fifo)
             rest == Tail(u.fifo)
  <2>1. /\ u.fifo # <<>> /\ u' = [u EXCEPT !.fifo = rest]
        /\ wire' = IF h = XCHAR THEN wire ELSE Append(wire, h)
        /\ UNCHANGED <<conf, budget, port, asleep, written, dropped, mishaps>>
    <3>1. u' = [u EXCEPT !.fifo = Tail(@)]
      BY <1>1 DEF Shift
    <3>2. u' = [u EXCEPT !.fifo = rest]
      BY <1>a, <3>1 DEF Ports
    <3> QED
      BY <1>1, <3>2 DEF Shift
  <2>2. /\ ToSet(u.fifo) = {h} \cup ToSet(rest)
        /\ Rising(rest) /\ Before({h}, ToSet(rest))
    BY <1>a, <1>b, <2>1, TailIsInOrder DEF Orderly
  <2> HIDE DEF h, rest
  <2>3. /\ u'.fifo = rest /\ u'.ring = u.ring /\ u'.dma = u.dma /\ u'.txing = u.txing
        /\ u'.txBytes = u.txBytes /\ u'.tx = u.tx /\ u'.trdyEn = u.trdyEn
        /\ u'.tcEn = u.tcEn /\ u'.dmaOn = u.dmaOn
    BY <1>a, <2>1 DEF Ports
  <2>4. Ahead(u') = Ahead(u)
    BY <2>3 DEF Ahead, First
  <2>5. Control(u') /\ PortControl'
    BY <1>a, <2>1, <2>3 DEF Control, PortControl
  <2>6. Orderly(u')
    <3>1. Before(ToSet(rest), ToSet(u.dma))
      BY <1>a, <2>2, Zenon DEF Orderly, Before
    <3>2. Before(ToSet(rest) \cup ToSet(u.dma), Ahead(u))
      BY <1>a, <2>2, Zenon DEF Orderly, Before
    <3> QED
      BY <1>a, <2>2, <2>3, <2>4, <3>1, <3>2 DEF Orderly
  <2>7. InLine(u') = (ToSet(rest) \cup ToSet(u.dma) \cup Ahead(u)) \ {XCHAR}
    BY <2>3, <2>4 DEF InLine
  <2>8. CASE h = XCHAR
    <3>1. InLine(u') = InLine(u)
      BY <2>2, <2>7, <2>8, Zenon DEF InLine
    <3>2. Kept(u, u')
      BY <2>6, <3>1 DEF Kept
    <3> QED
      BY <2>1, <2>5, <2>8, <3>2, ServedInOrder
  <2>9. CASE h # XCHAR
    <3>1. h \in InLine(u) /\ h \in 0 .. written
      BY <1>b, <2>2, <2>9 DEF InLine
    <3>2. wire \in Seq(0 .. written)
      BY <1>a, 1 .. written \subseteq 0 .. written, SeqMonotonic
    <3>3. Before(ToSet(wire), {h})
      BY <1>a, <3>1, Zenon DEF Before
    <3>4. ToSet(wire') = ToSet(wire) \cup {h} /\ Rising(wire')
      BY <1>a, <2>1, <2>9, <3>1, <3>2, <3>3, AppendIsInOrder
    <3>5. InLine(u) = InLine(u') \cup {h}
      BY <2>2, <2>7, <2>9, Zenon DEF InLine
    <3>6. Before({h}, InLine(u'))
      BY <1>a, <2>2, <2>7, Zenon DEF Orderly, Before
    <3>7. Before(ToSet(wire'), InLine(u'))
      BY <1>a, <3>4, <3>5, <3>6, Zenon DEF Before
    <3>8. ToSet(wire') \cup InLine(u') = (1 .. written') \ dropped'
      BY <1>a, <2>1, <3>4, <3>5
    <3>9. /\ Control(u)' /\ Orderly(u)' /\ InLine(u)' = InLine(u')
          /\ Rising(wire)' /\ Before(ToSet(wire), InLine(u))'
      BY <2>1, <2>5, <2>6, <3>4, <3>7
         DEF Control, Orderly, InLine, Ahead, First, Rising, Before
    <3> QED
      BY <2>5, <3>8, <3>9 DEF OrderInv
  <2> QED
    BY <2>8, <2>9
<1>2. CASE DmaMove
  <2> DEFINE h == Head(u.dma)
             filled == Append(u.fifo, h)
             rest == Tail(u.dma)
             cb == u.cb \/ Len(u.dma) = 1
  <2>1. /\ u' = [u EXCEPT !.fifo = Append(@, Head(u.dma)), !.dma = Tail(@),
                          !.cb = @ \/ Len(u.dma) = 1]
        /\ u.dma # <<>>
        /\ UNCHANGED <<conf, budget, port, asleep, wire, written, dropped, mishaps>>
    BY <1>2 DEF DmaMove
  <2>2. u' = [u EXCEPT !.fifo = filled, !.dma = rest, !.cb = cb]
    BY <1>a, <2>1 DEF Ports
  <2>3. /\ ToSet(u.dma) = {h} \cup ToSet(rest)
        /\ Rising(rest) /\ Before({h}, ToSet(rest))
    BY <1>a, <1>b, <2>1, TailIsInOrder DEF Orderly
  <2> HIDE DEF h, rest, cb
  <2>4. h \in 0 .. written /\ h # XCHAR
    <3>1. h \in 1 .. written
      BY <1>b, <2>3, Zenon
    <3> QED
      BY <1>a, <3>1 DEF XCHAR
  <2>5. Before(ToSet(u.fifo), {h})
    BY <1>a, <2>3, Zenon DEF Orderly, Before
  <2>6. ToSet(filled) = ToSet(u.fifo) \cup {h} /\ Rising(filled)
    BY <1>a, <1>b, <2>4, <2>5, AppendIsInOrder DEF Orderly
  <2> HIDE DEF filled
  <2>7. /\ u'.fifo = filled /\ u'.ring = u.ring /\ u'.dma = rest /\ u'.txing = u.txing
        /\ u'.txBytes = u.txBytes /\ u'.tx = u.tx /\ u'.trdyEn = u.trdyEn
        /\ u'.tcEn = u.tcEn /\ u'.dmaOn = u.dmaOn
    BY <1>a, <2>2 DEF Ports
  <2>8. Ahead(u') = Ahead(u)
    BY <2>7 DEF Ahead, First
  <2>9. Control(u') /\ PortControl'
    BY <1>a, <2>1, <2>7 DEF Control, PortControl
  <2>10. Orderly(u')
    <3>1. Before(ToSet(filled), ToSet(rest))
      BY <1>a, <2>3, <2>6, Zenon DEF Orderly, Before
    <3>2. Before(ToSet(filled) \cup ToSet(rest), Ahead(u))
      BY <1>a, <2>3, <2>6, Zenon DEF Orderly, Before
    <3> QED
      BY <1>a, <2>3, <2>6, <2>7, <2>8, <3>1, <3>2 DEF Orderly
  <2>11. InLine(u') = InLine(u)
    BY <2>3, <2>6, <2>7, <2>8, Zenon DEF InLine
  <2>12. Kept(u, u')
    BY <2>10, <2>11 DEF Kept
  <2> QED
    BY <2>1, <2>9, <2>12, ServedInOrder
<1> QED
  BY <1>1, <1>2 DEF Hardware

\* A byte is written behind all others.
LEMMA WriteInOrder ==
  ASSUME IInv, OrderInv, Good, Write
  PROVE  OrderInv'
<1> DEFINE n == written + 1
           longer == Append(u.ring, n)
           v == [u EXCEPT !.ring = longer]
<1>a. /\ written \in Nat /\ u \in Ports(written) /\ wire \in Seq(1 .. written)
      /\ conf \in [ConfFields -> BOOLEAN] /\ dropped \subseteq 1 .. written
      /\ Orderly(u) /\ Control(u) /\ PortControl
      /\ Rising(wire) /\ Before(ToSet(wire), InLine(u))
      /\ ToSet(wire) \cup InLine(u) = (1 .. written) \ dropped
  BY ImxUartAssumption DEF IInv, TypesInv, OrderInv
<1>1. PICK ok \in BOOLEAN :
        u' = IF u.stopped THEN [u EXCEPT !.ring = Append(@, written + 1)]
             ELSE StartTx([u EXCEPT !.ring = Append(@, written + 1)], ok)
  BY Zenon DEF Write
<1>2. /\ port = "open" /\ port' = port /\ written' = n
      /\ Len(u.ring) < RingSize /\ UNCHANGED <<conf, wire, dropped>>
  BY DEF Write, Awake
<1>3. u' = IF u.stopped THEN v ELSE StartTx(v, ok)
  BY <1>a, <1>1 DEF Ports
<1>b. /\ u.ring \in Seq(1 .. written) /\ u.ring \in Seq(0 .. written)
      /\ ToSet(u.ring) \subseteq 1 .. written
      /\ ToSet(u.dma) \subseteq 1 .. written /\ ToSet(u.fifo) \subseteq 0 .. written
      /\ Ahead(u) \subseteq 1 .. written /\ Len(u.ring) \in Nat /\ u.txBytes \in Nat
  BY <1>a, PortSequences
<1>4. ToSet(wire) \subseteq 1 .. written
  BY <1>a, ToSetIn
<1>5. n \in 1 .. n /\ n \in Nat /\ \A a \in 0 .. written : a < n
  BY <1>a
<1>c. 0 .. written \subseteq 0 .. n /\ 1 .. written \subseteq 0 .. written /\ n \in 0 .. n
  BY <1>a
<1>6. ToSet(longer) = ToSet(u.ring) \cup {n} /\ Rising(longer)
  <2>1. u.ring \in Seq(0 .. n)
    BY <1>b, <1>c, SeqMonotonic
  <2>2. Before(ToSet(u.ring), {n})
    BY <1>b, <1>5, <1>c, Zenon DEF Before
  <2> QED
    BY <1>a, <1>5, <1>c, <2>1, <2>2, AppendIsInOrder DEF Orderly
<1>7. /\ longer \in Seq(1 .. n) /\ Len(longer) = Len(u.ring) + 1 /\ longer[Len(u.ring) + 1] = n
      /\ \A i \in 1 .. Len(u.ring) : longer[i] = u.ring[i]
  <2>1. u.ring \in Seq(1 .. n)
    BY <1>a, <1>b, 1 .. written \subseteq 1 .. n, SeqMonotonic
  <2> QED
    BY <1>5, <2>1, AppendProperties
<1>8. u \in Ports(n)
  BY <1>a, PortsGrow
<1> HIDE DEF longer
<1>9. Len(longer) <= RingSize
  BY <1>2, <1>7, <1>b, ImxUartAssumption
<1>10. /\ v \in Ports(n) /\ v.ring = longer /\ v.fifo = u.fifo /\ v.dma = u.dma
       /\ v.txing = u.txing /\ v.txBytes = u.txBytes /\ v.tx = u.tx /\ v.trdyEn = u.trdyEn
       /\ v.tcEn = u.tcEn /\ v.dmaOn = u.dmaOn
  <2> HIDE DEF n
  <2> QED
    BY <1>7, <1>8, <1>9 DEF Ports
<1> HIDE DEF v
<1>11. Control(v)
  BY <1>a, <1>b, <1>7, <1>10 DEF Control
<1>12. Ahead(v) = Ahead(u) \cup {n}
  <2> DEFINE f == First(u)
             l == Len(u.ring)
  <2>1. First(v) = f
    BY <1>10 DEF First
  <2>2. f \in 1 .. l + 1 /\ l \in Nat
    BY <1>a, <1>b DEF First, Control
  <2>3. Ahead(v) = {longer[i] : i \in f .. l + 1} /\ Ahead(u) = {u.ring[i] : i \in f .. l}
    BY <1>7, <1>10, <2>1 DEF Ahead
  <2>4. /\ \A i \in f .. l : longer[i] = u.ring[i] /\ i \in f .. l + 1
        /\ \A i \in f .. l + 1 : i \in f .. l \/ i = l + 1
        /\ l + 1 \in f .. l + 1 /\ longer[l + 1] = n
    <3>1. \A i \in f .. l : i \in 1 .. l
      BY <2>2
    <3> HIDE DEF f, n
    <3> QED
      BY <1>7, <2>2, <3>1
  <2> HIDE DEF f, l, n
  <2>5. ASSUME NEW a \in Ahead(v) PROVE a \in Ahead(u) \cup {n}
    <3>1. PICK i \in f .. l + 1 : a = longer[i]
      BY <2>3, <2>5, Zenon
    <3>2. CASE i \in f .. l
      BY <2>3, <2>4, <3>1, <3>2, Zenon
    <3>3. CASE i = l + 1
      BY <2>4, <3>1, <3>3, Zenon
    <3> QED
      BY <2>4, <3>2, <3>3
  <2>6. ASSUME NEW a \in Ahead(u) PROVE a \in Ahead(v)
    <3>1. PICK i \in f .. l : a = u.ring[i]
      BY <2>3, <2>6, Zenon
    <3> QED
      BY <2>3, <2>4, <3>1, Zenon
  <2>7. n \in Ahead(v)
    BY <2>3, <2>4, Zenon
  <2> QED
    BY <2>5, <2>6, <2>7
<1>13. Orderly(v)
  <2>1. Before(ToSet(u.fifo) \cup ToSet(u.dma), {n})
    BY <1>b, <1>5, <1>c, Zenon DEF Before
  <2>2. Before(ToSet(v.fifo) \cup ToSet(v.dma), Ahead(v))
    BY <1>a, <1>10, <1>12, <2>1, Zenon DEF Orderly, Before
  <2> QED
    BY <1>a, <1>6, <1>10, <2>2 DEF Orderly
<1>14. InLine(v) = InLine(u) \cup {n}
  BY <1>5, <1>10, <1>12 DEF InLine, XCHAR
<1>15. Before(ToSet(wire), InLine(v))
  BY <1>a, <1>4, <1>5, <1>c, <1>14, Zenon DEF Before
<1>16. ToSet(wire) \cup InLine(v) = (1 .. n) \ dropped
  <2>1. 1 .. n = (1 .. written) \cup {n} /\ n \notin 1 .. written
    BY <1>a
  <2> HIDE DEF n
  <2> QED
    BY <1>a, <1>14, <2>1
<1>17. Starts(v, u') /\ Kept(v, u') /\ Control(u')
  <2>1. CASE u.stopped
    BY <1>3, <1>11, <2>1 DEF Starts, Kept
  <2>2. CASE ~u.stopped
    BY <1>a, <1>3, <1>5, <1>10, <1>11, <2>2, StartTxKeeps, StartTxInOrder
  <2> QED
    BY <2>1, <2>2
<1>18. PortControl'
  BY <1>a, <1>2, <1>10, <1>17 DEF PortControl, Starts
<1>19. Orderly(u') /\ InLine(u') = InLine(v)
  BY <1>13, <1>17 DEF Kept
<1>20. /\ Before(ToSet(wire'), InLine(u')) /\ Rising(wire')
       /\ ToSet(wire') \cup InLine(u') = (1 .. written') \ dropped'
  BY <1>a, <1>2, <1>15, <1>16, <1>19
<1>21. /\ Control(u)' /\ Orderly(u)' /\ InLine(u)' = InLine(u')
       /\ Rising(wire)' /\ Before(ToSet(wire), InLine(u))'
  BY <1>2, <1>17, <1>19, <1>20 DEF Control, Orderly, InLine, Ahead, First, Rising, Before
<1> QED
  BY <1>18, <1>20, <1>21 DEF OrderInv

\* What the tty asks for finds the port open.
LEMMA AskedInOrder ==
  ASSUME IInv, OrderInv, Good, Awake, UNCHANGED <<conf, port, wire, written, dropped>>,
         Starts(u, u'), Kept(u, u'), Control(u')
  PROVE  OrderInv'
<1>1. PortControl'
  BY DEF OrderInv, PortControl, Starts, Awake
<1> QED
  BY <1>1, ServedInOrder

\* The rest of what the tty asks for; a flush drops what it clears.
LEMMA TtyInOrder == IInv /\ OrderInv /\ Good /\ Good' /\ Tty => OrderInv'
<1> SUFFICES ASSUME IInv, OrderInv, Good, Good', Tty PROVE OrderInv'
  OBVIOUS
<1>a. /\ written \in Nat /\ u \in Ports(written) /\ conf \in [ConfFields -> BOOLEAN]
      /\ Orderly(u) /\ Control(u) /\ PortControl
  BY ImxUartAssumption DEF IInv, TypesInv, OrderInv
<1>b. \A ok \in DmaOutcomes : ok \in BOOLEAN
  BY DEF DmaOutcomes
<1>1. CASE Write
  BY <1>1, WriteInOrder
<1>2. CASE SendXchar \/ FlowStart
  <2>1. PICK v \in {[u EXCEPT !.xchar = TRUE], [u EXCEPT !.stopped = FALSE]}, ok \in BOOLEAN :
          u' = StartTx(v, ok)
    <3>1. CASE SendXchar
      BY <3>1, Zenon DEF SendXchar
    <3>2. CASE FlowStart
      <4>1. PICK ok \in IF u.dmaOn THEN DmaOutcomes ELSE {TRUE} :
              u' = StartTx([u EXCEPT !.stopped = FALSE], ok)
        BY <3>2, Zenon DEF FlowStart
      <4>2. ok \in BOOLEAN
        BY <1>b, <4>1
      <4> QED
        BY <4>1, <4>2
    <3> QED
      BY <1>2, <3>1, <3>2
  <2>2. Awake /\ UNCHANGED <<conf, port, wire, written, dropped>>
    BY <1>2 DEF SendXchar, FlowStart
  <2>3. /\ v \in Ports(written) /\ SameContent(u, v) /\ v.tx = u.tx /\ v.trdyEn = u.trdyEn
        /\ v.tcEn = u.tcEn /\ v.dmaOn = u.dmaOn /\ v.cb = u.cb
    BY <1>a, <2>1 DEF Ports, SameContent
  <2>4. Control(v)
    BY <1>a, <2>3 DEF Control, SameContent
  <2>5. Kept(v, u') /\ Control(u') /\ Starts(v, u')
    BY <1>a, <2>1, <2>3, <2>4, StartTxKeeps, StartTxInOrder
  <2>6. Kept(u, u') /\ Starts(u, u')
    BY <2>3, <2>5, SameThenKept DEF Starts, SameContent
  <2> QED
    BY <2>2, <2>5, <2>6, AskedInOrder
<1>3. CASE FlowStop
  <2> DEFINE v == [u EXCEPT !.stopped = TRUE]
  <2>1. u' = StopTx(v) /\ Awake /\ UNCHANGED <<conf, port, wire, written, dropped>>
    BY <1>3 DEF FlowStop
  <2>2. /\ v \in Ports(written) /\ SameContent(u, v) /\ v.tx = u.tx /\ v.trdyEn = u.trdyEn
        /\ v.tcEn = u.tcEn /\ v.dmaOn = u.dmaOn /\ v.cb = u.cb
    BY <1>a DEF Ports, SameContent
  <2> HIDE DEF v
  <2>3. Control(v)
    BY <1>a, <2>2 DEF Control, SameContent
  <2>4. SameContent(v, u') /\ Control(u') /\ Starts(v, u')
    BY <1>a, <2>1, <2>2, <2>3, StopTxInOrder, StopTxKeeps DEF Transfer, Starts
  <2>5. SameContent(u, u') /\ Starts(u, u')
    BY <2>2, <2>4 DEF SameContent, Starts
  <2> QED
    BY <2>1, <2>4, <2>5, SameIsKept, AskedInOrder
<1>4. CASE SetTermios
  <2> DEFINE v == RtsIdle(u)
  <2>1. PICK rs485 \in {FALSE, conf.rs485} :
          u' = [v EXCEPT !.rxEn = @ \/ (rs485 /\ conf.rxDuringTx)]
    BY <1>4 DEF SetTermios
  <2>2. Awake /\ UNCHANGED <<conf, port, wire, written, dropped>>
    BY <1>4 DEF SetTermios
  <2>3. /\ v \in Ports(written) /\ SameContent(u, v) /\ v.tx = u.tx /\ v.trdyEn = u.trdyEn
        /\ v.tcEn = u.tcEn /\ v.dmaOn = u.dmaOn /\ v.cb = u.cb
    BY <1>a, ZenonT(40) DEF RtsIdle, Ports, SameContent
  <2> HIDE DEF v
  <2>4. /\ SameContent(v, u') /\ u'.tx = v.tx /\ u'.trdyEn = v.trdyEn
        /\ u'.tcEn = v.tcEn /\ u'.dmaOn = v.dmaOn /\ u'.cb = v.cb
    BY <2>1, <2>3 DEF Ports, SameContent
  <2>5. SameContent(u, u') /\ Starts(u, u') /\ Control(u')
    BY <1>a, <2>3, <2>4 DEF SameContent, Starts, Control
  <2> QED
    BY <2>2, <2>5, SameIsKept, AskedInOrder
<1>5. CASE FlushBuffer
  <2> DEFINE first == (IF u.txing THEN u.txBytes ELSE 0) + 1
             waiting == ToSet(SubSeq(u.ring, first, Len(u.ring)))
             v == [u EXCEPT !.ring = <<>>]
             D == (IF u.dmaOn THEN BytesOf(u.fifo) \cup BytesOf(u.dma) ELSE {}) \cup waiting
  <2>1. PICK late \in {FALSE, u.cb} :
          /\ u' = IF u.dmaOn THEN [v EXCEPT !.fifo = <<>>, !.dma = <<>>, !.cb = late,
                                            !.txBytes = 0, !.txing = FALSE,
                                            !.txDmaEn = @ /\ ~u.txing]
                  ELSE v
          /\ mishaps' = mishaps \cup (IF late THEN {"late"} ELSE {})
                \cup (IF /\ conf.rs485
                         /\ u.tx = "waitAfterRts" \/ (u.dmaOn /\ u.tx = "send" /\ ~u.tcEn)
                      THEN {"flush"} ELSE {})
    BY <1>5 DEF FlushBuffer
  <2>2. /\ Awake /\ dropped' = dropped \cup D
        /\ UNCHANGED <<conf, port, asleep, wire, written>>
    BY <1>5 DEF FlushBuffer
  <2>3. waiting = Ahead(u)
    <3>1. u.ring \in Seq(0 .. written) /\ Len(u.ring) \in Nat /\ u.txBytes \in Nat
      BY <1>a, PortSequences
    <3>2. first \in Nat \ {0} /\ Len(u.ring) \in 0 .. Len(u.ring)
      BY <3>1
    <3>3. written \in Nat
      BY <1>a
    <3>4. \A a \in Nat \ {0} :
            ToSet(SubSeq(u.ring, a, Len(u.ring))) = {u.ring[i] : i \in a .. Len(u.ring)}
      BY <3>1, <3>2, <3>3, PartIsInOrder
    <3> QED
      BY <3>2, <3>4 DEF Ahead, First
  <2>4. /\ InLine(u) = BytesOf(u.fifo) \cup ToSet(u.dma) \cup Ahead(u)
        /\ BytesOf(u.dma) = ToSet(u.dma)
    BY <1>a, PiecesApart DEF BytesOf
  <2> HIDE DEF waiting
  <2>5. CASE u.dmaOn
    <3>1. D = InLine(u)
      BY <2>3, <2>4, <2>5
    <3>2. /\ u'.ring = <<>> /\ u'.fifo = <<>> /\ u'.dma = <<>> /\ ~u'.txing
          /\ u'.tx = u.tx /\ u'.trdyEn = u.trdyEn /\ u'.tcEn = u.tcEn /\ u'.dmaOn = u.dmaOn
      BY <1>a, <2>1, <2>5 DEF Ports
    <3>3. Ahead(u') = {}
      <4>1. First(u') .. Len(u'.ring) = {}
        BY <3>2 DEF First
      <4> QED
        BY <4>1 DEF Ahead
    <3>4. InLine(u') = {} /\ Orderly(u')
      <4>1. ToSet(u'.fifo) = {} /\ ToSet(u'.dma) = {} /\ Rising(u'.fifo) /\ Rising(u'.dma)
            /\ Rising(u'.ring)
        BY <3>2, NothingIsInOrder
      <4>2. Before(ToSet(u'.fifo), ToSet(u'.dma))
        BY <4>1, Zenon DEF Before
      <4>3. Before(ToSet(u'.fifo) \cup ToSet(u'.dma), Ahead(u'))
        BY <3>3, Zenon DEF Before
      <4> QED
        BY <3>3, <4>1, <4>2, <4>3 DEF InLine, Orderly
    <3>5. Control(u') /\ PortControl'
      BY <1>a, <2>2, <3>2 DEF Control, PortControl, Awake
    <3> HIDE DEF D
    <3>6. D \in SUBSET InLine(u) /\ InLine(u') = InLine(u) \ D
      BY <3>1, <3>4
    <3> QED
      BY <2>2, <3>4, <3>5, <3>6, DropsInOrder
  <2>6. CASE ~u.dmaOn
    <3>1. ~u.txing
      BY <1>a, <2>2, <2>6 DEF PortControl, Awake
    <3>2. D = Ahead(u)
      BY <2>3, <2>6
    <3>3. /\ u'.ring = <<>> /\ u'.fifo = u.fifo /\ u'.dma = u.dma /\ u'.txing = u.txing
          /\ u'.tx = u.tx /\ u'.trdyEn = u.trdyEn /\ u'.tcEn = u.tcEn /\ u'.dmaOn = u.dmaOn
      BY <1>a, <2>1, <2>6 DEF Ports
    <3>4. /\ Orderly(u') /\ InLine(u') = InLine(u) \ Ahead(u)
          /\ Ahead(u) \subseteq InLine(u)
      BY <1>a, <3>1, <3>3, RingEmptied
    <3>5. Control(u') /\ PortControl'
      BY <1>a, <2>2, <3>1, <3>3 DEF Control, PortControl, Awake
    <3> HIDE DEF D
    <3>6. D \in SUBSET InLine(u) /\ InLine(u') = InLine(u) \ D
      BY <3>2, <3>4
    <3> QED
      BY <2>2, <3>4, <3>5, <3>6, DropsInOrder
  <2> QED
    BY <2>5, <2>6
<1> QED
  BY <1>1, <1>2, <1>3, <1>4, <1>5 DEF Tty

\* A port that is opened has the same ring and transfer.
LEMMA StartedInOrder ==
  ASSUME NEW n \in Nat, NEW v \in Ports(n), NEW dmaInited \in BOOLEAN
  PROVE  LET w == RtsIdle(Started(v, dmaInited))
         IN  w.ring = v.ring /\ w.txBytes = v.txBytes
<1> DEFINE w == Started(v, dmaInited)
<1>1. w.ring = v.ring /\ w.txBytes = v.txBytes
  BY DEF Started, Ports
<1>2. /\ RtsIdle(w).ring = w.ring /\ RtsIdle(w).txBytes = w.txBytes
  <2>1. DOMAIN w = DOMAIN v
    BY DEF Started
  <2> HIDE DEF w
  <2> QED
    BY <2>1 DEF RtsIdle, Ports
<1> QED
  BY <1>1, <1>2

\* Opening, closing, suspend and resume: a port that is opened or closed drops what is in
\* its FIFO, or in the ring.
LEMMA OpsInOrder == IInv /\ OrderInv /\ Good /\ Good' /\ Ops => OrderInv'
<1> SUFFICES ASSUME IInv, OrderInv, Good, Good', Ops PROVE OrderInv'
  OBVIOUS
<1>a. /\ written \in Nat /\ u \in Ports(written) /\ conf \in [ConfFields -> BOOLEAN]
      /\ Orderly(u) /\ Control(u) /\ PortControl
  BY ImxUartAssumption DEF IInv, TypesInv, OrderInv
<1>b. \A x \in {FALSE, conf.dma} : x \in BOOLEAN
  BY <1>a DEF ConfFields
<1>c. /\ u.cb \/ u.dma # <<>> => u.txing
      /\ port \in {"disabled", "closed"} => ~u.cb /\ u.dma = <<>>
      /\ port \in {"stopped", "disabled", "closed"} => ~u.dmaOn
  BY DEF IInv, DmaInv, ClosedInv, Good
<1>1. CASE Startup \/ Resume
  <2>1. PICK dmaInited \in {FALSE, conf.dma} :
          u' \in {RtsIdle(Started(u, dmaInited)), StartTx(RtsIdle(Started(u, dmaInited)), TRUE)}
    BY <1>1, Zenon DEF Startup, Resume
  <2>2. /\ port = "closed" /\ port' = "open" /\ dropped' = dropped \cup BytesOf(u.fifo)
        /\ UNCHANGED <<conf, wire, written>>
    BY <1>1 DEF Startup, Resume
  <2>3. dmaInited \in BOOLEAN
    BY <1>b, <2>1
  <2> DEFINE v == RtsIdle(Started(u, dmaInited))
  <2>4. /\ v \in Ports(written) /\ v.dmaOn = dmaInited /\ v.cb = u.cb /\ v.dma = u.dma
        /\ v.txing = u.txing /\ v.tx = u.tx /\ v.fifo = <<>>
        /\ v.trdyEn = u.trdyEn /\ v.tcEn = u.tcEn
        /\ v.ring = u.ring /\ v.txBytes = u.txBytes
    BY <1>a, <2>3, StartedKeeps, StartedInOrder
  <2> HIDE DEF v
  <2>5. Control(v) /\ ~v.txing
    BY <1>a, <2>2, <2>4 DEF Control, PortControl
  <2>6. /\ Orderly(v) /\ InLine(v) = InLine(u) \ BytesOf(u.fifo)
        /\ BytesOf(u.fifo) \in SUBSET InLine(u)
    BY <1>a, <2>4, FifoEmptied
  <2>7. Kept(v, u') /\ Control(u') /\ (u'.txing => u'.dmaOn)
    <3>1. CASE u' = v
      BY <2>5, <3>1 DEF Kept
    <3>2. CASE u' = StartTx(v, TRUE)
      <4>1. Kept(v, u') /\ Control(u')
        BY <1>a, <2>4, <2>5, <3>2, StartTxInOrder
      <4>2. Starts(v, u')
        BY <1>a, <2>4, <3>2, StartTxKeeps
      <4> QED
        BY <2>5, <4>1, <4>2 DEF Starts
    <3> QED
      BY <2>1, <3>1, <3>2 DEF v
  <2>8. PortControl'
    BY <2>2, <2>7 DEF PortControl
  <2>9. Orderly(u') /\ InLine(u') = InLine(u) \ BytesOf(u.fifo)
    BY <2>6, <2>7 DEF Kept
  <2> QED
    BY <2>2, <2>6, <2>7, <2>8, <2>9, DropsInOrder
<1>2. CASE Suspend
  <2> DEFINE v == StopTx(u)
  <2>1. /\ Awake /\ u' = [v EXCEPT !.rxEn = FALSE]
        /\ UNCHANGED <<conf, port, wire, written, dropped, mishaps>>
    BY <1>2 DEF Suspend
  <2>2. v \in Ports(written) /\ SameContent(u, v) /\ Control(v) /\ Starts(u, v)
    BY <1>a, StopTxKeeps, StopTxInOrder DEF Transfer, Starts
  <2> HIDE DEF v
  <2>3. /\ SameContent(v, u') /\ Starts(v, u')
        /\ u'.tx = v.tx /\ u'.trdyEn = v.trdyEn /\ u'.tcEn = v.tcEn
    BY <2>1, <2>2 DEF Ports, SameContent, Starts
  <2>4. SameContent(u, u') /\ Starts(u, u') /\ Control(u')
    BY <2>2, <2>3 DEF SameContent, Starts, Control
  <2> QED
    BY <2>1, <2>4, SameIsKept, AskedInOrder
<1>3. CASE ShutdownTerminate
  <2>1. /\ port' = "terminated" /\ u' = [u EXCEPT !.dma = <<>>, !.cb = FALSE, !.txing = FALSE]
        /\ mishaps' = IF u.txing THEN mishaps \cup {"cut"} ELSE mishaps
        /\ UNCHANGED <<conf, wire, written, dropped>>
    BY <1>3 DEF ShutdownTerminate
  <2>2. u.txing = FALSE /\ u.dma = <<>>
    BY <1>a, <1>c, <2>1 DEF Good, Ports
  <2>3. /\ u'.ring = u.ring /\ u'.fifo = u.fifo /\ u'.dma = u.dma /\ u'.txing = FALSE
        /\ u'.txBytes = u.txBytes /\ u'.tx = u.tx /\ u'.trdyEn = u.trdyEn /\ u'.tcEn = u.tcEn
    BY <1>a, <2>1, <2>2 DEF Ports
  <2>4. SameContent(u, u')
    BY <2>2, <2>3 DEF SameContent
  <2>5. Control(u') /\ PortControl'
    BY <1>a, <2>1, <2>3 DEF Control, PortControl
  <2> QED
    BY <2>1, <2>4, <2>5, SameIsKept, ServedInOrder
<1>4. CASE ShutdownStop
  <2> DEFINE v == StopTx(u)
  <2>1. /\ port = "terminated" /\ port' = "stopped"
        /\ u' = [v EXCEPT !.rxEn = FALSE, !.txDmaEn = FALSE, !.dmaOn = FALSE]
        /\ UNCHANGED <<conf, wire, written, dropped>>
    BY <1>4 DEF ShutdownStop
  <2>2. /\ v \in Ports(written) /\ SameContent(u, v) /\ Control(v)
        /\ v.trdyEn => u.trdyEn
    BY <1>a, StopTxKeeps, StopTxInOrder
  <2> HIDE DEF v
  <2>3. /\ SameContent(v, u') /\ u'.tx = v.tx /\ u'.trdyEn = v.trdyEn /\ u'.tcEn = v.tcEn
    BY <2>1, <2>2 DEF Ports, SameContent
  <2>4. SameContent(u, u') /\ Control(u')
    BY <2>2, <2>3 DEF SameContent, Control
  <2>5. PortControl'
    BY <1>a, <2>1, <2>2, <2>3 DEF PortControl, SameContent
  <2> QED
    BY <2>1, <2>4, <2>5, SameIsKept, ServedInOrder
<1>5. CASE ShutdownDisable
  <2>1. /\ port' = "disabled" /\ u' = [u EXCEPT !.dma = <<>>, !.cb = FALSE]
        /\ mishaps' = IF u.txing THEN mishaps \cup {"cut"} ELSE mishaps
        /\ UNCHANGED <<conf, wire, written, dropped>>
    BY <1>5 DEF ShutdownDisable
  <2>2. ~u.txing /\ u.dma = <<>>
    BY <1>c, <2>1 DEF Good
  <2>3. /\ SameContent(u, u') /\ u'.tx = u.tx /\ u'.trdyEn = u.trdyEn /\ u'.tcEn = u.tcEn
    BY <1>a, <2>1, <2>2 DEF Ports, SameContent
  <2>4. Control(u') /\ PortControl'
    BY <1>a, <2>1, <2>2, <2>3 DEF Control, PortControl, SameContent
  <2> QED
    BY <2>1, <2>3, <2>4, SameIsKept, ServedInOrder
<1>6. CASE ShutdownEnd
  <2> DEFINE rest == IF asleep THEN u.ring ELSE <<>>
  <2>1. /\ port = "disabled" /\ port' = "closed"
        /\ u' = [u EXCEPT !.trdyEn = FALSE, !.tcEn = FALSE, !.ring = IF asleep THEN @ ELSE <<>>]
        /\ dropped' = IF asleep THEN dropped ELSE dropped \cup ToSet(u.ring)
        /\ UNCHANGED <<conf, asleep, wire, written>>
    BY <1>6 DEF ShutdownEnd
  <2>2. u' = [u EXCEPT !.trdyEn = FALSE, !.tcEn = FALSE, !.ring = rest]
    BY <1>a, <2>1 DEF Ports
  <2> HIDE DEF rest
  <2>3. /\ u'.ring = rest /\ u'.fifo = u.fifo /\ u'.dma = u.dma /\ u'.txing = u.txing
        /\ u'.txBytes = u.txBytes /\ ~u'.trdyEn /\ ~u'.tcEn /\ u'.tx = u.tx
    BY <1>a, <2>2 DEF Ports
  <2>4. ~u.txing /\ ~u'.txing
    BY <1>a, <2>1, <2>3 DEF PortControl
  <2>5. Control(u') /\ PortControl'
    BY <1>a, <2>1, <2>3, <2>4 DEF Control, PortControl
  <2>6. CASE asleep
    <3>1. SameContent(u, u')
      BY <2>3, <2>6 DEF SameContent, rest
    <3> QED
      BY <2>1, <2>5, <2>6, <3>1, SameIsKept, ServedInOrder
  <2>7. CASE ~asleep
    <3>1. u'.ring = <<>>
      BY <2>3, <2>7 DEF rest
    <3>2. ToSet(u.ring) = Ahead(u)
      BY <1>a, <2>4, WithoutTransfer
    <3>3. /\ Orderly(u') /\ InLine(u') = InLine(u) \ Ahead(u) /\ Ahead(u) \in SUBSET InLine(u)
      BY <1>a, <2>3, <2>4, <3>1, RingEmptied
    <3> QED
      BY <2>1, <2>5, <2>7, <3>2, <3>3, DropsInOrder
  <2> QED
    BY <2>6, <2>7
<1>7. CASE ReopenFails
  <2>1. /\ port = "closed" /\ port' = "closed" /\ u' = [u EXCEPT !.ring = <<>>]
        /\ dropped' = dropped \cup ToSet(u.ring) /\ UNCHANGED <<conf, wire, written>>
    BY <1>7 DEF ReopenFails
  <2>2. /\ u'.ring = <<>> /\ u'.fifo = u.fifo /\ u'.dma = u.dma /\ u'.txing = u.txing
        /\ u'.txBytes = u.txBytes /\ u'.trdyEn = u.trdyEn /\ u'.tcEn = u.tcEn /\ u'.tx = u.tx
    BY <1>a, <2>1 DEF Ports
  <2>3. ~u.txing /\ ~u'.txing
    BY <1>a, <2>1, <2>2 DEF PortControl
  <2>4. Control(u') /\ PortControl'
    BY <1>a, <2>1, <2>2, <2>3 DEF Control, PortControl
  <2>5. ToSet(u.ring) = Ahead(u)
    BY <1>a, <2>3, WithoutTransfer
  <2>6. /\ Orderly(u') /\ InLine(u') = InLine(u) \ Ahead(u) /\ Ahead(u) \in SUBSET InLine(u)
    BY <1>a, <2>2, <2>3, RingEmptied
  <2> QED
    BY <2>1, <2>4, <2>5, <2>6, DropsInOrder
<1> QED
  BY <1>1, <1>2, <1>3, <1>4, <1>5, <1>6, <1>7 DEF Ops, Shutdown

\* Nothing has been written yet.
LEMMA InitInOrder == Init => OrderInv
<1> SUFFICES ASSUME Init PROVE OrderInv
  OBVIOUS
<1>1. /\ port = "closed" /\ wire = <<>> /\ written = 0 /\ dropped = {}
      /\ u.ring = <<>> /\ u.fifo = <<>> /\ u.dma = <<>> /\ ~u.txing /\ ~u.trdyEn /\ ~u.tcEn
      /\ u.tx = "off"
  BY DEF Init
<1>2. Ahead(u) = {}
  <2>1. First(u) .. Len(u.ring) = {}
    BY <1>1 DEF First
  <2> QED
    BY <2>1 DEF Ahead
<1>3. Rising(<<>>) /\ ToSet(<<>>) = {}
  BY NothingIsInOrder
<1>4. InLine(u) = {}
  BY <1>1, <1>2, <1>3 DEF InLine
<1>5. /\ Before(ToSet(u.fifo), ToSet(u.dma)) /\ Before(ToSet(wire), InLine(u))
      /\ Before(ToSet(u.fifo) \cup ToSet(u.dma), Ahead(u))
  BY <1>1, <1>2, <1>3, <1>4, Zenon DEF Before
<1>6. ToSet(wire) \cup InLine(u) = (1 .. written) \ dropped
  BY <1>1, <1>3, <1>4
<1> QED
  BY <1>1, <1>3, <1>5, <1>6 DEF OrderInv, Orderly, Control, PortControl

\* OrderInv is kept wherever IInv holds.
LEMMA NextInOrder == IInv /\ OrderInv /\ [Next]_vars => OrderInv'
<1>1. ASSUME OrderInv, UNCHANGED vars PROVE OrderInv'
  BY <1>1 DEF vars, OrderInv, Good, Orderly, Control, PortControl, Rising, Before, InLine,
     Ahead, First
<1>2. ASSUME IInv, OrderInv, Next PROVE OrderInv'
  <2>1. CASE Good'
    <3>1. Good
      BY <1>2, <2>1, MishapsStay DEF Good
    <3> QED
      BY <1>2, <2>1, <3>1, HandlersInOrder, HardwareInOrder, TtyInOrder, OpsInOrder DEF Next
  <2>2. CASE ~Good'
    BY <2>2 DEF OrderInv
  <2> QED
    BY <2>1, <2>2
<1> QED
  BY <1>1, <1>2

\* What a port has not sent is in order, and behind what has left.
LEMMA LineIsInOrder == IInv /\ OrderInv => SentInOrder
<1> SUFFICES ASSUME IInv, OrderInv, Good PROVE SentInOrder
  BY DEF SentInOrder, Good
<1> DEFINE waiting == SubSeq(u.ring, u.txBytes + 1, Len(u.ring))
           sent == wire \o u.fifo
           line == wire \o u.fifo \o Unsent
<1>a. /\ written \in Nat /\ u \in Ports(written) /\ wire \in Seq(1 .. written)
      /\ Orderly(u) /\ Rising(wire) /\ Before(ToSet(wire), InLine(u))
      /\ ToSet(wire) \cup InLine(u) = (1 .. written) \ dropped
  BY DEF IInv, TypesInv, OrderInv
<1>b. /\ u.ring \in Seq(0 .. written) /\ u.fifo \in Seq(0 .. written)
      /\ u.dma \in Seq(0 .. written) /\ Len(u.ring) \in Nat /\ u.txBytes \in Nat
      /\ ToSet(u.fifo) \subseteq 0 .. written
  BY <1>a, PortSequences
<1>c. wire \in Seq(0 .. written) /\ ToSet(wire) \subseteq 1 .. written
  <2>1. ToSet(wire) \subseteq 1 .. written
    BY <1>a, ToSetIn
  <2> QED
    BY <1>a, <2>1, 1 .. written \subseteq 0 .. written, SeqMonotonic
<1>1. /\ Unsent \in Seq(0 .. written) /\ Rising(Unsent)
      /\ ToSet(Unsent) = ToSet(u.dma) \cup Ahead(u)
  <2>1. CASE u.txing
    <3>1. /\ ToSet(waiting) = Ahead(u) /\ Rising(waiting)
      <4>1. u.txBytes + 1 \in Nat \ {0} /\ Len(u.ring) \in 0 .. Len(u.ring)
        BY <1>b
      <4> QED
        BY <1>a, <1>b, <2>1, <4>1, PartIsInOrder, ZenonT(40) DEF Ahead, First, Orderly
    <3>2. waiting \in Seq(0 .. written)
      <4>1. \A i \in u.txBytes + 1 .. Len(u.ring) : u.ring[i] \in 0 .. written
        <5>1. \A i \in 1 .. Len(u.ring) : u.ring[i] \in 0 .. written
          BY <1>b, ElementOfSeq
        <5> QED
          BY <1>b, <5>1
      <4>2. u.txBytes + 1 \in Int /\ Len(u.ring) \in Int
        BY <1>b
      <4> QED
        BY <4>1, <4>2, SubSeqProperties
    <3>3. Before(ToSet(u.dma), Ahead(u))
      BY <1>a, Zenon DEF Orderly, Before
    <3>4. Unsent = u.dma \o waiting
      BY <2>1 DEF Unsent
    <3> HIDE DEF waiting
    <3> QED
      BY <1>a, <1>b, <3>1, <3>2, <3>3, <3>4, ConcatIsInOrder DEF Orderly
  <2>2. CASE ~u.txing
    <3>1. u.dma = <<>>
      BY <2>2 DEF IInv, DmaInv, Good
    <3>2. Unsent = u.ring /\ Ahead(u) = ToSet(u.ring) /\ ToSet(u.dma) = {}
      BY <1>a, <2>2, <3>1, WithoutTransfer, NothingIsInOrder DEF Unsent
    <3> QED
      BY <1>a, <1>b, <3>2 DEF Orderly
  <2> QED
    BY <2>1, <2>2
<1> HIDE DEF waiting
<1>2. Before(ToSet(wire), ToSet(u.fifo)) /\ Before(ToSet(wire), ToSet(Unsent))
  <2>1. \A b \in ToSet(u.fifo) \cup ToSet(Unsent) : b # XCHAR => b \in InLine(u)
    BY <1>1 DEF InLine
  <2> QED
    BY <1>a, <2>1, Zenon DEF Before
<1>3. /\ sent \in Seq(0 .. written) /\ ToSet(sent) = ToSet(wire) \cup ToSet(u.fifo)
      /\ Rising(sent)
  BY <1>a, <1>b, <1>c, <1>2, ConcatIsInOrder DEF Orderly
<1>4. Before(ToSet(sent), ToSet(Unsent))
  BY <1>1, <1>2, <1>3, <1>a, Zenon DEF Orderly, Before
<1> HIDE DEF sent
<1>5. /\ sent \o Unsent \in Seq(0 .. written)
      /\ ToSet(sent \o Unsent) = ToSet(sent) \cup ToSet(Unsent)
      /\ Rising(sent \o Unsent)
  BY <1>a, <1>1, <1>3, <1>4, ConcatIsInOrder
<1>6. Rising(line) /\ ToSet(line) = ToSet(wire) \cup ToSet(u.fifo) \cup ToSet(Unsent)
  BY <1>3, <1>5 DEF sent
<1> HIDE DEF line
<1>7. XCHAR \notin ToSet(wire)
  BY <1>c DEF XCHAR
<1>8. BytesOf(line) = (1 .. written) \ dropped
  BY <1>1, <1>6, <1>7, <1>a DEF BytesOf, InLine
<1> QED
  BY <1>6, <1>8 DEF SentInOrder, Rising, line

-----------------------------------------------------------------------------
(* What the runs check                                                     *)

\* Whatever order interrupts, callbacks, timers, writes, flushes, suspends and shutdowns
\* come in, no more bytes are put into the FIFO than it holds or left in the ring than it
\* has room for, what is left of a transfer belongs to one that is under way, and a port
\* that was shut down in good order has no interrupt enabled.
THEOREM TypeCorrect == Spec => []TypeOK
<1>1. IInv => TypeOK
  BY DEF IInv, TypesInv, DmaInv, ClosedInv, TypeOK, Ports, Timer, Mishaps
<1> QED
  BY <1>1, InitIInv, NextIInv, PTL DEF Spec

\* On an RS-485 line RTS is on, and the receiver as it was asked to be, as long as there
\* is a byte in the FIFO of a port that is open: only in the state SEND does anything put
\* one there, and stop_tx leaves that state when the FIFO is empty.  Transfers that fail,
\* flow control characters, stops and flushes do not disturb it; settings that come in the
\* middle of a transmission, one that was cut and a callback late for a flush are exempt.
THEOREM LineHeldWhileSending == Spec => []RtsWhileSending
<1>1. IInv => RtsWhileSending
  BY DEF IInv, LineInv, Undisturbed, LineHeld, RtsWhileSending
<1> QED
  BY <1>1, InitIInv, NextIInv, PTL DEF Spec

\* Every byte that was not flushed or closed away is on the wire, in the FIFO, in the
\* transfer or in the ring, once and in the order in which it was written, whatever order
\* interrupts, callbacks, timers, flow control and suspends come in: what one of the
\* functions under the lock does to the bytes is to move them towards the wire.
THEOREM OrderKept == Spec => []SentInOrder
<1> USE DEF Spec
<1>1. Spec => []IInv
  BY InitIInv, NextIInv, PTL
<1>2. Spec => []OrderInv
  BY <1>1, InitInOrder, NextInOrder, PTL
<1> QED
  BY <1>1, <1>2, LineIsInOrder, PTL

-----------------------------------------------------------------------------
(* The CAN driver                                                          *)

-----------------------------------------------------------------------------
(* Least and greatest numbers, and sorting                                 *)

\* A set of numbers has a least one.
LEMMA LeastNumber ==
  ASSUME NEW S \in SUBSET Nat, S # {}
  PROVE  \E x \in S : \A y \in S : x <= y
<1>1. PICK x \in S : \A y \in S : ~(<<y, x>> \in OpToRel(<, Nat))
  BY NatLessThanWellFounded, WFMin
<1>2. \A y \in S : ~(y < x)
  BY <1>1 DEF OpToRel
<1> QED
  BY <1>2

\* A finite one has a greatest: a smallest set without one would be without one when an
\* element less is in it.
LEMMA GreatestNumber ==
  ASSUME NEW S \in SUBSET Nat, IsFiniteSet(S), S # {}
  PROVE  \E x \in S : \A y \in S : y <= x
<1> DEFINE HasMax(T) == \E x \in T : \A y \in T : y <= x
           Bad == {n \in Nat : \E T \in SUBSET S : /\ T # {} /\ IsFiniteSet(T)
                                                   /\ Cardinality(T) = n /\ ~HasMax(T)}
<1>1. SUFFICES ASSUME Bad # {} PROVE FALSE
  <2>1. Cardinality(S) \in Nat
    BY FS_CardinalityType
  <2>2. CASE HasMax(S)
    BY <2>2
  <2>3. CASE ~HasMax(S)
    <3>1. Cardinality(S) \in Bad
      BY <2>1, <2>3
    <3> QED
      BY <1>1, <3>1
  <2> QED
    BY <2>2, <2>3
<1>2. PICK n \in Bad : \A k \in Bad : n <= k
  <2>1. Bad \in SUBSET Nat
    OBVIOUS
  <2> HIDE DEF Bad
  <2> QED
    BY <1>1, <2>1, LeastNumber
<1>3. PICK T \in SUBSET S : T # {} /\ IsFiniteSet(T) /\ Cardinality(T) = n /\ ~HasMax(T)
  BY <1>2
<1>4. PICK x \in T : TRUE
  BY <1>3
<1> DEFINE U == T \ {x}
<1>5. IsFiniteSet(U) /\ Cardinality(U) = n - 1 /\ n \in Nat
  BY <1>2, <1>3, <1>4, FS_RemoveElement
<1>6. CASE U = {}
  <2>1. \A y \in T : y = x
    BY <1>6
  <2>2. x \in Nat
    BY <1>3, <1>4
  <2>3. HasMax(T)
    BY <1>4, <2>1, <2>2
  <2> QED
    BY <1>3, <2>3
<1>7. CASE U # {}
  <2>1. Cardinality(U) \in Nat
    BY <1>5, FS_CardinalityType
  <2>2. Cardinality(U) \notin Bad
    BY <1>2, <1>5, <2>1, SMTT(30)
  <2>3. HasMax(U)
    BY <1>3, <1>5, <1>7, <2>1, <2>2
  <2>4. PICK m \in U : \A y \in U : y <= m
    BY <2>3
  <2>5. x \in Nat /\ m \in Nat /\ m \in T
    BY <1>3, <1>4
  <2>6. \A y \in T : y = x \/ y \in U
    OBVIOUS
  <2>7. \A y \in T : y \in Nat
    BY <1>3
  <2>8. \/ m <= x /\ \A y \in T : y <= x
        \/ x <= m /\ \A y \in T : y <= m
    BY <2>4, <2>5, <2>6, <2>7
  <2>9. HasMax(T)
    BY <1>4, <2>5, <2>8
  <2> QED
    BY <1>3, <2>9
<1> QED
  BY <1>6, <1>7

\* s has the elements of S, each once, in their order.
Sorts(s, S) ==
  /\ s \in [1 .. Cardinality(S) -> S] /\ ToSet(s) = S
  /\ \A i, j \in DOMAIN s : i < j => s[i] < s[j]

\* Every finite set of numbers can be sorted: without its greatest element first.
LEMMA Sortable ==
  ASSUME NEW S \in SUBSET Nat, IsFiniteSet(S)
  PROVE  \E s : Sorts(s, S)
<1> DEFINE Bad == {n \in Nat : \E T \in SUBSET S : /\ IsFiniteSet(T) /\ Cardinality(T) = n
                                                   /\ ~ \E s : Sorts(s, T)}
<1>1. SUFFICES ASSUME Bad # {} PROVE FALSE
  <2>1. Cardinality(S) \in Nat
    BY FS_CardinalityType
  <2>2. (\E s : Sorts(s, S)) \/ Cardinality(S) \in Bad
    BY <2>1
  <2> QED
    BY <1>1, <2>2
<1>2. PICK n \in Bad : \A k \in Bad : n <= k
  <2>1. Bad \in SUBSET Nat
    OBVIOUS
  <2> HIDE DEF Bad
  <2> QED
    BY <1>1, <2>1, LeastNumber
<1>3. PICK T \in SUBSET S : IsFiniteSet(T) /\ Cardinality(T) = n /\ ~ \E s : Sorts(s, T)
  BY <1>2
<1>4. CASE T = {}
  <2>1. n = 0
    BY <1>3, <1>4, FS_EmptySet
  <2>2. Sorts(<<>>, T)
    BY <1>3, <1>4, <2>1 DEF Sorts, ToSet
  <2> QED
    BY <1>3, <2>2
<1>5. CASE T # {}
  <2>1. PICK m \in T : \A y \in T : y <= m
    BY <1>3, <1>5, GreatestNumber
  <2> DEFINE U == T \ {m}
  <2>2. IsFiniteSet(U) /\ Cardinality(U) = n - 1 /\ n \in Nat /\ Cardinality(U) \in Nat
    BY <1>2, <1>3, <2>1, FS_RemoveElement, FS_CardinalityType
  <2>3. Cardinality(U) \notin Bad
    BY <1>2, <2>2
  <2>4. PICK e : Sorts(e, U)
    BY <1>3, <2>2, <2>3
  <2> DEFINE f == [i \in 1 .. n |-> IF i = n THEN m ELSE e[i]]
  <2>5. e \in [1 .. (n - 1) -> U] /\ ToSet(e) = U /\ n >= 1
    <3>1. n >= 1
      BY <2>2
    <3> HIDE DEF U
    <3> QED
      BY <2>2, <2>4, <3>1 DEF Sorts
  <2>6. f \in [1 .. n -> T]
    BY <2>1, <2>2, <2>5
  <2>7. ToSet(f) = T
    <3>1. ASSUME NEW y \in T PROVE \E i \in 1 .. n : f[i] = y
      <4>1. CASE y = m
        BY <2>5, <2>2, <4>1
      <4>2. CASE y \in U
        <5>1. PICK i \in 1 .. (n - 1) : e[i] = y
          BY <2>5, <4>2 DEF ToSet
        <5> QED
          BY <2>2, <2>5, <5>1
      <4> QED
        BY <4>1, <4>2
    <3> QED
      BY <2>6, <3>1 DEF ToSet
  <2>8. ASSUME NEW i \in 1 .. n, NEW j \in 1 .. n, i < j PROVE f[i] < f[j]
    <3>1. i \in 1 .. (n - 1) /\ e[i] \in U /\ f[i] = e[i]
      BY <2>2, <2>5, <2>8
    <3>2. CASE j = n
      <4>1. f[j] = m /\ m \in Nat /\ e[i] \in Nat /\ e[i] # m /\ e[i] <= m
        BY <2>1, <3>1, <3>2, <1>3
      <4> QED
        BY <3>1, <4>1
    <3>3. CASE j # n
      <4>1. j \in 1 .. (n - 1) /\ f[j] = e[j]
        BY <2>2, <3>3
      <4> QED
        BY <2>4, <2>5, <2>8, <3>1, <4>1 DEF Sorts
    <3> QED
      BY <3>2, <3>3
  <2>9. Sorts(f, T)
    <3> HIDE DEF f
    <3> QED
      BY <1>3, <2>6, <2>7, <2>8 DEF Sorts
  <2> QED
    BY <1>3, <2>9
<1> QED
  BY <1>4, <1>5

\* A batch goes up in the order of the time stamps.
LEMMA InOrderSorts ==
  ASSUME NEW S \in SUBSET Nat, IsFiniteSet(S)
  PROVE  /\ InOrder(S) \in Seq(S) /\ ToSet(InOrder(S)) = S
         /\ \A i, j \in DOMAIN InOrder(S) : i < j => InOrder(S)[i] < InOrder(S)[j]
<1>1. \E s \in [1 .. Cardinality(S) -> S] :
        ToSet(s) = S /\ \A i, j \in DOMAIN s : i < j => s[i] < s[j]
  BY Sortable DEF Sorts
<1>2. InOrder(S) \in [1 .. Cardinality(S) -> S]
      /\ ToSet(InOrder(S)) = S
      /\ \A i, j \in DOMAIN InOrder(S) : i < j => InOrder(S)[i] < InOrder(S)[j]
  BY <1>1 DEF InOrder
<1>3. Cardinality(S) \in Nat
  BY FS_CardinalityType
<1> QED
  BY <1>2, <1>3
-----------------------------------------------------------------------------
(* Types                                                                   *)

\* The fault confinement levels.
AllLevels == {"active", "warning", "passive", "busoff"}

\* The levels in their order.
LEMMA LevelOrder ==
  /\ Range(Levels) = AllLevels
  /\ Levels[Rank("active") + 1] = "warning"
  /\ Levels[Rank("warning") + 1] = "passive"
  /\ Levels[Rank("passive") + 1] = "busoff"
  /\ Levels[Rank("warning") - 1] = "active"
  /\ Levels[Rank("passive") - 1] = "warning"
<1>1. DOMAIN Levels = 1 .. 4 /\ Levels[1] = "active" /\ Levels[2] = "warning"
      /\ Levels[3] = "passive" /\ Levels[4] = "busoff"
  BY DEF Levels
<1>2. Range(Levels) = AllLevels
  <2>1. \A i \in 1 .. 4 : Levels[i] \in AllLevels
    <3>1. \A i \in 1 .. 4 : i = 1 \/ i = 2 \/ i = 3 \/ i = 4
      OBVIOUS
    <3> QED
      BY <1>1, <3>1 DEF AllLevels
  <2>2. 1 \in 1 .. 4 /\ 2 \in 1 .. 4 /\ 3 \in 1 .. 4 /\ 4 \in 1 .. 4
    OBVIOUS
  <2> QED
    BY <1>1, <2>1, <2>2 DEF AllLevels, Range
<1>3. Rank("active") = 1 /\ Rank("warning") = 2 /\ Rank("passive") = 3
  BY <1>1 DEF Rank
<1> QED
  BY <1>1, <1>2, <1>3

\* Where the levels can go, for the two steps of the bus.
LEMMA LevelSteps ==
  ASSUME CanTypeOK
  PROVE  /\ hw.level \in AllLevels /\ irq.level \in AllLevels
         /\ ErrorsRise =>
              \/ hw.level = "active"
                   /\ hw' = [hw EXCEPT !.level = "warning",
                        !.flags = @ \cup {"error", "warning"}]
              \/ hw.level = "warning"
                   /\ hw' = [hw EXCEPT !.level = "passive", !.flags = @ \cup {"error"}]
              \/ hw.level = "passive"
                   /\ hw' = [hw EXCEPT !.level = "busoff",
                        !.flags = @ \cup {"error", "busoff"}]
         /\ ErrorsFall =>
              \/ hw.level = "warning" /\ hw' = [hw EXCEPT !.level = "active"]
              \/ hw.level = "passive" /\ hw' = [hw EXCEPT !.level = "warning"]
<1>1. hw.level \in AllLevels /\ irq.level \in AllLevels
  BY LevelOrder DEF CanTypeOK
<1>2. ASSUME ErrorsRise
      PROVE  \/ hw.level = "active"
                  /\ hw' = [hw EXCEPT !.level = "warning",
                       !.flags = @ \cup {"error", "warning"}]
             \/ hw.level = "warning"
                  /\ hw' = [hw EXCEPT !.level = "passive", !.flags = @ \cup {"error"}]
             \/ hw.level = "passive"
                  /\ hw' = [hw EXCEPT !.level = "busoff",
                       !.flags = @ \cup {"error", "busoff"}]
  <2> DEFINE level == Levels[Rank(hw.level) + 1]
             new == {"error"} \cup ({level} \cap {"warning", "busoff"})
  <2>1. hw.level # "busoff"
          /\ hw' = [hw EXCEPT !.level = level,
               !.flags = @ \cup {"error"} \cup ({level} \cap {"warning", "busoff"})]
    BY <1>2 DEF ErrorsRise, OnBus
  <2>2. CASE hw.level = "active"
    <3>1. level = "warning"
      BY <2>2, LevelOrder
    <3> HIDE DEF level
    <3>2. \A F : F \cup {"error"} \cup ({level} \cap {"warning", "busoff"})
               = F \cup {"error", "warning"}
      BY <3>1
    <3> QED
      BY <2>1, <2>2, <3>1, <3>2
  <2>3. CASE hw.level = "warning"
    <3>1. level = "passive"
      BY <2>3, LevelOrder
    <3> HIDE DEF level
    <3>2. \A F : F \cup {"error"} \cup ({level} \cap {"warning", "busoff"})
               = F \cup {"error"}
      BY <3>1
    <3> QED
      BY <2>1, <2>3, <3>1, <3>2
  <2>4. CASE hw.level = "passive"
    <3>1. level = "busoff"
      BY <2>4, LevelOrder
    <3> HIDE DEF level
    <3>2. \A F : F \cup {"error"} \cup ({level} \cap {"warning", "busoff"})
               = F \cup {"error", "busoff"}
      BY <3>1
    <3> QED
      BY <2>1, <2>4, <3>1, <3>2
  <2> QED
    BY <1>1, <2>1, <2>2, <2>3, <2>4 DEF AllLevels
<1>3. ASSUME ErrorsFall
      PROVE  \/ hw.level = "warning" /\ hw' = [hw EXCEPT !.level = "active"]
             \/ hw.level = "passive" /\ hw' = [hw EXCEPT !.level = "warning"]
  <2>1. hw.level \notin {"active", "busoff"}
          /\ hw' = [hw EXCEPT !.level = Levels[Rank(hw.level) - 1]]
    BY <1>3 DEF ErrorsFall, OnBus
  <2> QED
    BY <1>1, <2>1, LevelOrder DEF AllLevels
<1> QED
  BY <1>1, <1>2, <1>3

\* The least element of a set of mailboxes, and the last mailbox.
LEMMA LowestIn ==
  ASSUME NEW S \in SUBSET Mailboxes, S # {}
  PROVE  Lowest(S) \in S /\ \A j \in S : Lowest(S) <= j
<1>1. S \in SUBSET Nat
  BY FlexCanAssumption
<1> QED
  BY <1>1, LeastNumber DEF Lowest

\* The last mailbox exists.
LEMMA HighestIn ==
  Highest \in Mailboxes /\ \A j \in Mailboxes : j <= Highest
  BY FlexCanAssumption, GreatestNumber DEF Highest

\* The points of open, close, suspend and resume.
CtlPoints == {"closed", "o.reset", "o.run", "o.irq", "o.enable", "open", "c.irq", "c.stop",
              "c.candev", "s.mask", "s.detach", "s.noirq", "asleep", "r.attach", "r.start",
              "r.run", "r.enable"}

\* The parts of CanTypeOK, for the numbers of the frames sent or received.
NetType(F) == [awake : BOOLEAN, at : {"idle", "echo", "write"}, frame : F, echo : F]
HwType(F) ==
  [chip : {"disabled", "frozen", "running", "stop"}, mb : F,
   iflag : BOOLEAN, imask : BOOLEAN, errMsk : BOOLEAN, stateMsk : BOOLEAN,
   level : AllLevels, flags : SUBSET {"error", "warning", "busoff"}]
RxType(F) ==
  [mb : [Mailboxes -> F], flag : [Mailboxes -> BOOLEAN],
   lock : Mailboxes \cup {-1}, smb : F]
IrqType(F) ==
  [at : {"idle", "rx", "mailbox", "clear", "unlock", "tx", "txdone", "esr", "state",
    "ctrl"},
   last : States, level : AllLevels, pend : SUBSET Mailboxes,
   frame : F, got : BOOLEAN, batch : SUBSET F]
HistType(F, R) ==
  [frames : Nat, sent : Seq(F), echoed : Seq(F), received : Nat,
   up : Seq(R), lost : SUBSET R,
   caught : BOOLEAN, torn : BOOLEAN, disarmed : BOOLEAN, failed : BOOLEAN]
\* What has no number of a frame in it.
BudgetOK == canBudget \in [CanKinds -> Nat] /\ mayWakeup \in BOOLEAN
WorkType == [at : {"none", "pending", "reset", "run", "enable"}, again : BOOLEAN]
ThreadsOK == ctl \in CtlPoints /\ work \in WorkType

\* Queued changes a work item that does not run, or marks it.
LEMMA QueuedTypes ==
  ASSUME work \in WorkType
  PROVE  /\ Queued \in WorkType
         /\ Queued # work /\ ~Queued.again => work.at = "none" /\ Queued.at = "pending"
<1>1. CASE work.at = "none"
  BY <1>1 DEF Queued, WorkType
<1>2. CASE work.at = "pending"
  BY <1>2 DEF Queued, WorkType
<1>3. CASE work.at \notin {"none", "pending"}
  BY <1>3 DEF Queued, WorkType
<1> QED
  BY <1>1, <1>2, <1>3

\* The types in parts.
CanTypes ==
  /\ BudgetOK /\ ThreadsOK /\ state \in States /\ irqOn \in BOOLEAN
  /\ net \in NetType(Frames) /\ hw \in HwType(Frames)
  /\ rx \in RxType(Received) /\ irq \in IrqType(Received)
  /\ hist \in HistType(Frames, Received)
  /\ irq.at # "idle" => irqOn

\* These are the types that the run checks.
LEMMA CanTypesAre == CanTypeOK <=> CanTypes
  BY LevelOrder DEF CanTypeOK, CanTypes, BudgetOK, ThreadsOK, WorkType, CtlPoints, NetType,
     HwType,
     RxType, IrqType, HistType

\* The reset of the chip keeps them.
LEMMA ResetTypes ==
  ASSUME NEW F, NEW R, 0 \in F, 0 \in R, hw \in HwType(F), rx \in RxType(R),
         hist \in HistType(F, R), ChipReset
  PROVE  /\ hw' \in HwType(F) /\ rx' \in RxType(R) /\ hist' \in HistType(F, R)
         /\ hist'.frames = hist.frames /\ hist'.received = hist.received
<1>1. hw' = [hw EXCEPT !.chip = "frozen", !.iflag = FALSE, !.imask = FALSE,
        !.level = "active",
                       !.flags = {}, !.errMsk = FALSE, !.stateMsk = FALSE]
  BY DEF ChipReset
<1>2. hw' \in HwType(F)
  BY <1>1 DEF HwType, AllLevels
<1> DEFINE none == [i \in Mailboxes |-> 0]
           clear == [i \in Mailboxes |-> FALSE]
           gone == {rx.mb[i] : i \in Mailboxes} \cup {rx.smb}
           torn == hist.torn \/ irq.at = "clear"
<1>3. none \in [Mailboxes -> F] /\ clear \in [Mailboxes -> BOOLEAN] /\ gone \subseteq R
      /\ torn \in BOOLEAN
  BY DEF RxType
<1>4. rx' = [rx EXCEPT !.mb = none, !.flag = clear, !.lock = -1, !.smb = 0]
  BY DEF ChipReset, RxReset
<1>5. hist' = [hist EXCEPT !.lost = hist.lost \cup (gone \ {0}), !.torn = torn]
  BY DEF ChipReset, RxReset
<1>6. none \in [Mailboxes -> R]
  OBVIOUS
<1> HIDE DEF none, clear, gone, torn
<1>7. rx' \in RxType(R)
  BY <1>3, <1>4, <1>6 DEF RxType
<1>8. hist' \in HistType(F, R)
  BY <1>3, <1>5 DEF HistType
<1>9. hist'.frames = hist.frames /\ hist'.received = hist.received
  BY <1>5 DEF HistType
<1> QED
  BY <1>2, <1>7, <1>8, <1>9

\* Every step keeps the types, of frames that become more.
LEMMA CanTypesKept ==
  ASSUME CanTypes, [CanNext]_canVars
  PROVE  CanTypes'
<1>a. hist.frames \in Nat /\ hist.received \in Nat
  BY DEF CanTypes, HistType
<1>n. PICK F, R : F = Frames /\ R = Received
  OBVIOUS
<1>z. 0 \in F /\ 0 \in R
  BY <1>a, <1>n DEF Frames, Received
<1>t. /\ net \in NetType(F) /\ hw \in HwType(F) /\ rx \in RxType(R) /\ irq \in IrqType(R)
      /\ hist \in HistType(F, R) /\ state \in States /\ ThreadsOK /\ BudgetOK
      /\ (irq.at # "idle" => irqOn) /\ irqOn \in BOOLEAN
  BY <1>n DEF CanTypes
<1>1. CASE Open
  <2>1. BudgetOK' /\ ThreadsOK'
    BY <1>t, <1>1 DEF Open, BudgetOK, ThreadsOK, CanSpend, CanKinds, CtlPoints
  <2>2. (irq'.at # "idle" => irqOn') /\ irqOn' \in BOOLEAN
    BY <1>t, <1>1 DEF Open, IrqType
  <2> QED
    BY <1>n, <1>t, <1>1, <2>1, <2>2 DEF Open, CanTypes, Frames, Received
<1>2. CASE OpenReset
  <2>1. ChipReset
    BY <1>2 DEF OpenReset
  <2>2. /\ hw' \in HwType(F) /\ rx' \in RxType(R) /\ hist' \in HistType(F, R)
        /\ hist'.frames = hist.frames /\ hist'.received = hist.received
    BY <1>z, <1>t, <2>1, ResetTypes
  <2>3. BudgetOK' /\ ThreadsOK'
    BY <1>t, <1>2 DEF OpenReset, BudgetOK, ThreadsOK, CtlPoints
  <2>4. UNCHANGED <<net, state, irqOn, irq>>
    BY <1>2 DEF OpenReset
  <2> QED
    BY <1>n, <1>t, <2>2, <2>3, <2>4 DEF CanTypes, Frames, Received
<1>3. CASE OpenRun
  <2>1. state' \in States
    BY <1>t, <1>3, LevelOrder DEF OpenRun, ChipRun, States, IrqType, AllLevels
  <2>2. hw' \in HwType(F)
    BY <1>z, <1>t, <1>3 DEF OpenRun, ChipRun, HwType
  <2>3. BudgetOK' /\ ThreadsOK'
    BY <1>t, <1>3 DEF OpenRun, ChipRun, BudgetOK, ThreadsOK, CanSpend, CanKinds, CtlPoints
  <2>4. (irq'.at # "idle" => irqOn') /\ irqOn' \in BOOLEAN
    BY <1>t, <1>3 DEF OpenRun, ChipRun, IrqType
  <2> QED
    BY <1>n, <1>t, <1>3, <2>1, <2>2, <2>3, <2>4
       DEF OpenRun, ChipRun, CanTypes, Frames, Received
<1>4. CASE OpenIrq
  <2>1. BudgetOK' /\ ThreadsOK'
    BY <1>t, <1>4 DEF OpenIrq, BudgetOK, ThreadsOK, CanSpend, CanKinds, CtlPoints
  <2>2. (irq'.at # "idle" => irqOn') /\ irqOn' \in BOOLEAN
    BY <1>t, <1>4 DEF OpenIrq, IrqType
  <2> QED
    BY <1>n, <1>t, <1>4, <2>1, <2>2 DEF OpenIrq, CanTypes, Frames, Received
<1>5. CASE OpenEnable
  <2>1. net' \in NetType(F)
    BY <1>z, <1>t, <1>5 DEF OpenEnable, InterruptsEnable, NetType
  <2>2. hw' \in HwType(F)
    BY <1>z, <1>t, <1>5 DEF OpenEnable, InterruptsEnable, HwType
  <2>3. hist' \in HistType(F, R) /\ hist'.frames = hist.frames
          /\ hist'.received = hist.received
    BY <1>z, <1>t, <1>5 DEF OpenEnable, InterruptsEnable, HistType, RxType, HwType, NetType
  <2>4. BudgetOK' /\ ThreadsOK'
    BY <1>t, <1>5
       DEF OpenEnable, InterruptsEnable, BudgetOK, ThreadsOK, CanSpend, CanKinds, CtlPoints
  <2>5. (irq'.at # "idle" => irqOn') /\ irqOn' \in BOOLEAN
    BY <1>t, <1>5 DEF OpenEnable, InterruptsEnable, IrqType
  <2> QED
    BY <1>n, <1>t, <1>5, <2>1, <2>2, <2>3, <2>4, <2>5
       DEF OpenEnable, InterruptsEnable, CanTypes, Frames, Received
<1>6. CASE OpenFails
  <2>1. state' \in States
    BY <1>t, <1>6, LevelOrder DEF OpenFails, States, IrqType, AllLevels
  <2>2. hw' \in HwType(F)
    BY <1>z, <1>t, <1>6 DEF OpenFails, HwType
  <2>3. BudgetOK' /\ ThreadsOK'
    BY <1>t, <1>6 DEF OpenFails, BudgetOK, ThreadsOK, CanSpend, CanKinds, CtlPoints
  <2>4. (irq'.at # "idle" => irqOn') /\ irqOn' \in BOOLEAN
    BY <1>t, <1>6 DEF OpenFails, IrqType
  <2> QED
    BY <1>n, <1>t, <1>6, <2>1, <2>2, <2>3, <2>4 DEF OpenFails, CanTypes, Frames, Received
<1>7. CASE Close
  <2>1. net' \in NetType(F)
    BY <1>z, <1>t, <1>7 DEF Close, InterruptsDisable, NetType
  <2>2. hw' \in HwType(F)
    BY <1>z, <1>t, <1>7 DEF Close, InterruptsDisable, HwType
  <2>3. BudgetOK' /\ ThreadsOK'
    BY <1>t, <1>7
       DEF Close, InterruptsDisable, BudgetOK, ThreadsOK, CanSpend, CanKinds, CtlPoints
  <2>4. (irq'.at # "idle" => irqOn') /\ irqOn' \in BOOLEAN
    BY <1>t, <1>7 DEF Close, InterruptsDisable, IrqType
  <2> QED
    BY <1>n, <1>t, <1>7, <2>1, <2>2, <2>3, <2>4
       DEF Close, InterruptsDisable, CanTypes, Frames, Received
<1>8. CASE CloseFreeIrq
  <2>1. BudgetOK' /\ ThreadsOK'
    BY <1>t, <1>8 DEF CloseFreeIrq, BudgetOK, ThreadsOK, CanSpend, CanKinds, CtlPoints
  <2>2. (irq'.at # "idle" => irqOn') /\ irqOn' \in BOOLEAN
    BY <1>t, <1>8 DEF CloseFreeIrq, IrqType
  <2> QED
    BY <1>n, <1>t, <1>8, <2>1, <2>2 DEF CloseFreeIrq, CanTypes, Frames, Received
<1>9. CASE CloseStop
  <2>1. state' \in States
    BY <1>t, <1>9, LevelOrder DEF CloseStop, States, IrqType, AllLevels
  <2>2. hw' \in HwType(F)
    BY <1>z, <1>t, <1>9 DEF CloseStop, HwType
  <2>3. BudgetOK' /\ ThreadsOK'
    BY <1>t, <1>9 DEF CloseStop, BudgetOK, ThreadsOK, CanSpend, CanKinds, CtlPoints
  <2>4. (irq'.at # "idle" => irqOn') /\ irqOn' \in BOOLEAN
    BY <1>t, <1>9 DEF CloseStop, IrqType
  <2> QED
    BY <1>n, <1>t, <1>9, <2>1, <2>2, <2>3, <2>4 DEF CloseStop, CanTypes, Frames, Received
<1>10. CASE CloseCandev
  <2>1. net' \in NetType(F)
    BY <1>z, <1>t, <1>10 DEF CloseCandev, NetType
  <2>2. BudgetOK' /\ ThreadsOK'
    BY <1>t, <1>10 DEF CloseCandev, BudgetOK, ThreadsOK, WorkType, CanSpend, CanKinds,
       CtlPoints
  <2>3. (irq'.at # "idle" => irqOn') /\ irqOn' \in BOOLEAN
    BY <1>t, <1>10 DEF CloseCandev, IrqType
  <2> QED
    BY <1>n, <1>t, <1>10, <2>1, <2>2, <2>3 DEF CloseCandev, CanTypes, Frames, Received
<1>11. CASE StartXmit
  <2>1. net' = [net EXCEPT !.awake = FALSE, !.at = "echo", !.frame = hist.frames + 1]
        /\ hist' = [hist EXCEPT !.frames = hist.frames + 1, !.caught = hist.caught
             \/ hw.chip # "running"]
    BY <1>11 DEF StartXmit
  <2>2. hist'.frames = hist.frames + 1 /\ hist'.received = hist.received
    BY <1>t, <2>1 DEF HistType
  <2>3. F \subseteq Frames' /\ hist.frames + 1 \in Frames' /\ R = Received'
    BY <1>a, <1>n, <2>2 DEF Frames, Received
  <2>4. net' \in NetType(Frames')
    BY <1>t, <2>1, <2>3 DEF NetType
  <2>5. hw \in HwType(Frames')
    BY <1>t, <2>3 DEF HwType
  <2>6. hist \in HistType(Frames', R)
    <3>1. Seq(F) \subseteq Seq(Frames')
      BY <2>3
    <3> QED
      BY <1>t, <3>1 DEF HistType
  <2>7. hist' \in HistType(Frames', R)
    <3>1. hist.frames + 1 \in Nat /\ (hist.caught \/ hw.chip # "running") \in BOOLEAN
      BY <1>a
    <3> QED
      BY <2>1, <2>6, <3>1 DEF HistType
  <2>8. BudgetOK' /\ ThreadsOK' /\ UNCHANGED <<state, irqOn, irq, hw, rx>>
    BY <1>t, <1>11 DEF StartXmit, BudgetOK, ThreadsOK, CanSpend, CanKinds, CtlPoints
  <2> QED
    BY <1>n, <1>t, <2>2, <2>3, <2>4, <2>5, <2>6, <2>7, <2>8 DEF CanTypes, Frames, Received
<1>12. CASE XmitEcho
  <2>1. net' \in NetType(F)
    BY <1>z, <1>t, <1>12 DEF XmitEcho, NetType
  <2>2. BudgetOK' /\ ThreadsOK'
    BY <1>t, <1>12 DEF XmitEcho, BudgetOK, ThreadsOK, CanSpend, CanKinds, CtlPoints
  <2>3. (irq'.at # "idle" => irqOn') /\ irqOn' \in BOOLEAN
    BY <1>t, <1>12 DEF XmitEcho, IrqType
  <2> QED
    BY <1>n, <1>t, <1>12, <2>1, <2>2, <2>3 DEF XmitEcho, CanTypes, Frames, Received
<1>13. CASE XmitWrite
  <2>1. net' = [net EXCEPT !.at = "idle"] /\ hw' = [hw EXCEPT !.mb = net.frame]
    BY <1>13 DEF XmitWrite
  <2>2. net' \in NetType(F) /\ net.frame \in F
    BY <1>t, <2>1 DEF NetType
  <2>3. hw' \in HwType(F)
    BY <1>t, <2>1, <2>2 DEF HwType
  <2>4. BudgetOK' /\ ThreadsOK' /\ UNCHANGED <<state, irqOn, irq, rx, hist>>
    BY <1>t, <1>13 DEF XmitWrite, BudgetOK, ThreadsOK, CanSpend, CanKinds, CtlPoints
  <2> QED
    BY <1>n, <1>t, <2>1, <2>2, <2>3, <2>4 DEF CanTypes, Frames, Received
<1>14. CASE Transmit
  <2>1. hw' = [hw EXCEPT !.mb = 0, !.iflag = TRUE]
          /\ hist' = [hist EXCEPT !.sent = Append(hist.sent, hw.mb)]
    BY <1>14 DEF Transmit
  <2>2. hw' \in HwType(F) /\ hw.mb \in F
    BY <1>t, <1>z, <2>1 DEF HwType
  <2>3. Append(hist.sent, hw.mb) \in Seq(F)
    BY <1>t, <2>2 DEF HistType
  <2>4. hist' \in HistType(F, R) /\ hist'.frames = hist.frames
          /\ hist'.received = hist.received
    BY <1>t, <2>1, <2>3 DEF HistType
  <2>5. BudgetOK' /\ ThreadsOK' /\ UNCHANGED <<state, irqOn, irq, rx, net>>
    BY <1>t, <1>14 DEF Transmit, BudgetOK, ThreadsOK, CanSpend, CanKinds, CtlPoints
  <2> QED
    BY <1>n, <1>t, <2>1, <2>2, <2>3, <2>4, <2>5 DEF CanTypes, Frames, Received
<1>15. CASE ErrorsRise
  <2>1. hw' \in HwType(F)
    <3>1. CanTypeOK
      BY CanTypesAre
    <3>2. \E l \in AllLevels, f \in SUBSET {"error", "warning", "busoff"} :
            hw' = [hw EXCEPT !.level = l, !.flags = @ \cup f]
      BY <1>15, <3>1, LevelSteps DEF AllLevels
    <3> QED
      BY <1>t, <3>2, ZenonT(40) DEF HwType
  <2>2. BudgetOK' /\ ThreadsOK' /\ UNCHANGED <<state, irqOn, irq, rx, net, hist>>
    BY <1>t, <1>15 DEF ErrorsRise, BudgetOK, ThreadsOK, CanSpend, CanKinds, CtlPoints
  <2> QED
    BY <1>n, <1>t, <2>1, <2>2 DEF CanTypes, Frames, Received
<1>16. CASE ErrorsFall
  <2>1. hw' \in HwType(F)
    <3>1. CanTypeOK
      BY CanTypesAre
    <3> QED
      BY <1>t, <1>16, <3>1, LevelSteps DEF HwType, AllLevels
  <2>2. BudgetOK' /\ ThreadsOK' /\ UNCHANGED <<state, irqOn, irq, rx, net, hist>>
    BY <1>t, <1>16 DEF ErrorsFall, BudgetOK, ThreadsOK, CanSpend, CanKinds, CtlPoints
  <2> QED
    BY <1>n, <1>t, <2>1, <2>2 DEF CanTypes, Frames, Received
<1>17. CASE Receive
  <2>1. PICK frame : frame = hist.received + 1
    OBVIOUS
  <2>2. PICK over : over = IF Free # {} THEN 0
                        ELSE IF rx.lock = Highest THEN rx.smb ELSE rx.mb[Highest]
    OBVIOUS
  <2>3. /\ CASE Free # {} -> MoveIn(Lowest(Free), frame)
             [] Free = {} /\ rx.lock # Highest -> MoveIn(Highest, frame)
             [] OTHER -> rx' = [rx EXCEPT !.smb = frame]
        /\ hist' = [hist EXCEPT !.received = frame, !.lost = @ \cup ({over} \ {0})]
    BY <1>17, <2>1, <2>2 DEF Receive
  <2>4. hist'.frames = hist.frames /\ hist'.received = frame /\ frame \in Nat
    BY <1>a, <1>t, <2>1, <2>3 DEF HistType
  <2>5. R \subseteq Received' /\ frame \in Received' /\ 0 \in Received' /\ F = Frames'
    BY <1>a, <1>n, <2>1, <2>4 DEF Frames, Received
  <2>6. over \in R
    BY <1>t, <1>z, <2>2, HighestIn DEF RxType
  <2>7. rx \in RxType(Received')
    BY <1>t, <2>5 DEF RxType
  <2>8. irq \in IrqType(Received')
    BY <1>t, <2>5 DEF IrqType
  <2>9. rx' \in RxType(Received')
    <3>1. ASSUME NEW i \in Mailboxes, MoveIn(i, frame) PROVE rx' \in RxType(Received')
      <4>1. rx' = [rx EXCEPT !.mb[i] = frame, !.flag[i] = TRUE,
              !.smb = IF @ = frame THEN 0 ELSE @]
        BY <3>1 DEF MoveIn
      <4> QED
        BY <2>5, <2>7, <4>1 DEF RxType
    <3>2. CASE Free # {}
      <4>1. Lowest(Free) \in Mailboxes
        BY <3>2, LowestIn DEF Free
      <4> QED
        BY <2>3, <3>1, <3>2, <4>1
    <3>3. CASE Free = {} /\ rx.lock # Highest
      BY <2>3, <3>1, <3>3, HighestIn
    <3>4. CASE Free = {} /\ rx.lock = Highest
      <4>1. rx' = [rx EXCEPT !.smb = frame]
        BY <2>3, <3>4
      <4> QED
        BY <2>5, <2>7, <4>1 DEF RxType
    <3> QED
      BY <3>2, <3>3, <3>4
  <2>10. hist' \in HistType(F, Received')
    <3>1. Seq(R) \subseteq Seq(Received')
      BY <2>5
    <3>2. hist \in HistType(F, Received')
      BY <1>t, <2>5, <3>1 DEF HistType
    <3> QED
      BY <2>3, <2>4, <2>5, <2>6, <3>2 DEF HistType
  <2>11. BudgetOK' /\ ThreadsOK' /\ UNCHANGED <<state, irqOn, hw, net, irq>>
    BY <1>t, <1>17 DEF Receive, BudgetOK, ThreadsOK, CanSpend, CanKinds, CtlPoints
  <2> QED
    BY <1>n, <1>t, <2>1, <2>2, <2>3, <2>4, <2>5, <2>6, <2>7, <2>8, <2>9, <2>10, <2>11
       DEF CanTypes, Frames, Received
<1>18. CASE IrqEnter
  <2>1. irq' \in IrqType(R)
    BY <1>z, <1>t, <1>18 DEF IrqEnter, IrqType, States
  <2>2. BudgetOK' /\ ThreadsOK'
    BY <1>t, <1>18 DEF IrqEnter, BudgetOK, ThreadsOK, CanSpend, CanKinds, CtlPoints
  <2>3. (irq'.at # "idle" => irqOn') /\ irqOn' \in BOOLEAN
    BY <1>t, <1>18 DEF IrqEnter, IrqType
  <2> QED
    BY <1>n, <1>t, <1>18, <2>1, <2>2, <2>3 DEF IrqEnter, CanTypes, Frames, Received
<1>19. CASE IrqRxFlags
  <2>1. irq' \in IrqType(R)
    BY <1>z, <1>t, <1>19 DEF IrqRxFlags, IrqType, States
  <2>2. BudgetOK' /\ ThreadsOK'
    BY <1>t, <1>19 DEF IrqRxFlags, BudgetOK, ThreadsOK, CanSpend, CanKinds, CtlPoints
  <2>3. (irq'.at # "idle" => irqOn') /\ irqOn' \in BOOLEAN
    BY <1>t, <1>19 DEF IrqRxFlags, IrqType
  <2> QED
    BY <1>n, <1>t, <1>19, <2>1, <2>2, <2>3 DEF IrqRxFlags, CanTypes, Frames, Received
<1>20. CASE MailboxRead
  <2>1. irq.pend \in SUBSET Mailboxes /\ irq.pend # {} /\ irqOn
    BY <1>t, <1>20 DEF IrqType, MailboxRead
  <2>2. PICK i \in Mailboxes : i = Lowest(irq.pend)
    BY <2>1, LowestIn
  <2>3. rx.mb[i] \in R
    BY <1>t, <2>2 DEF RxType
  <2>4. \/ irq' = [irq EXCEPT !.pend = @ \ {i}] /\ rx' = rx /\ hist' = hist
        \/ /\ rx' = [rx EXCEPT !.lock = i]
           /\ irq' = [irq EXCEPT !.at = "clear", !.frame = rx.mb[i]]
                \/ irq' = [irq EXCEPT !.at = "clear", !.frame = 0]
           /\ hist' = hist \/ hist' = [hist EXCEPT !.lost = @ \cup {rx.mb[i]}]
    BY <1>20, <2>2 DEF MailboxRead
  <2>5. rx' \in RxType(R)
    BY <1>t, <2>4 DEF RxType
  <2>6. irq' \in IrqType(R)
    BY <1>t, <1>z, <2>3, <2>4 DEF IrqType
  <2>7. hist' \in HistType(F, R) /\ hist'.frames = hist.frames
          /\ hist'.received = hist.received
    BY <1>t, <2>3, <2>4 DEF HistType
  <2>8. BudgetOK' /\ ThreadsOK' /\ UNCHANGED <<state, irqOn, hw, net>>
    BY <1>t, <1>20 DEF MailboxRead, BudgetOK, ThreadsOK, CanSpend, CanKinds, CtlPoints
  <2> QED
    BY <1>n, <1>t, <2>1, <2>2, <2>3, <2>4, <2>5, <2>6, <2>7, <2>8
       DEF CanTypes, Frames, Received
<1>21. CASE MailboxClear
  <2>1. rx' \in RxType(R)
    BY <1>z, <1>t, <1>21 DEF MailboxClear, RxType
  <2>2. irq' \in IrqType(R)
    BY <1>z, <1>t, <1>21 DEF MailboxClear, IrqType, States
  <2>3. BudgetOK' /\ ThreadsOK'
    BY <1>t, <1>21 DEF MailboxClear, BudgetOK, ThreadsOK, CanSpend, CanKinds, CtlPoints
  <2>4. (irq'.at # "idle" => irqOn') /\ irqOn' \in BOOLEAN
    BY <1>t, <1>21 DEF MailboxClear, IrqType
  <2> QED
    BY <1>n, <1>t, <1>21, <2>1, <2>2, <2>3, <2>4
       DEF MailboxClear, CanTypes, Frames, Received
<1>22. CASE MailboxUnlock
  <2>1. rx' \in RxType(R)
    BY <1>z, <1>t, <1>22 DEF MailboxUnlock, RxType
  <2>2. irq' \in IrqType(R)
    BY <1>z, <1>t, <1>22 DEF MailboxUnlock, IrqType, States
  <2>3. BudgetOK' /\ ThreadsOK'
    BY <1>t, <1>22 DEF MailboxUnlock, BudgetOK, ThreadsOK, CanSpend, CanKinds, CtlPoints
  <2>4. (irq'.at # "idle" => irqOn') /\ irqOn' \in BOOLEAN
    BY <1>t, <1>22 DEF MailboxUnlock, IrqType
  <2> QED
    BY <1>n, <1>t, <1>22, <2>1, <2>2, <2>3, <2>4
       DEF MailboxUnlock, CanTypes, Frames, Received
<1>23. CASE MailboxesDone
  <2>1. irq' \in IrqType(R)
    BY <1>z, <1>t, <1>23 DEF MailboxesDone, IrqType, States
  <2>2. BudgetOK' /\ ThreadsOK'
    BY <1>t, <1>23 DEF MailboxesDone, BudgetOK, ThreadsOK, CanSpend, CanKinds, CtlPoints
  <2>3. (irq'.at # "idle" => irqOn') /\ irqOn' \in BOOLEAN
    BY <1>t, <1>23 DEF MailboxesDone, IrqType
  <2> QED
    BY <1>n, <1>t, <1>23, <2>1, <2>2, <2>3 DEF MailboxesDone, CanTypes, Frames, Received
<1>24. CASE IrqNoTx
  <2>1. irq' \in IrqType(R)
    BY <1>z, <1>t, <1>24 DEF IrqNoTx, IrqType, States
  <2>2. BudgetOK' /\ ThreadsOK'
    BY <1>t, <1>24 DEF IrqNoTx, BudgetOK, ThreadsOK, CanSpend, CanKinds, CtlPoints
  <2>3. (irq'.at # "idle" => irqOn') /\ irqOn' \in BOOLEAN
    BY <1>t, <1>24 DEF IrqNoTx, IrqType
  <2> QED
    BY <1>n, <1>t, <1>24, <2>1, <2>2, <2>3 DEF IrqNoTx, CanTypes, Frames, Received
<1>25. CASE IrqEcho
  <2>1. net' = [net EXCEPT !.echo = 0] /\ irq' = [irq EXCEPT !.at = "txdone"]
        /\ hist' = [hist EXCEPT !.echoed = IF net.echo = 0 THEN hist.echoed
                                          ELSE Append(hist.echoed, net.echo)]
    BY <1>25 DEF IrqEcho
  <2>2. net' \in NetType(F) /\ net.echo \in F
    BY <1>t, <1>z, <2>1 DEF NetType
  <2>3. irq' \in IrqType(R) /\ irqOn
    BY <1>t, <1>25, <2>1 DEF IrqType, IrqEcho
  <2>4. (IF net.echo = 0 THEN hist.echoed ELSE Append(hist.echoed, net.echo)) \in Seq(F)
    BY <1>t, <2>2 DEF HistType
  <2>5. hist' \in HistType(F, R) /\ hist'.frames = hist.frames
          /\ hist'.received = hist.received
    BY <1>t, <2>1, <2>4 DEF HistType
  <2>6. BudgetOK' /\ ThreadsOK' /\ UNCHANGED <<state, irqOn, rx, hw>>
    BY <1>t, <1>25 DEF IrqEcho, BudgetOK, ThreadsOK, CanSpend, CanKinds, CtlPoints
  <2> QED
    BY <1>n, <1>t, <2>1, <2>2, <2>3, <2>4, <2>5, <2>6 DEF CanTypes, Frames, Received
<1>26. CASE IrqTxDone
  <2>1. net' \in NetType(F)
    BY <1>z, <1>t, <1>26 DEF IrqTxDone, NetType
  <2>2. hw' \in HwType(F)
    BY <1>z, <1>t, <1>26 DEF IrqTxDone, HwType
  <2>3. irq' \in IrqType(R)
    BY <1>z, <1>t, <1>26 DEF IrqTxDone, IrqType, States
  <2>4. BudgetOK' /\ ThreadsOK'
    BY <1>t, <1>26 DEF IrqTxDone, BudgetOK, ThreadsOK, CanSpend, CanKinds, CtlPoints
  <2>5. (irq'.at # "idle" => irqOn') /\ irqOn' \in BOOLEAN
    BY <1>t, <1>26 DEF IrqTxDone, IrqType
  <2> QED
    BY <1>n, <1>t, <1>26, <2>1, <2>2, <2>3, <2>4, <2>5
       DEF IrqTxDone, CanTypes, Frames, Received
<1>27. CASE IrqEsr
  <2>1. irq' = [irq EXCEPT !.at = "state", !.level = hw.level]
          /\ hw' = [hw EXCEPT !.flags = {}]
    BY <1>27 DEF IrqEsr
  <2>2. hw' \in HwType(F) /\ hw.level \in AllLevels
    BY <1>t, <2>1 DEF HwType
  <2>3. irq' \in IrqType(R) /\ irqOn
    BY <1>t, <1>27, <2>1, <2>2 DEF IrqType, IrqEsr
  <2>4. BudgetOK' /\ ThreadsOK' /\ UNCHANGED <<state, irqOn, rx, net, hist>>
    BY <1>t, <1>27 DEF IrqEsr, BudgetOK, ThreadsOK, CanSpend, CanKinds, CtlPoints
  <2> QED
    BY <1>n, <1>t, <2>1, <2>2, <2>3, <2>4 DEF CanTypes, Frames, Received
<1>28. CASE IrqState
  <2>1. state' \in States
    BY <1>t, <1>28, LevelOrder DEF IrqState, Queued, States, IrqType, AllLevels
  <2>2. irq' \in IrqType(R)
    BY <1>z, <1>t, <1>28 DEF IrqState, Queued, IrqType, States
  <2>3. hist' \in HistType(F, R) /\ hist'.frames = hist.frames
          /\ hist'.received = hist.received
    BY <1>z, <1>t, <1>28, ZenonT(40) DEF IrqState, Queued, HistType, RxType, HwType, NetType
  <2>4. BudgetOK' /\ ThreadsOK'
    <3>1. BudgetOK'
      BY <1>t, <1>28 DEF IrqState, BudgetOK, CanSpend, CanKinds
    <3>2. ThreadsOK'
      BY <1>t, <1>28, QueuedTypes DEF IrqState, ThreadsOK
    <3> QED
      BY <3>1, <3>2
  <2>5. (irq'.at # "idle" => irqOn') /\ irqOn' \in BOOLEAN
    BY <1>t, <1>28 DEF IrqState, Queued, IrqType
  <2> QED
    BY <1>n, <1>t, <1>28, <2>1, <2>2, <2>3, <2>4, <2>5
       DEF IrqState, Queued, CanTypes, Frames, Received
<1>29. CASE IrqCtrl
  <2>1. hw' \in HwType(F)
    <3>1. hw' = IF irq.last = state \/ state \in {"stopped", "sleeping"} THEN hw
                ELSE [hw EXCEPT !.stateMsk = TRUE, !.errMsk = (state = "warning")]
      BY <1>29 DEF IrqCtrl
    <3> QED
      BY <1>t, <3>1 DEF HwType
  <2>2. irq' \in IrqType(R) /\ irqOn /\ irq.batch \in SUBSET R
    BY <1>t, <1>29 DEF IrqType, IrqCtrl
  <2>3. InOrder(irq.batch) \in Seq(R)
    <3>1. irq.batch \in SUBSET Nat /\ IsFiniteSet(irq.batch)
      <4>1. R = 0 .. hist.received
        BY <1>n DEF Received
      <4>2. IsFiniteSet(R) /\ R \in SUBSET Nat
        BY <1>a, <4>1, FS_Interval
      <4> QED
        BY <2>2, <4>2, FS_Subset
    <3> QED
      BY <2>2, <3>1, InOrderSorts
  <2>4. hist' \in HistType(F, R) /\ hist'.frames = hist.frames
          /\ hist'.received = hist.received
    <3> DEFINE up == hist.up \o InOrder(irq.batch)
               dis == hist.disarmed
                 /\ (irq.last = state \/ state \in {"stopped", "sleeping"})
    <3>1. hist' = [hist EXCEPT !.up = up, !.disarmed = dis]
      BY <1>29 DEF IrqCtrl
    <3>2. up \in Seq(R) /\ dis \in BOOLEAN
      BY <1>t, <2>3 DEF HistType
    <3> HIDE DEF up, dis
    <3> QED
      BY <1>t, <3>1, <3>2 DEF HistType
  <2>5. BudgetOK' /\ ThreadsOK' /\ UNCHANGED <<state, irqOn, rx, net>>
    BY <1>t, <1>29 DEF IrqCtrl, BudgetOK, ThreadsOK, CanSpend, CanKinds, CtlPoints
  <2> QED
    BY <1>n, <1>t, <2>1, <2>2, <2>3, <2>4, <2>5 DEF CanTypes, Frames, Received
<1>30. CASE RestartFlush
  <2>1. net' \in NetType(F)
    BY <1>z, <1>t, <1>30 DEF RestartFlush, NetType
  <2>2. BudgetOK' /\ ThreadsOK'
    BY <1>t, <1>30 DEF RestartFlush, BudgetOK, ThreadsOK, WorkType, CanSpend, CanKinds,
       CtlPoints
  <2>3. (irq'.at # "idle" => irqOn') /\ irqOn' \in BOOLEAN
    BY <1>t, <1>30 DEF RestartFlush, IrqType
  <2> QED
    BY <1>n, <1>t, <1>30, <2>1, <2>2, <2>3 DEF RestartFlush, CanTypes, Frames, Received
<1>31. CASE RestartReset
  <2>1. ChipReset
    BY <1>31 DEF RestartReset
  <2>2. /\ hw' \in HwType(F) /\ rx' \in RxType(R) /\ hist' \in HistType(F, R)
        /\ hist'.frames = hist.frames /\ hist'.received = hist.received
    BY <1>z, <1>t, <2>1, ResetTypes
  <2>3. BudgetOK' /\ ThreadsOK'
    BY <1>t, <1>31 DEF RestartReset, BudgetOK, ThreadsOK, WorkType, CtlPoints
  <2>4. UNCHANGED <<net, state, irqOn, irq>>
    BY <1>31 DEF RestartReset
  <2> QED
    BY <1>n, <1>t, <2>2, <2>3, <2>4 DEF CanTypes, Frames, Received
<1>32. CASE RestartRun
  <2>1. state' \in States
    BY <1>t, <1>32, LevelOrder DEF RestartRun, ChipRun, States, IrqType, AllLevels
  <2>2. hw' \in HwType(F)
    BY <1>z, <1>t, <1>32 DEF RestartRun, ChipRun, HwType
  <2>3. BudgetOK' /\ ThreadsOK'
    BY <1>t, <1>32
       DEF RestartRun, ChipRun, BudgetOK, ThreadsOK, WorkType, CanSpend, CanKinds, CtlPoints
  <2>4. (irq'.at # "idle" => irqOn') /\ irqOn' \in BOOLEAN
    BY <1>t, <1>32 DEF RestartRun, ChipRun, IrqType
  <2> QED
    BY <1>n, <1>t, <1>32, <2>1, <2>2, <2>3, <2>4
       DEF RestartRun, ChipRun, CanTypes, Frames, Received
<1>33. CASE RestartEnable
  <2>1. net' \in NetType(F)
    BY <1>z, <1>t, <1>33 DEF RestartEnable, WorkEnds, InterruptsEnable, NetType
  <2>2. hw' \in HwType(F)
    BY <1>z, <1>t, <1>33 DEF RestartEnable, WorkEnds, InterruptsEnable, HwType
  <2>3. hist' \in HistType(F, R) /\ hist'.frames = hist.frames
          /\ hist'.received = hist.received
    BY <1>z, <1>t, <1>33
       DEF RestartEnable, WorkEnds, InterruptsEnable, HistType, RxType, HwType, NetType
  <2>4. BudgetOK' /\ ThreadsOK'
    BY <1>t, <1>33
       DEF RestartEnable, WorkEnds, InterruptsEnable, BudgetOK, ThreadsOK, WorkType,
          CanSpend, CanKinds,
           CtlPoints
  <2>5. (irq'.at # "idle" => irqOn') /\ irqOn' \in BOOLEAN
    BY <1>t, <1>33 DEF RestartEnable, WorkEnds, InterruptsEnable, IrqType
  <2> QED
    BY <1>n, <1>t, <1>33, <2>1, <2>2, <2>3, <2>4, <2>5
       DEF RestartEnable, WorkEnds, InterruptsEnable, CanTypes, Frames, Received
<1>34. CASE RestartFails
  <2>1. hw' \in HwType(F)
    BY <1>z, <1>t, <1>34 DEF RestartFails, WorkEnds, HwType
  <2>2. hist' \in HistType(F, R) /\ hist'.frames = hist.frames
          /\ hist'.received = hist.received
    BY <1>z, <1>t, <1>34 DEF RestartFails, WorkEnds, HistType, RxType, HwType, NetType
  <2>3. BudgetOK' /\ ThreadsOK'
    BY <1>t, <1>34 DEF RestartFails, WorkEnds, BudgetOK, ThreadsOK, WorkType, CanSpend,
       CanKinds, CtlPoints
  <2>4. (irq'.at # "idle" => irqOn') /\ irqOn' \in BOOLEAN
    BY <1>t, <1>34 DEF RestartFails, WorkEnds, IrqType
  <2> QED
    BY <1>n, <1>t, <1>34, <2>1, <2>2, <2>3, <2>4
       DEF RestartFails, WorkEnds, CanTypes, Frames, Received
<1>35. CASE SuspendChip
  <2>1. state' \in States
    BY <1>t, <1>35, LevelOrder DEF SuspendChip, States, IrqType, AllLevels
  <2>2. hw' \in HwType(F)
    BY <1>z, <1>t, <1>35 DEF SuspendChip, HwType
  <2>3. hist' \in HistType(F, R) /\ hist'.frames = hist.frames
          /\ hist'.received = hist.received
    BY <1>z, <1>t, <1>35 DEF SuspendChip, HistType, RxType, HwType, NetType
  <2>4. BudgetOK' /\ ThreadsOK'
    BY <1>t, <1>35 DEF SuspendChip, BudgetOK, ThreadsOK, CanSpend, CanKinds, CtlPoints
  <2>5. (irq'.at # "idle" => irqOn') /\ irqOn' \in BOOLEAN
    BY <1>t, <1>35 DEF SuspendChip, IrqType
  <2> QED
    BY <1>n, <1>t, <1>35, <2>1, <2>2, <2>3, <2>4, <2>5
       DEF SuspendChip, CanTypes, Frames, Received
<1>36. CASE SuspendFails
  <2>1. hw' \in HwType(F)
    BY <1>z, <1>t, <1>36 DEF SuspendFails, HwType
  <2>2. hist' \in HistType(F, R) /\ hist'.frames = hist.frames
          /\ hist'.received = hist.received
    BY <1>z, <1>t, <1>36 DEF SuspendFails, HistType, RxType, HwType, NetType
  <2>3. BudgetOK' /\ ThreadsOK'
    BY <1>t, <1>36 DEF SuspendFails, BudgetOK, ThreadsOK, CanSpend, CanKinds, CtlPoints
  <2>4. (irq'.at # "idle" => irqOn') /\ irqOn' \in BOOLEAN
    BY <1>t, <1>36 DEF SuspendFails, IrqType
  <2> QED
    BY <1>n, <1>t, <1>36, <2>1, <2>2, <2>3, <2>4
       DEF SuspendFails, CanTypes, Frames, Received
<1>37. CASE SuspendMask
  <2>1. hw' \in HwType(F)
    BY <1>z, <1>t, <1>37 DEF SuspendMask, InterruptsDisable, HwType
  <2>2. BudgetOK' /\ ThreadsOK'
    BY <1>t, <1>37
       DEF SuspendMask, InterruptsDisable, BudgetOK, ThreadsOK, CanSpend, CanKinds,
           CtlPoints
  <2>3. (irq'.at # "idle" => irqOn') /\ irqOn' \in BOOLEAN
    BY <1>t, <1>37 DEF SuspendMask, InterruptsDisable, IrqType
  <2> QED
    BY <1>n, <1>t, <1>37, <2>1, <2>2, <2>3
       DEF SuspendMask, InterruptsDisable, CanTypes, Frames, Received
<1>38. CASE SuspendDetach
  <2>1. net' \in NetType(F)
    BY <1>z, <1>t, <1>38 DEF SuspendDetach, NetType
  <2>2. state' \in States
    BY <1>t, <1>38, LevelOrder DEF SuspendDetach, States, IrqType, AllLevels
  <2>3. BudgetOK' /\ ThreadsOK'
    BY <1>t, <1>38 DEF SuspendDetach, BudgetOK, ThreadsOK, CanSpend, CanKinds, CtlPoints
  <2>4. (irq'.at # "idle" => irqOn') /\ irqOn' \in BOOLEAN
    BY <1>t, <1>38 DEF SuspendDetach, IrqType
  <2> QED
    BY <1>n, <1>t, <1>38, <2>1, <2>2, <2>3, <2>4
       DEF SuspendDetach, CanTypes, Frames, Received
<1>39. CASE SuspendNoirq
  <2>1. BudgetOK' /\ ThreadsOK'
    BY <1>t, <1>39 DEF SuspendNoirq, BudgetOK, ThreadsOK, CanSpend, CanKinds, CtlPoints
  <2>2. (irq'.at # "idle" => irqOn') /\ irqOn' \in BOOLEAN
    BY <1>t, <1>39 DEF SuspendNoirq, IrqType
  <2> QED
    BY <1>n, <1>t, <1>39, <2>1, <2>2 DEF SuspendNoirq, CanTypes, Frames, Received
<1>40. CASE ResumeNoirq
  <2>1. BudgetOK' /\ ThreadsOK'
    BY <1>t, <1>40 DEF ResumeNoirq, BudgetOK, ThreadsOK, CanSpend, CanKinds, CtlPoints
  <2>2. (irq'.at # "idle" => irqOn') /\ irqOn' \in BOOLEAN
    BY <1>t, <1>40 DEF ResumeNoirq, IrqType
  <2> QED
    BY <1>n, <1>t, <1>40, <2>1, <2>2 DEF ResumeNoirq, CanTypes, Frames, Received
<1>41. CASE ResumeAttach
  <2>1. net' \in NetType(F)
    BY <1>z, <1>t, <1>41 DEF ResumeAttach, NetType
  <2>2. state' \in States
    BY <1>t, <1>41, LevelOrder DEF ResumeAttach, States, IrqType, AllLevels
  <2>3. BudgetOK' /\ ThreadsOK'
    BY <1>t, <1>41 DEF ResumeAttach, BudgetOK, ThreadsOK, CanSpend, CanKinds, CtlPoints
  <2>4. (irq'.at # "idle" => irqOn') /\ irqOn' \in BOOLEAN
    BY <1>t, <1>41 DEF ResumeAttach, IrqType
  <2> QED
    BY <1>n, <1>t, <1>41, <2>1, <2>2, <2>3, <2>4
       DEF ResumeAttach, CanTypes, Frames, Received
<1>42. CASE ResumeChip
  <2>1. ~mayWakeup => ChipReset
    BY <1>42 DEF ResumeChip
  <2>2. /\ hw' \in HwType(F) /\ rx' \in RxType(R) /\ hist' \in HistType(F, R)
        /\ hist'.frames = hist.frames /\ hist'.received = hist.received
    <3>1. CASE mayWakeup
      <4>1. /\ hw' = [hw EXCEPT !.chip = IF @ = "stop" THEN "running" ELSE @]
            /\ rx' = rx /\ hist' = hist
        BY <1>42, <3>1 DEF ResumeChip
      <4> QED
        BY <1>t, <4>1 DEF HwType
    <3>2. CASE ~mayWakeup
      BY <1>z, <1>t, <2>1, <3>2, ResetTypes
    <3> QED
      BY <3>1, <3>2
  <2>3. BudgetOK' /\ ThreadsOK'
    BY <1>t, <1>42 DEF ResumeChip, BudgetOK, ThreadsOK, CtlPoints
  <2>4. UNCHANGED <<net, state, irqOn, irq>>
    BY <1>42 DEF ResumeChip
  <2> QED
    BY <1>n, <1>t, <2>2, <2>3, <2>4 DEF CanTypes, Frames, Received
<1>43. CASE ResumeRun
  <2>1. state' \in States
    BY <1>t, <1>43, LevelOrder DEF ResumeRun, ChipRun, States, IrqType, AllLevels
  <2>2. hw' \in HwType(F)
    BY <1>z, <1>t, <1>43 DEF ResumeRun, ChipRun, HwType
  <2>3. BudgetOK' /\ ThreadsOK'
    BY <1>t, <1>43
       DEF ResumeRun, ChipRun, BudgetOK, ThreadsOK, CanSpend, CanKinds, CtlPoints
  <2>4. (irq'.at # "idle" => irqOn') /\ irqOn' \in BOOLEAN
    BY <1>t, <1>43 DEF ResumeRun, ChipRun, IrqType
  <2> QED
    BY <1>n, <1>t, <1>43, <2>1, <2>2, <2>3, <2>4
       DEF ResumeRun, ChipRun, CanTypes, Frames, Received
<1>44. CASE ResumeEnable
  <2>1. hw' \in HwType(F)
    BY <1>z, <1>t, <1>44 DEF ResumeEnable, InterruptsEnable, HwType
  <2>2. hist' \in HistType(F, R) /\ hist'.frames = hist.frames
          /\ hist'.received = hist.received
    BY <1>z, <1>t, <1>44
       DEF ResumeEnable, InterruptsEnable, HistType, RxType, HwType, NetType
  <2>3. BudgetOK' /\ ThreadsOK'
    BY <1>t, <1>44
       DEF ResumeEnable, InterruptsEnable, BudgetOK, ThreadsOK, CanSpend, CanKinds,
           CtlPoints
  <2>4. (irq'.at # "idle" => irqOn') /\ irqOn' \in BOOLEAN
    BY <1>t, <1>44 DEF ResumeEnable, InterruptsEnable, IrqType
  <2> QED
    BY <1>n, <1>t, <1>44, <2>1, <2>2, <2>3, <2>4
       DEF ResumeEnable, InterruptsEnable, CanTypes, Frames, Received
<1>45. CASE ResumeFails
  <2>1. hw' \in HwType(F)
    BY <1>z, <1>t, <1>45 DEF ResumeFails, HwType
  <2>2. hist' \in HistType(F, R) /\ hist'.frames = hist.frames
          /\ hist'.received = hist.received
    BY <1>z, <1>t, <1>45 DEF ResumeFails, HistType, RxType, HwType, NetType
  <2>3. BudgetOK' /\ ThreadsOK'
    BY <1>t, <1>45 DEF ResumeFails, BudgetOK, ThreadsOK, CanSpend, CanKinds, CtlPoints
  <2>4. (irq'.at # "idle" => irqOn') /\ irqOn' \in BOOLEAN
    BY <1>t, <1>45 DEF ResumeFails, IrqType
  <2> QED
    BY <1>n, <1>t, <1>45, <2>1, <2>2, <2>3, <2>4 DEF ResumeFails, CanTypes, Frames, Received
<1>47. CASE SuspendPinsFail
  <2>1. hist' \in HistType(F, R) /\ hist'.frames = hist.frames
          /\ hist'.received = hist.received
    BY <1>z, <1>t, <1>47 DEF SuspendPinsFail, HistType
  <2>2. BudgetOK' /\ ThreadsOK'
    BY <1>t, <1>47
       DEF SuspendPinsFail, BudgetOK, ThreadsOK, CanSpend, CanKinds, CtlPoints
  <2> QED
    BY <1>n, <1>t, <1>47, <2>1, <2>2 DEF SuspendPinsFail, CanTypes, Frames, Received
<1>46. CASE UNCHANGED canVars
  BY <1>n, <1>t, <1>46 DEF canVars, CanTypes, Frames, Received, BudgetOK, ThreadsOK
<1> QED
  BY <1>1, <1>2, <1>3, <1>4, <1>5, <1>6, <1>7, <1>8, <1>9, <1>10, <1>11, <1>12, <1>13,
     <1>14, <1>15, <1>16, <1>17, <1>18, <1>19, <1>20, <1>21, <1>22, <1>23, <1>24, <1>25,
     <1>26, <1>27, <1>28, <1>29, <1>30, <1>31, <1>32, <1>33, <1>34, <1>35, <1>36, <1>37,
     <1>38, <1>39, <1>40, <1>41, <1>42, <1>43, <1>44, <1>45, <1>46, <1>47 DEF CanNext, Opening,
       Closing, Xmit, Bus,
     Irq, Restart, Suspending, Resuming
-----------------------------------------------------------------------------
(* Open, close, suspend and resume                                         *)

\* Without the chip's interrupts: before request_irq and after free_irq.
NoIrq == {"closed", "o.reset", "o.run", "o.irq", "c.stop", "c.candev"}

\* From the stop of the chip to its start, when the machine sleeps.
Stopped == {"s.mask", "s.detach", "s.noirq", "asleep", "r.attach", "r.start", "r.run"}

\* What belongs to each point of open, close, suspend and resume: the handler runs between
\* request_irq and free_irq only, and until the interrupts are enabled nothing calls it.
CtlInv ==
  /\ irqOn <=> ctl \notin NoIrq
  /\ irq.at # "idle" => ctl \notin NoIrq \cup {"o.enable", "asleep"}
  /\ ctl \in (NoIrq \ {"c.stop", "c.candev"}) \cup {"o.enable"} =>
       work.at = "none" /\ net.at = "idle"
  /\ ctl \in {"o.run", "o.irq", "o.enable"} =>
       ~hw.iflag /\ ~hw.imask /\ ~hw.errMsk /\ ~hw.stateMsk
  /\ ctl = "o.run" => hw.chip # "running"
  /\ ctl \in {"o.irq", "o.enable"} => hw.mb = 0
  /\ ctl \in {"s.mask", "r.run", "r.enable"} => ~mayWakeup
  /\ net.at # "idle" => Sending

\* Every step keeps what belongs to its point.
LEMMA CtlKept ==
  ASSUME CanTypes, CtlInv, [CanNext]_canVars
  PROVE  CtlInv'
<1>n. PICK F, R : F = Frames /\ R = Received
  OBVIOUS
<1>t. /\ net \in NetType(F) /\ hw \in HwType(F) /\ irq \in IrqType(R)
      /\ ctl \in CtlPoints /\ work \in WorkType
  BY <1>n DEF CanTypes, ThreadsOK
<1>1. CASE Open
  BY <1>t, <1>1 DEF Open, CtlInv, NoIrq, Sending
<1>2. CASE OpenReset
  BY <1>t, <1>2 DEF OpenReset, ChipReset, CtlInv, NoIrq, Sending, HwType
<1>3. CASE OpenRun
  BY <1>t, <1>3 DEF OpenRun, ChipRun, CtlInv, NoIrq, Sending, HwType
<1>4. CASE OpenIrq
  BY <1>t, <1>4 DEF OpenIrq, CtlInv, NoIrq, Sending
<1>5. CASE OpenEnable
  BY <1>t, <1>5 DEF OpenEnable, InterruptsEnable, CtlInv, NoIrq, Sending, NetType, HwType
<1>6. CASE OpenFails
  BY <1>t, <1>6 DEF OpenFails, CtlInv, NoIrq, Sending, HwType
<1>7. CASE Close
  BY <1>t, <1>7 DEF Close, InterruptsDisable, CtlInv, NoIrq, Sending, NetType, HwType
<1>8. CASE CloseFreeIrq
  BY <1>t, <1>8 DEF CloseFreeIrq, CtlInv, NoIrq, Sending
<1>9. CASE CloseStop
  BY <1>t, <1>9 DEF CloseStop, CtlInv, NoIrq, Sending, HwType
<1>10. CASE CloseCandev
  BY <1>t, <1>10 DEF CloseCandev, CtlInv, NoIrq, Sending, NetType
<1>11. CASE StartXmit
  BY <1>t, <1>11 DEF StartXmit, CtlInv, NoIrq, Sending, NetType
<1>12. CASE XmitEcho
  BY <1>t, <1>12 DEF XmitEcho, CtlInv, NoIrq, Sending, NetType
<1>13. CASE XmitWrite
  BY <1>t, <1>13 DEF XmitWrite, CtlInv, NoIrq, Sending, NetType, HwType
<1>14. CASE Transmit
  BY <1>t, <1>14 DEF Transmit, CtlInv, NoIrq, Sending, HwType, OnBus
<1>15. CASE ErrorsRise
  BY <1>t, <1>15 DEF ErrorsRise, CtlInv, NoIrq, Sending, HwType
<1>16. CASE ErrorsFall
  BY <1>t, <1>16 DEF ErrorsFall, CtlInv, NoIrq, Sending, HwType
<1>17. CASE Receive
  BY <1>t, <1>17 DEF Receive, MoveIn, CtlInv, NoIrq, Sending
<1>18. CASE IrqEnter
  BY <1>t, <1>18 DEF IrqEnter, CtlInv, NoIrq, Sending, IrqType, Line
<1>19. CASE IrqRxFlags
  BY <1>t, <1>19 DEF IrqRxFlags, CtlInv, NoIrq, Sending, IrqType
<1>20. CASE MailboxRead
  BY <1>t, <1>20 DEF MailboxRead, CtlInv, NoIrq, Sending, IrqType
<1>21. CASE MailboxClear
  BY <1>t, <1>21 DEF MailboxClear, CtlInv, NoIrq, Sending, IrqType
<1>22. CASE MailboxUnlock
  BY <1>t, <1>22 DEF MailboxUnlock, CtlInv, NoIrq, Sending, IrqType
<1>23. CASE MailboxesDone
  BY <1>t, <1>23 DEF MailboxesDone, CtlInv, NoIrq, Sending, IrqType
<1>24. CASE IrqNoTx
  BY <1>t, <1>24 DEF IrqNoTx, CtlInv, NoIrq, Sending, IrqType
<1>25. CASE IrqEcho
  BY <1>t, <1>25 DEF IrqEcho, CtlInv, NoIrq, Sending, NetType, IrqType
<1>26. CASE IrqTxDone
  BY <1>t, <1>26 DEF IrqTxDone, CtlInv, NoIrq, Sending, NetType, HwType, IrqType
<1>27. CASE IrqEsr
  BY <1>t, <1>27 DEF IrqEsr, CtlInv, NoIrq, Sending, HwType, IrqType
<1>28. CASE IrqState
  BY <1>t, <1>28 DEF IrqState, Queued, CtlInv, NoIrq, Sending, IrqType
<1>29. CASE IrqCtrl
  BY <1>t, <1>29 DEF IrqCtrl, CtlInv, NoIrq, Sending, HwType, IrqType
<1>30. CASE RestartFlush
  BY <1>t, <1>30 DEF RestartFlush, CtlInv, NoIrq, Sending, NetType
<1>31. CASE RestartReset
  BY <1>t, <1>31 DEF RestartReset, ChipReset, CtlInv, NoIrq, Sending, HwType
<1>32. CASE RestartRun
  BY <1>t, <1>32 DEF RestartRun, ChipRun, CtlInv, NoIrq, Sending, HwType
<1>33. CASE RestartEnable
  BY <1>t, <1>33
     DEF RestartEnable, WorkEnds, InterruptsEnable, CtlInv, NoIrq, Sending, NetType, HwType
<1>34. CASE RestartFails
  BY <1>t, <1>34 DEF RestartFails, WorkEnds, CtlInv, NoIrq, Sending, HwType
<1>35. CASE SuspendChip
  BY <1>t, <1>35 DEF SuspendChip, CtlInv, NoIrq, Sending, HwType
<1>36. CASE SuspendFails
  BY <1>t, <1>36 DEF SuspendFails, CtlInv, NoIrq, Sending, HwType
<1>37. CASE SuspendMask
  BY <1>t, <1>37 DEF SuspendMask, InterruptsDisable, CtlInv, NoIrq, Sending, HwType
<1>38. CASE SuspendDetach
  BY <1>t, <1>38 DEF SuspendDetach, CtlInv, NoIrq, Sending, NetType
<1>39. CASE SuspendNoirq
  BY <1>t, <1>39 DEF SuspendNoirq, CtlInv, NoIrq, Sending
<1>40. CASE ResumeNoirq
  BY <1>t, <1>40 DEF ResumeNoirq, CtlInv, NoIrq, Sending
<1>41. CASE ResumeAttach
  BY <1>t, <1>41 DEF ResumeAttach, CtlInv, NoIrq, Sending, NetType
<1>42. CASE ResumeChip
  BY <1>t, <1>42 DEF ResumeChip, ChipReset, CtlInv, NoIrq, Sending, HwType
<1>43. CASE ResumeRun
  BY <1>t, <1>43 DEF ResumeRun, ChipRun, CtlInv, NoIrq, Sending, HwType
<1>44. CASE ResumeEnable
  BY <1>t, <1>44 DEF ResumeEnable, InterruptsEnable, CtlInv, NoIrq, Sending, HwType
<1>45. CASE ResumeFails
  BY <1>t, <1>45 DEF ResumeFails, CtlInv, NoIrq, Sending, HwType
<1>47. CASE SuspendPinsFail
  BY <1>t, <1>47 DEF SuspendPinsFail, CtlInv, NoIrq, Sending
<1>46. CASE UNCHANGED canVars
  BY <1>46 DEF canVars, CtlInv, Sending
<1> QED
  BY <1>1, <1>2, <1>3, <1>4, <1>5, <1>6, <1>7, <1>8, <1>9, <1>10, <1>11, <1>12, <1>13,
     <1>14, <1>15, <1>16, <1>17, <1>18, <1>19, <1>20, <1>21, <1>22, <1>23, <1>24, <1>25,
     <1>26, <1>27, <1>28, <1>29, <1>30, <1>31, <1>32, <1>33, <1>34, <1>35, <1>36, <1>37,
     <1>38, <1>39, <1>40, <1>41, <1>42, <1>43, <1>44, <1>45, <1>46, <1>47 DEF CanNext, Opening,
       Closing, Xmit, Bus,
     Irq, Restart, Suspending, Resuming
-----------------------------------------------------------------------------
(* The frame that is on its way                                            *)

\* A frame, the last that was handed over, is in one place: with start_xmit, in the
\* mailbox, or sent; in the end its echo has gone up.  Unless it is nowhere the queue is
\* stopped.
Transmission ==
  /\ net.at = "echo" => net.frame = hist.frames /\ net.echo = 0
  /\ net.at = "write" => net.frame = hist.frames /\ net.echo = hist.frames
  /\ net.at # "idle" => ~net.awake /\ hw.mb = 0 /\ ~hw.iflag /\ hist.frames > 0
  /\ net.awake /\ Sending => ~InFlight /\ work.at = "none"
  /\ hw.mb # 0 => hw.mb = hist.frames /\ ~hw.iflag
  /\ net.echo # 0 => net.echo = hist.frames
  /\ hw.mb # 0 /\ OnBus => net.echo = hist.frames /\ ctl # "c.candev"
  /\ hw.iflag => hist.frames > 0 /\ hist.sent # <<>> /\ Last(hist.sent) = hist.frames
  /\ hw.iflag /\ irq.at # "txdone" /\ ctl \notin {"closed", "o.reset"}
       => net.echo = hist.frames
  /\ irq.at = "txdone" =>
       hw.iflag /\ net.echo = 0 /\ hist.echoed # <<>> /\ Last(hist.echoed) = hist.frames
  /\ ctl \in {"closed", "o.reset", "o.run", "o.irq", "o.enable"} => net.echo = 0

\* The echoes so far.
Echoes ==
  /\ \A i, j \in DOMAIN hist.echoed : i < j => hist.echoed[i] < hist.echoed[j]
  /\ \A i \in DOMAIN hist.echoed : Contains(hist.sent, hist.echoed[i])
  /\ net.echo # 0 \/ net.at = "echo"
       => \A i \in DOMAIN hist.echoed : hist.echoed[i] < hist.frames

\* A bus off is that of a frame in the mailbox, which stays there until the restart; the
\* handler may have seen it and not acted yet.
BusOff ==
  /\ hw.level = "busoff" => hw.mb # 0
  /\ irq.at = "state" /\ irq.level = "busoff" /\ work.at = "none" => hw.mb # 0 /\ ~OnBus
  /\ ~work.again
  /\ work.at # "none" => net.at = "idle" /\ ~hw.iflag
  /\ work.at \in {"pending", "reset", "run"} => hw.mb # 0 /\ ~OnBus
  /\ work.at = "run" => hw.chip # "running"
  /\ work.at \in {"run"} \/ ctl \in {"o.run", "r.run"} => hw.level = "active"
  /\ work.at \in {"reset", "run", "enable"} => net.echo = 0
  /\ work.at = "enable" => hw.mb = 0
  /\ ctl = "r.run" => hw.chip # "running"

\* A suspend that caught nothing leaves nothing to be done.
Asleep ==
  ctl \in Stopped => ~InFlight /\ work.at = "none" /\ hw.chip # "running"
                     /\ (mayWakeup => hw.level = "active")

\* How the echoes stay with their frames, as long as no suspend catches one.
EchoInv == ~hist.caught => Transmission /\ Echoes /\ BusOff /\ Asleep

\* Every step that catches nothing keeps the echoes with their frames.
LEMMA EchoKept ==
  ASSUME CanTypes, CtlInv, EchoInv, [CanNext]_canVars, ~hist'.caught
  PROVE  (Transmission /\ Echoes /\ BusOff /\ Asleep)'
<1>n. PICK F, R : F = Frames /\ R = Received
  OBVIOUS
<1>t. /\ net \in NetType(F) /\ hw \in HwType(F) /\ irq \in IrqType(R)
           /\ hist \in HistType(F, R)
      /\ ThreadsOK /\ state \in States
  BY <1>n DEF CanTypes
<1>i. ~hist.caught => Transmission /\ Echoes /\ BusOff /\ Asleep
  BY DEF EchoInv
<1>1. CASE Open
  BY <1>t, <1>i, <1>1
     DEF Open, CtlInv, NoIrq, Sending, Transmission, Echoes, BusOff, Asleep, InFlight,
         OnBus, Stopped
<1>2. CASE OpenReset
  BY <1>t, <1>i, <1>2
     DEF OpenReset, ChipReset, RxReset, CtlInv, NoIrq, Sending, Transmission, Echoes,
         BusOff, Asleep, InFlight, OnBus, Stopped, HwType, HistType
<1>3. CASE OpenRun
  BY <1>t, <1>i, <1>3
     DEF OpenRun, ChipRun, CtlInv, NoIrq, Sending, Transmission, Echoes, BusOff, Asleep,
         InFlight, OnBus, Stopped, HwType
<1>4. CASE OpenIrq
  BY <1>t, <1>i, <1>4
     DEF OpenIrq, CtlInv, NoIrq, Sending, Transmission, Echoes, BusOff, Asleep, InFlight,
         OnBus, Stopped
<1>5. CASE OpenEnable
  BY <1>t, <1>i, <1>5
     DEF OpenEnable, InterruptsEnable, CtlInv, NoIrq, Sending, Transmission, Echoes,
         BusOff, Asleep, InFlight, OnBus, Stopped, NetType, HwType, HistType
<1>6. CASE OpenFails
  BY <1>t, <1>i, <1>6
     DEF OpenFails, CtlInv, NoIrq, Sending, Transmission, Echoes, BusOff, Asleep, InFlight,
         OnBus, Stopped, HwType
<1>7. CASE Close
  BY <1>t, <1>i, <1>7
     DEF Close, InterruptsDisable, CtlInv, NoIrq, Sending, Transmission, Echoes, BusOff,
         Asleep, InFlight, OnBus, Stopped, NetType, HwType
<1>8. CASE CloseFreeIrq
  BY <1>t, <1>i, <1>8
     DEF CloseFreeIrq, CtlInv, NoIrq, Sending, Transmission, Echoes, BusOff, Asleep,
         InFlight, OnBus, Stopped
<1>9. CASE CloseStop
  BY <1>t, <1>i, <1>9
     DEF CloseStop, CtlInv, NoIrq, Sending, Transmission, Echoes, BusOff, Asleep, InFlight,
         OnBus, Stopped, HwType
<1>10. CASE CloseCandev
  BY <1>t, <1>i, <1>10
     DEF CloseCandev, CtlInv, NoIrq, Sending, Transmission, Echoes, BusOff, Asleep,
         InFlight, OnBus, Stopped, NetType
<1>11. CASE StartXmit
  <2>1. \A i \in DOMAIN hist.echoed : hist.echoed[i] \in Nat
          /\ hist.echoed[i] < hist.frames + 1
    BY <1>t, <1>n DEF HistType, Frames
  <2>2. /\ net' = [net EXCEPT !.awake = FALSE, !.at = "echo", !.frame = hist.frames + 1]
        /\ hist'.frames = hist.frames + 1 /\ hist'.sent = hist.sent
        /\ hist'.echoed = hist.echoed /\ hist.frames \in Nat
             /\ (hist.caught => hist'.caught)
    BY <1>t, <1>11 DEF StartXmit, HistType
  <2>3. UNCHANGED <<mayWakeup, ctl, work, hw, irq>> /\ Sending /\ net.awake
    BY <1>11 DEF StartXmit
  <2>4. ~InFlight /\ work.at = "none" /\ ~hw.iflag /\ hw.mb = 0 /\ net.echo = 0
    BY <1>i, <2>2, <2>3 DEF Transmission, InFlight
  <2>5. hw.chip = "running"
    BY <1>t, <1>11 DEF StartXmit, HistType
  <2>6. Echoes'
    BY <1>i, <2>1, <2>2 DEF Echoes
  <2>7. hw.level # "busoff" /\ irq.at # "txdone"
    BY <1>i, <2>2, <2>4 DEF BusOff, Transmission
  <2> QED
    BY <1>t, <1>i, <2>2, <2>3, <2>4, <2>5, <2>6, <2>7
    DEF Transmission, BusOff, Asleep, InFlight, OnBus, Sending, Stopped, NetType
<1>12. CASE XmitEcho
  BY <1>t, <1>i, <1>12
     DEF XmitEcho, CtlInv, NoIrq, Sending, Transmission, Echoes, BusOff, Asleep, InFlight,
         OnBus, Stopped, NetType
<1>13. CASE XmitWrite
  BY <1>t, <1>i, <1>13
     DEF XmitWrite, CtlInv, NoIrq, Sending, Transmission, Echoes, BusOff, Asleep, InFlight,
         OnBus, Stopped, NetType, HwType
<1>14. CASE Transmit
  <2>1. /\ hw' = [hw EXCEPT !.mb = 0, !.iflag = TRUE]
             /\ hist' = [hist EXCEPT !.sent = Append(hist.sent, hw.mb)]
        /\ OnBus /\ hw.mb # 0 /\ UNCHANGED <<mayWakeup, ctl, work, net, irq>>
    BY <1>14 DEF Transmit
  <2>2. /\ hist'.sent = Append(hist.sent, hw.mb) /\ hist'.echoed = hist.echoed
        /\ hist'.frames = hist.frames /\ ~hist.caught
    BY <1>t, <2>1 DEF HistType
  <2>3. hw.mb = hist.frames /\ ~hw.iflag /\ hist.frames > 0
    BY <1>t, <1>n, <1>i, <2>1, <2>2 DEF Transmission, HwType, HistType, Frames
  <2>4. /\ hist'.sent # <<>> /\ Last(hist'.sent) = hist.frames
        /\ \A f : Contains(hist.sent, f) => Contains(hist'.sent, f)
    <3>1. hist.sent \in Seq(F) /\ hw.mb \in F
      BY <1>t DEF HistType, HwType
    <3> QED
      BY <2>2, <2>3, <3>1 DEF Last, Contains
  <2>5. Echoes'
    BY <1>i, <2>1, <2>2, <2>4 DEF Echoes
  <2>6. ~(net.awake /\ Sending) /\ net.at = "idle" /\ ctl \notin Stopped
          /\ work.at \notin {"pending", "reset", "run"}
        /\ net.echo = hist.frames
    BY <1>i, <2>1, <2>2 DEF Transmission, Asleep, BusOff, InFlight, OnBus
  <2>7. irq.at # "txdone"
    BY <1>i, <2>2, <2>3 DEF Transmission
  <2>8. Transmission'
    BY <1>t, <1>i, <2>1, <2>2, <2>3, <2>4, <2>6, <2>7
       DEF Transmission, InFlight, Sending, HwType
  <2>9. work.at \in {"none", "enable"}
    BY <1>t, <2>6 DEF ThreadsOK, WorkType
  <2> QED
    BY <1>t, <1>i, <2>1, <2>2, <2>3, <2>5, <2>6, <2>8, <2>9
       DEF BusOff, Asleep, OnBus, HwType
<1>15. CASE ErrorsRise
  <2>1. UNCHANGED <<mayWakeup, ctl, work, net, irq, hist>> /\ OnBus
          /\ (hw.level = "passive" => hw.mb # 0)
    BY <1>15 DEF ErrorsRise
  <2>2. /\ hw'.level \in AllLevels /\ (hw'.level = "busoff" => hw.level = "passive")
        /\ hw'.mb = hw.mb /\ hw'.iflag = hw.iflag /\ hw'.chip = hw.chip
    BY <1>t, <1>15, LevelSteps, CanTypesAre DEF HwType, AllLevels
  <2> QED
    BY <1>t, <1>i, <2>1, <2>2 DEF CtlInv, NoIrq, Sending, Transmission,
         Echoes, BusOff, Asleep, InFlight, OnBus, Stopped
<1>16. CASE ErrorsFall
  <2>1. UNCHANGED <<mayWakeup, ctl, work, net, irq, hist>> /\ OnBus
    BY <1>16 DEF ErrorsFall
  <2>2. /\ hw'.level \in AllLevels /\ hw'.level # "busoff"
        /\ hw'.mb = hw.mb /\ hw'.iflag = hw.iflag /\ hw'.chip = hw.chip
    BY <1>t, <1>16, LevelSteps, CanTypesAre DEF HwType, AllLevels
  <2> QED
    BY <1>t, <1>i, <2>1, <2>2 DEF CtlInv, NoIrq, Sending, Transmission,
         Echoes, BusOff, Asleep, InFlight, OnBus, Stopped
<1>17. CASE Receive
  BY <1>t, <1>i, <1>17
     DEF Receive, MoveIn, CtlInv, NoIrq, Sending, Transmission, Echoes, BusOff, Asleep,
         InFlight, OnBus, Stopped, HistType
<1>18. CASE IrqEnter
  BY <1>t, <1>i, <1>18
     DEF IrqEnter, CtlInv, NoIrq, Sending, Transmission, Echoes, BusOff, Asleep, InFlight,
         OnBus, Stopped, IrqType
<1>19. CASE IrqRxFlags
  BY <1>t, <1>i, <1>19
     DEF IrqRxFlags, CtlInv, NoIrq, Sending, Transmission, Echoes, BusOff, Asleep,
         InFlight, OnBus, Stopped, IrqType
<1>20. CASE MailboxRead
  <2>1. UNCHANGED <<mayWakeup, ctl, work, net, hw>> /\ irq.at = "mailbox"
    BY <1>20 DEF MailboxRead
  <2>2. irq'.at \in {"mailbox", "clear"}
    BY <1>t, <1>20 DEF MailboxRead, IrqType
  <2>3. /\ hist'.sent = hist.sent /\ hist'.frames = hist.frames
        /\ hist'.echoed = hist.echoed /\ hist'.caught = hist.caught
    BY <1>t, <1>20 DEF MailboxRead, HistType
  <2> QED
    BY <1>i, <2>1, <2>2, <2>3
    DEF Transmission, Echoes, BusOff, Asleep, InFlight, OnBus, Sending, Stopped
<1>21. CASE MailboxClear
  BY <1>t, <1>i, <1>21
     DEF MailboxClear, CtlInv, NoIrq, Sending, Transmission, Echoes, BusOff, Asleep,
         InFlight, OnBus, Stopped, IrqType
<1>22. CASE MailboxUnlock
  BY <1>t, <1>i, <1>22
     DEF MailboxUnlock, CtlInv, NoIrq, Sending, Transmission, Echoes, BusOff, Asleep,
         InFlight, OnBus, Stopped, IrqType
<1>23. CASE MailboxesDone
  BY <1>t, <1>i, <1>23
     DEF MailboxesDone, CtlInv, NoIrq, Sending, Transmission, Echoes, BusOff, Asleep,
         InFlight, OnBus, Stopped, IrqType
<1>24. CASE IrqNoTx
  BY <1>t, <1>i, <1>24
     DEF IrqNoTx, CtlInv, NoIrq, Sending, Transmission, Echoes, BusOff, Asleep, InFlight,
         OnBus, Stopped, IrqType
<1>25. CASE IrqEcho
  <2>1. /\ net' = [net EXCEPT !.echo = 0] /\ irq' = [irq EXCEPT !.at = "txdone"]
             /\ irq.at = "tx" /\ hw.iflag
        /\ hist' = [hist EXCEPT !.echoed = IF net.echo = 0 THEN hist.echoed
                                          ELSE Append(hist.echoed, net.echo)]
        /\ UNCHANGED <<mayWakeup, ctl, work, hw>>
    BY <1>25 DEF IrqEcho
  <2>2. hist'.sent = hist.sent /\ hist'.frames = hist.frames /\ ~hist.caught
    BY <1>t, <2>1 DEF HistType
  <2>3. /\ net.echo = hist.frames /\ hist.frames > 0 /\ hist.sent # <<>>
             /\ Last(hist.sent) = hist.frames
    BY <1>i, <2>1, <2>2 DEF Transmission, CtlInv, NoIrq
  <2>4. hist'.echoed = Append(hist.echoed, hist.frames)
    BY <1>t, <2>1, <2>3 DEF HistType
  <2>5. hist.echoed \in Seq(F) /\ hist.frames \in F /\ F \subseteq Nat
          /\ hist.sent \in Seq(F)
    BY <1>t, <1>n DEF HistType, Frames
  <2>6. \A i \in DOMAIN hist.echoed : hist.echoed[i] < hist.frames
    BY <1>i, <2>2, <2>3 DEF Echoes
  <2>7. hist'.echoed # <<>> /\ Last(hist'.echoed) = hist.frames
    BY <2>4, <2>5 DEF Last
  <2>8. Contains(hist.sent, hist.frames)
    BY <2>3, <2>5 DEF Last, Contains
  <2>9. DOMAIN hist'.echoed = DOMAIN hist.echoed \cup {Len(hist.echoed) + 1}
        /\ DOMAIN hist.echoed = 1 .. Len(hist.echoed) /\ Len(hist.echoed) \in Nat
        /\ hist'.echoed[Len(hist.echoed) + 1] = hist.frames
        /\ \A i \in DOMAIN hist.echoed : hist'.echoed[i] = hist.echoed[i]
    BY <2>4, <2>5
  <2>10. \A i, j \in DOMAIN hist'.echoed : i < j => hist'.echoed[i] < hist'.echoed[j]
    <3>1. \A i, j \in DOMAIN hist.echoed : i < j => hist.echoed[i] < hist.echoed[j]
      BY <1>i, <2>2 DEF Echoes
    <3> QED
      BY <2>5, <2>6, <2>9, <3>1
  <2>11. \A i \in DOMAIN hist'.echoed : Contains(hist'.sent, hist'.echoed[i])
    BY <1>i, <2>2, <2>8, <2>9 DEF Echoes
  <2>12. net'.at = net.at /\ net'.echo = 0 /\ irq'.at = "txdone"
    BY <1>t, <2>1 DEF NetType, IrqType
  <2>13. net.at = "idle"
    BY <1>t, <1>i, <2>1, <2>2 DEF Transmission, NetType
  <2>14. Echoes'
    BY <2>10, <2>11, <2>12, <2>13 DEF Echoes
  <2>15. Transmission'
    BY <1>t, <1>i, <2>1, <2>2, <2>3, <2>7, <2>12, <2>13
       DEF Transmission, InFlight, Sending, NetType
  <2> QED
    BY <1>t, <1>i, <2>1, <2>2, <2>12, <2>14, <2>15
       DEF BusOff, Asleep, OnBus, InFlight, Stopped, NetType
<1>26. CASE IrqTxDone
  BY <1>t, <1>i, <1>26
     DEF IrqTxDone, CtlInv, NoIrq, Sending, Transmission, Echoes, BusOff, Asleep, InFlight,
         OnBus, Stopped, NetType, HwType, IrqType
<1>27. CASE IrqEsr
  BY <1>t, <1>i, <1>27
     DEF IrqEsr, CtlInv, NoIrq, Sending, Transmission, Echoes, BusOff, Asleep, InFlight,
         OnBus, Stopped, HwType, IrqType
<1>28. CASE IrqState
  <2>1. /\ irq' = [irq EXCEPT !.at = "ctrl"] /\ irq.at = "state"
             /\ UNCHANGED <<mayWakeup, ctl, net, hw>>
        /\ work' = work \/ (work' = Queued /\ irq.level = "busoff")
    BY <1>28 DEF IrqState
  <2>2. \/ hist' = [hist EXCEPT !.caught = @ \/ work'.again]
        \/ work' = work /\ (hist' = hist \/ hist' = [hist EXCEPT !.failed = TRUE])
    BY <1>28 DEF IrqState
  <2>3. hist'.sent = hist.sent /\ hist'.frames = hist.frames /\ hist'.echoed = hist.echoed
          /\ ~hist.caught /\ ~work'.again
    <3>1. CASE work' = work /\ (hist' = hist \/ hist' = [hist EXCEPT !.failed = TRUE])
      <4>1. hist'.caught = hist.caught
        BY <1>t, <3>1 DEF HistType
      <4> QED
        BY <1>t, <1>i, <3>1, <4>1 DEF HistType, BusOff
    <3>2. CASE hist' = [hist EXCEPT !.caught = @ \/ work'.again]
      BY <1>t, <3>2 DEF HistType
    <3> QED
      BY <2>2, <3>1, <3>2
  <2>4. Echoes'
    BY <1>i, <2>1, <2>3 DEF Echoes
  <2>5. irq'.at = "ctrl"
    BY <1>t, <2>1 DEF IrqType
  <2>6. work' # work
          => /\ work'.at = "pending" /\ hw.mb # 0 /\ ~OnBus /\ net.at = "idle" /\ ~hw.iflag
             /\ ~(net.awake /\ Sending) /\ ctl \notin Stopped
    <3> SUFFICES ASSUME work' # work
                 PROVE  /\ work'.at = "pending" /\ hw.mb # 0 /\ ~OnBus /\ net.at = "idle"
                        /\ ~hw.iflag /\ ~(net.awake /\ Sending) /\ ctl \notin Stopped
      OBVIOUS
    <3>1. work.at = "none" /\ work'.at = "pending" /\ irq.level = "busoff"
      BY <1>t, <2>1, <2>3, QueuedTypes DEF ThreadsOK
    <3> QED
      BY <1>i, <2>1, <2>3, <3>1 DEF BusOff, Transmission, Asleep, InFlight
  <2> QED
    BY <1>t, <1>i, <2>1, <2>3, <2>4, <2>5, <2>6
       DEF Transmission, BusOff, Asleep, InFlight, OnBus, Sending
<1>29. CASE IrqCtrl
  BY <1>t, <1>i, <1>29
     DEF IrqCtrl, CtlInv, NoIrq, Sending, Transmission, Echoes, BusOff, Asleep, InFlight,
         OnBus, Stopped, HwType, IrqType, HistType
<1>30. CASE RestartFlush
  BY <1>t, <1>i, <1>30
     DEF RestartFlush, CtlInv, NoIrq, Sending, Transmission, Echoes, BusOff, Asleep,
         InFlight, OnBus, Stopped, NetType
<1>31. CASE RestartReset
  BY <1>t, <1>i, <1>31
     DEF RestartReset, ChipReset, RxReset, CtlInv, NoIrq, Sending, Transmission, Echoes,
         BusOff, Asleep, InFlight, OnBus, Stopped, HwType, HistType
<1>32. CASE RestartRun
  BY <1>t, <1>i, <1>32
     DEF RestartRun, ChipRun, CtlInv, NoIrq, Sending, Transmission, Echoes, BusOff, Asleep,
         InFlight, OnBus, Stopped, HwType
<1>33. CASE RestartEnable
  BY <1>t, <1>i, <1>33
     DEF RestartEnable, WorkEnds, InterruptsEnable, CtlInv, NoIrq, Sending, Transmission,
        Echoes,
         BusOff, Asleep, InFlight, OnBus, Stopped, NetType, HwType, HistType
<1>34. CASE RestartFails
  BY <1>t, <1>i, <1>34
     DEF RestartFails, WorkEnds, CtlInv, NoIrq, Sending, Transmission, Echoes, BusOff, Asleep,
         InFlight, OnBus, Stopped, HwType, HistType
<1>35. CASE SuspendChip
  BY <1>t, <1>i, <1>35
     DEF SuspendChip, CtlInv, NoIrq, Sending, Transmission, Echoes, BusOff, Asleep,
         InFlight, OnBus, Stopped, HwType, HistType
<1>36. CASE SuspendFails
  BY <1>t, <1>i, <1>36
     DEF SuspendFails, CtlInv, NoIrq, Sending, Transmission, Echoes, BusOff, Asleep,
         InFlight, OnBus, Stopped, HwType, HistType
<1>37. CASE SuspendMask
  BY <1>t, <1>i, <1>37
     DEF SuspendMask, InterruptsDisable, CtlInv, NoIrq, Sending, Transmission, Echoes,
         BusOff, Asleep, InFlight, OnBus, Stopped, HwType
<1>38. CASE SuspendDetach
  BY <1>t, <1>i, <1>38
     DEF SuspendDetach, CtlInv, NoIrq, Sending, Transmission, Echoes, BusOff, Asleep,
         InFlight, OnBus, Stopped, NetType
<1>39. CASE SuspendNoirq
  BY <1>t, <1>i, <1>39
     DEF SuspendNoirq, CtlInv, NoIrq, Sending, Transmission, Echoes, BusOff, Asleep,
         InFlight, OnBus, Stopped
<1>40. CASE ResumeNoirq
  BY <1>t, <1>i, <1>40
     DEF ResumeNoirq, CtlInv, NoIrq, Sending, Transmission, Echoes, BusOff, Asleep,
         InFlight, OnBus, Stopped
<1>41. CASE ResumeAttach
  BY <1>t, <1>i, <1>41
     DEF ResumeAttach, CtlInv, NoIrq, Sending, Transmission, Echoes, BusOff, Asleep,
         InFlight, OnBus, Stopped, NetType
<1>42. CASE ResumeChip
  <2>1. ctl = "r.start" /\ UNCHANGED <<mayWakeup, work, net, irq>>
    BY <1>42 DEF ResumeChip
  <2>2. hist'.sent = hist.sent /\ hist'.frames = hist.frames /\ hist'.echoed = hist.echoed
          /\ (hist.caught => hist'.caught)
    BY <1>t, <1>42 DEF ResumeChip, ChipReset, RxReset, HistType
  <2>3. /\ ctl' = "open" \/ (ctl' = "r.run" /\ hw'.level = "active" /\ hw'.chip # "running")
        /\ hw'.mb = hw.mb /\ (hw'.iflag = hw.iflag \/ ~hw'.iflag)
             /\ (hw'.level = hw.level \/ hw'.level = "active")
    BY <1>t, <1>42, ZenonT(40) DEF ResumeChip, ChipReset, RxReset, HwType
  <2>4. ~InFlight /\ work.at = "none"
    BY <1>i, <2>1, <2>2 DEF Asleep, Stopped
  <2>5. Echoes'
    BY <1>i, <2>1, <2>2 DEF Echoes
  <2> QED
    BY <1>t, <1>i, <2>1, <2>2, <2>3, <2>4, <2>5
       DEF Transmission, BusOff, Asleep, InFlight, OnBus, Sending, Stopped
<1>43. CASE ResumeRun
  BY <1>t, <1>i, <1>43
     DEF ResumeRun, ChipRun, CtlInv, NoIrq, Sending, Transmission, Echoes, BusOff, Asleep,
         InFlight, OnBus, Stopped, HwType
<1>44. CASE ResumeEnable
  BY <1>t, <1>i, <1>44
     DEF ResumeEnable, InterruptsEnable, CtlInv, NoIrq, Sending, Transmission, Echoes,
         BusOff, Asleep, InFlight, OnBus, Stopped, HwType, HistType
<1>45. CASE ResumeFails
  BY <1>t, <1>i, <1>45
     DEF ResumeFails, CtlInv, NoIrq, Sending, Transmission, Echoes, BusOff, Asleep,
         InFlight, OnBus, Stopped, HwType, HistType
<1>47. CASE SuspendPinsFail
  BY <1>t, <1>i, <1>47
     DEF SuspendPinsFail, CtlInv, NoIrq, Sending, Transmission, Echoes, BusOff, Asleep,
         InFlight, OnBus, Stopped, HistType
<1>46. CASE UNCHANGED canVars
  BY <1>i, <1>46 DEF canVars, Transmission, Echoes, BusOff, Asleep, InFlight, OnBus, Sending
<1> QED
  BY <1>1, <1>2, <1>3, <1>4, <1>5, <1>6, <1>7, <1>8, <1>9, <1>10, <1>11, <1>12, <1>13,
     <1>14, <1>15, <1>16, <1>17, <1>18, <1>19, <1>20, <1>21, <1>22, <1>23, <1>24, <1>25,
     <1>26, <1>27, <1>28, <1>29, <1>30, <1>31, <1>32, <1>33, <1>34, <1>35, <1>36, <1>37,
     <1>38, <1>39, <1>40, <1>41, <1>42, <1>43, <1>44, <1>45, <1>46, <1>47 DEF CanNext, Opening,
       Closing, Xmit, Bus,
     Irq, Restart, Suspending, Resuming
-----------------------------------------------------------------------------
(* The level of the chip                                                   *)

\* What the driver will take for the state, and whether bus errors will interrupt, when the
\* handler has ended.
NextState == IF irq.at = "state" THEN irq.level ELSE state
Switches ==
  /\ irq.at \in {"state", "ctrl"} /\ irq.last # NextState
  /\ NextState \notin {"stopped", "sleeping"}
NextErrMsk == IF Switches THEN NextState = "warning" ELSE hw.errMsk
NextDisarmed == ~Switches /\ hist.disarmed

\* The interrupts are enabled, by the last that had to do it.
Enabled ==
  work.at = "none" /\ (ctl = "open" \/ (mayWakeup /\ ctl \in Stopped))

\* In the state warning the bus error interrupt is on.
Armed ==
  /\ irq.at # "idle" /\ irq.last = "warning" => hw.errMsk \/ hist.disarmed
  /\ irq.at # "ctrl" /\ state = "warning" => hw.errMsk \/ hist.disarmed

\* The bus error interrupt has been switched off although the state is a warning.
Unarmed == NextDisarmed /\ NextState = "warning"

\* No level above active is unknown to the driver without something that will interrupt it.
Known ==
  /\ hw.level = "warning" =>
       NextState = "passive" \/ "warning" \in hw.flags \/ NextErrMsk \/ Unarmed
  /\ hw.level = "passive" =>
       \/ NextState = "passive"
       \/ "warning" \in hw.flags
       \/ Unarmed
       \/ NextErrMsk /\ ("error" \in hw.flags \/ NextState = "warning")
  /\ hw.level = "busoff" => NextState = "busoff" \/ hw.flags \cap {"warning", "busoff"} # {}

\* The same between the start of the chip and the interrupts.
Seen ==
  /\ hw.level \in {"warning", "passive"} =>
       NextState \in {"warning", "passive"} \/ "warning" \in hw.flags
  /\ hw.level = "busoff" => NextState = "busoff" \/ hw.flags \cap {"warning", "busoff"} # {}

\* Where the interrupts will be enabled the chip runs.
ChipRuns ==
  /\ ctl \in {"o.irq", "o.enable"} \/ (ctl = "r.enable" /\ work.at = "none")
       => hw.chip = "running"
  /\ work.at = "enable" /\ ctl \in {"open", "r.enable"} => hw.chip = "running"

\* What the driver knows of the chip.
StateInv ==
  ~hist.caught /\ ~hist.failed =>
    /\ ChipRuns
    /\ Enabled => hw.stateMsk /\ Armed /\ Known
    /\ ~Enabled /\ hw.chip = "running" /\ ctl \in {"o.irq", "o.enable", "open", "r.enable"}
         => Seen

\* Every step that neither catches nor fails keeps the level of the chip known.
LEMMA StateKept ==
  ASSUME CanTypes, CtlInv, EchoInv, StateInv, [CanNext]_canVars, ~hist'.caught,
         ~hist'.failed
  PROVE  StateInv'
<1>n. PICK F, R : F = Frames /\ R = Received
  OBVIOUS
<1>t. /\ net \in NetType(F) /\ hw \in HwType(F) /\ irq \in IrqType(R)
           /\ hist \in HistType(F, R)
      /\ ThreadsOK /\ state \in States /\ BudgetOK
  BY <1>n DEF CanTypes
<1>i. ~hist.caught => Transmission /\ BusOff /\ Asleep
  BY DEF EchoInv
<1>1. CASE Open
  BY <1>t, <1>i, <1>1
     DEF Open, CtlInv, NoIrq, StateInv, ChipRuns, Enabled, Armed, Known, Seen, NextState,
         Switches, NextErrMsk, NextDisarmed, Unarmed, Transmission, BusOff, Asleep,
         InFlight, OnBus, Stopped, BudgetOK, ThreadsOK, States
<1>2. CASE OpenReset
  BY <1>t, <1>i, <1>2
     DEF OpenReset, ChipReset, RxReset, CtlInv, NoIrq, StateInv, ChipRuns, Enabled, Armed,
         Known, Seen, NextState, Switches, NextErrMsk, NextDisarmed, Unarmed, Transmission,
         BusOff, Asleep, InFlight, OnBus, Stopped, BudgetOK, ThreadsOK, States, HwType,
         HistType
<1>3. CASE OpenRun
  BY <1>t, <1>i, <1>3
     DEF OpenRun, ChipRun, CtlInv, NoIrq, StateInv, ChipRuns, Enabled, Armed, Known, Seen,
         NextState, Switches, NextErrMsk, NextDisarmed, Unarmed, Transmission, BusOff,
         Asleep, InFlight, OnBus, Stopped, BudgetOK, ThreadsOK, States, HwType
<1>4. CASE OpenIrq
  BY <1>t, <1>i, <1>4
     DEF OpenIrq, CtlInv, NoIrq, StateInv, ChipRuns, Enabled, Armed, Known, Seen,
         NextState, Switches, NextErrMsk, NextDisarmed, Unarmed, Transmission, BusOff,
         Asleep, InFlight, OnBus, Stopped, BudgetOK, ThreadsOK, States
<1>5. CASE OpenEnable
  <2>1. /\ hw' = [hw EXCEPT !.imask = TRUE, !.stateMsk = TRUE, !.errMsk = FALSE]
             /\ irq.at = "idle"
        /\ hist' = [hist EXCEPT !.disarmed = (state = "warning")]
        /\ UNCHANGED <<mayWakeup, state, irq, work>>
        /\ ctl = "o.enable" /\ ctl' = "open"
    BY <1>5 DEF OpenEnable, InterruptsEnable
  <2>2. /\ hist'.caught = hist.caught /\ hist'.failed = hist.failed
        /\ (state = "warning" => hist'.disarmed)
    BY <1>t, <2>1 DEF HistType
  <2>3. /\ hw'.level = hw.level /\ hw'.flags = hw.flags /\ hw'.chip = hw.chip
        /\ hw'.stateMsk /\ ~hw'.errMsk
    BY <1>t, <2>1 DEF HwType
  <2> QED
    BY <1>t, <1>i, <2>1, <2>2, <2>3
    DEF CtlInv, NoIrq, StateInv, ChipRuns, Enabled, Armed, Known, Seen, NextState, Switches,
        NextErrMsk, NextDisarmed, Unarmed, Asleep, Stopped
<1>6. CASE OpenFails
  BY <1>t, <1>i, <1>6
     DEF OpenFails, CtlInv, NoIrq, StateInv, ChipRuns, Enabled, Armed, Known, Seen,
         NextState, Switches, NextErrMsk, NextDisarmed, Unarmed, Transmission, BusOff,
         Asleep, InFlight, OnBus, Stopped, BudgetOK, ThreadsOK, States, HwType
<1>7. CASE Close
  BY <1>t, <1>i, <1>7
     DEF Close, InterruptsDisable, CtlInv, NoIrq, StateInv, ChipRuns, Enabled, Armed,
         Known, Seen, NextState, Switches, NextErrMsk, NextDisarmed, Unarmed, Transmission,
         BusOff, Asleep, InFlight, OnBus, Stopped, BudgetOK, ThreadsOK, States, NetType,
         HwType
<1>8. CASE CloseFreeIrq
  BY <1>t, <1>i, <1>8
     DEF CloseFreeIrq, CtlInv, NoIrq, StateInv, ChipRuns, Enabled, Armed, Known, Seen,
         NextState, Switches, NextErrMsk, NextDisarmed, Unarmed, Transmission, BusOff,
         Asleep, InFlight, OnBus, Stopped, BudgetOK, ThreadsOK, States
<1>9. CASE CloseStop
  BY <1>t, <1>i, <1>9
     DEF CloseStop, CtlInv, NoIrq, StateInv, ChipRuns, Enabled, Armed, Known, Seen,
         NextState, Switches, NextErrMsk, NextDisarmed, Unarmed, Transmission, BusOff,
         Asleep, InFlight, OnBus, Stopped, BudgetOK, ThreadsOK, States, HwType
<1>10. CASE CloseCandev
  BY <1>t, <1>i, <1>10
     DEF CloseCandev, CtlInv, NoIrq, StateInv, ChipRuns, Enabled, Armed, Known, Seen,
         NextState, Switches, NextErrMsk, NextDisarmed, Unarmed, Transmission, BusOff,
         Asleep, InFlight, OnBus, Stopped, BudgetOK, ThreadsOK, WorkType, States, NetType
<1>11. CASE StartXmit
  BY <1>t, <1>i, <1>11
     DEF StartXmit, CtlInv, NoIrq, StateInv, ChipRuns, Enabled, Armed, Known, Seen,
         NextState, Switches, NextErrMsk, NextDisarmed, Unarmed, Transmission, BusOff,
         Asleep, InFlight, OnBus, Stopped, BudgetOK, ThreadsOK, States, NetType, HistType
<1>12. CASE XmitEcho
  BY <1>t, <1>i, <1>12
     DEF XmitEcho, CtlInv, NoIrq, StateInv, ChipRuns, Enabled, Armed, Known, Seen,
         NextState, Switches, NextErrMsk, NextDisarmed, Unarmed, Transmission, BusOff,
         Asleep, InFlight, OnBus, Stopped, BudgetOK, ThreadsOK, States, NetType
<1>13. CASE XmitWrite
  BY <1>t, <1>i, <1>13
     DEF XmitWrite, CtlInv, NoIrq, StateInv, ChipRuns, Enabled, Armed, Known, Seen,
         NextState, Switches, NextErrMsk, NextDisarmed, Unarmed, Transmission, BusOff,
         Asleep, InFlight, OnBus, Stopped, BudgetOK, ThreadsOK, States, NetType, HwType
<1>14. CASE Transmit
  BY <1>t, <1>i, <1>14
     DEF Transmit, CtlInv, NoIrq, StateInv, ChipRuns, Enabled, Armed, Known, Seen,
         NextState, Switches, NextErrMsk, NextDisarmed, Unarmed, Transmission, BusOff,
         Asleep, InFlight, OnBus, Stopped, BudgetOK, ThreadsOK, States, HwType, HistType
<1>15. CASE ErrorsRise
  <2>1. UNCHANGED <<mayWakeup, ctl, work, state, irq, hist>> /\ OnBus
    BY <1>15 DEF ErrorsRise
  <2>2. hw'.errMsk = hw.errMsk /\ hw'.stateMsk = hw.stateMsk /\ hw'.chip = hw.chip
    BY <1>t, <1>15, LevelSteps, CanTypesAre DEF HwType
  <2>3. \/ hw.level = "active" /\ hw'.level = "warning"
           /\ hw'.flags = hw.flags \cup {"error", "warning"}
        \/ hw.level = "warning" /\ hw'.level = "passive"
             /\ hw'.flags = hw.flags \cup {"error"}
        \/ hw.level = "passive" /\ hw'.level = "busoff"
           /\ hw'.flags = hw.flags \cup {"error", "busoff"}
    BY <1>t, <1>15, LevelSteps, CanTypesAre DEF HwType
  <2> QED
    BY <1>t, <1>i, <2>1, <2>2, <2>3
    DEF StateInv, ChipRuns, Enabled, Armed, Known, Seen, NextState, Switches, NextErrMsk,
        NextDisarmed, Unarmed, HwType
<1>16. CASE ErrorsFall
  <2>1. UNCHANGED <<mayWakeup, ctl, work, state, irq, hist>> /\ OnBus
    BY <1>16 DEF ErrorsFall
  <2>2. hw'.errMsk = hw.errMsk /\ hw'.stateMsk = hw.stateMsk /\ hw'.chip = hw.chip
    BY <1>t, <1>16, LevelSteps, CanTypesAre DEF HwType
  <2>3. /\ hw'.flags = hw.flags
        /\ \/ hw.level = "warning" /\ hw'.level = "active"
           \/ hw.level = "passive" /\ hw'.level = "warning"
    BY <1>t, <1>16, LevelSteps, CanTypesAre DEF HwType
  <2> QED
    BY <1>t, <1>i, <2>1, <2>2, <2>3
    DEF StateInv, ChipRuns, Enabled, Armed, Known, Seen, NextState, Switches, NextErrMsk,
        NextDisarmed, Unarmed, HwType
<1>17. CASE Receive
  BY <1>t, <1>i, <1>17
     DEF Receive, MoveIn, CtlInv, NoIrq, StateInv, ChipRuns, Enabled, Armed, Known, Seen,
         NextState, Switches, NextErrMsk, NextDisarmed, Unarmed, Transmission, BusOff,
         Asleep, InFlight, OnBus, Stopped, BudgetOK, ThreadsOK, States, HistType
<1>18. CASE IrqEnter
  BY <1>t, <1>i, <1>18
     DEF IrqEnter, CtlInv, NoIrq, StateInv, ChipRuns, Enabled, Armed, Known, Seen,
         NextState, Switches, NextErrMsk, NextDisarmed, Unarmed, Transmission, BusOff,
         Asleep, InFlight, OnBus, Stopped, BudgetOK, ThreadsOK, States, IrqType
<1>19. CASE IrqRxFlags
  BY <1>t, <1>i, <1>19
     DEF IrqRxFlags, CtlInv, NoIrq, StateInv, ChipRuns, Enabled, Armed, Known, Seen,
         NextState, Switches, NextErrMsk, NextDisarmed, Unarmed, Transmission, BusOff,
         Asleep, InFlight, OnBus, Stopped, BudgetOK, ThreadsOK, States, IrqType
<1>20. CASE MailboxRead
  <2>1. UNCHANGED <<mayWakeup, ctl, work, state, hw>> /\ irq.at = "mailbox"
    BY <1>20 DEF MailboxRead
  <2>2. irq'.at \in {"mailbox", "clear"} /\ irq'.last = irq.last
    BY <1>t, <1>20 DEF MailboxRead, IrqType
  <2>3. /\ hist'.caught = hist.caught /\ hist'.failed = hist.failed
        /\ hist'.disarmed = hist.disarmed
    BY <1>t, <1>20 DEF MailboxRead, HistType
  <2> QED
    BY <2>1, <2>2, <2>3
    DEF StateInv, ChipRuns, Enabled, Armed, Known, Seen, NextState, Switches, NextErrMsk,
        NextDisarmed, Unarmed
<1>21. CASE MailboxClear
  BY <1>t, <1>i, <1>21
     DEF MailboxClear, CtlInv, NoIrq, StateInv, ChipRuns, Enabled, Armed, Known, Seen,
         NextState, Switches, NextErrMsk, NextDisarmed, Unarmed, Transmission, BusOff,
         Asleep, InFlight, OnBus, Stopped, BudgetOK, ThreadsOK, States, IrqType
<1>22. CASE MailboxUnlock
  BY <1>t, <1>i, <1>22
     DEF MailboxUnlock, CtlInv, NoIrq, StateInv, ChipRuns, Enabled, Armed, Known, Seen,
         NextState, Switches, NextErrMsk, NextDisarmed, Unarmed, Transmission, BusOff,
         Asleep, InFlight, OnBus, Stopped, BudgetOK, ThreadsOK, States, IrqType
<1>23. CASE MailboxesDone
  BY <1>t, <1>i, <1>23
     DEF MailboxesDone, CtlInv, NoIrq, StateInv, ChipRuns, Enabled, Armed, Known, Seen,
         NextState, Switches, NextErrMsk, NextDisarmed, Unarmed, Transmission, BusOff,
         Asleep, InFlight, OnBus, Stopped, BudgetOK, ThreadsOK, States, IrqType
<1>24. CASE IrqNoTx
  BY <1>t, <1>i, <1>24
     DEF IrqNoTx, CtlInv, NoIrq, StateInv, ChipRuns, Enabled, Armed, Known, Seen,
         NextState, Switches, NextErrMsk, NextDisarmed, Unarmed, Transmission, BusOff,
         Asleep, InFlight, OnBus, Stopped, BudgetOK, ThreadsOK, States, IrqType
<1>25. CASE IrqEcho
  BY <1>t, <1>i, <1>25
     DEF IrqEcho, CtlInv, NoIrq, StateInv, ChipRuns, Enabled, Armed, Known, Seen,
         NextState, Switches, NextErrMsk, NextDisarmed, Unarmed, Transmission, BusOff,
         Asleep, InFlight, OnBus, Stopped, BudgetOK, ThreadsOK, States, NetType, IrqType,
         HistType
<1>26. CASE IrqTxDone
  BY <1>t, <1>i, <1>26
     DEF IrqTxDone, CtlInv, NoIrq, StateInv, ChipRuns, Enabled, Armed, Known, Seen,
         NextState, Switches, NextErrMsk, NextDisarmed, Unarmed, Transmission, BusOff,
         Asleep, InFlight, OnBus, Stopped, BudgetOK, ThreadsOK, States, NetType, HwType,
         IrqType
<1>27. CASE IrqEsr
  BY <1>t, <1>i, <1>27
     DEF IrqEsr, CtlInv, NoIrq, StateInv, ChipRuns, Enabled, Armed, Known, Seen, NextState,
         Switches, NextErrMsk, NextDisarmed, Unarmed, Transmission, BusOff, Asleep,
         InFlight, OnBus, Stopped, BudgetOK, ThreadsOK, States, HwType, IrqType
<1>28. CASE IrqState
  BY <1>t, <1>i, <1>28
     DEF IrqState, Queued, CtlInv, NoIrq, StateInv, ChipRuns, Enabled, Armed, Known, Seen,
         NextState, Switches, NextErrMsk, NextDisarmed, Unarmed, Transmission, BusOff,
         Asleep, InFlight, OnBus, Stopped, BudgetOK, ThreadsOK, WorkType, States, IrqType, HistType
<1>29. CASE IrqCtrl
  BY <1>t, <1>i, <1>29
     DEF IrqCtrl, CtlInv, NoIrq, StateInv, ChipRuns, Enabled, Armed, Known, Seen,
         NextState, Switches, NextErrMsk, NextDisarmed, Unarmed, Transmission, BusOff,
         Asleep, InFlight, OnBus, Stopped, BudgetOK, ThreadsOK, States, HwType, IrqType,
         HistType
<1>30. CASE RestartFlush
  BY <1>t, <1>i, <1>30
     DEF RestartFlush, CtlInv, NoIrq, StateInv, ChipRuns, Enabled, Armed, Known, Seen,
         NextState, Switches, NextErrMsk, NextDisarmed, Unarmed, Transmission, BusOff,
         Asleep, InFlight, OnBus, Stopped, BudgetOK, ThreadsOK, WorkType, States, NetType
<1>31. CASE RestartReset
  BY <1>t, <1>i, <1>31
     DEF RestartReset, ChipReset, RxReset, CtlInv, NoIrq, StateInv, ChipRuns, Enabled,
         Armed, Known, Seen, NextState, Switches, NextErrMsk, NextDisarmed, Unarmed,
         Transmission, BusOff, Asleep, InFlight, OnBus, Stopped, BudgetOK, ThreadsOK, WorkType,
         States, HwType, HistType
<1>32. CASE RestartRun
  BY <1>t, <1>i, <1>32
     DEF RestartRun, ChipRun, CtlInv, NoIrq, StateInv, ChipRuns, Enabled, Armed, Known,
         Seen, NextState, Switches, NextErrMsk, NextDisarmed, Unarmed, Transmission,
         BusOff, Asleep, InFlight, OnBus, Stopped, BudgetOK, ThreadsOK, WorkType, States, HwType
<1>33. CASE RestartEnable
  <2>1. /\ hw' = [hw EXCEPT !.imask = TRUE, !.stateMsk = TRUE, !.errMsk = FALSE]
             /\ irq.at = "idle"
        /\ hist' = [hist EXCEPT !.disarmed = (state = "warning")]
        /\ UNCHANGED <<mayWakeup, state, irq, ctl>>
        /\ work.at = "enable" /\ WorkEnds
    BY <1>33 DEF RestartEnable, WorkEnds, InterruptsEnable
  <2>2. /\ hist'.caught = hist.caught /\ hist'.failed = hist.failed
        /\ (state = "warning" => hist'.disarmed)
    BY <1>t, <2>1 DEF HistType
  <2>3. /\ hw'.level = hw.level /\ hw'.flags = hw.flags /\ hw'.chip = hw.chip
        /\ hw'.stateMsk /\ ~hw'.errMsk
    BY <1>t, <2>1 DEF HwType
  <2> QED
    BY <1>t, <1>i, <2>1, <2>2, <2>3
    DEF CtlInv, NoIrq, StateInv, ChipRuns, Enabled, Armed, Known, Seen, NextState, Switches,
        NextErrMsk, NextDisarmed, Unarmed, Asleep, Stopped
<1>34. CASE RestartFails
  BY <1>t, <1>i, <1>34
     DEF RestartFails, WorkEnds, CtlInv, NoIrq, StateInv, ChipRuns, Enabled, Armed, Known,
        Seen,
         NextState, Switches, NextErrMsk, NextDisarmed, Unarmed, Transmission, BusOff,
         Asleep, InFlight, OnBus, Stopped, BudgetOK, ThreadsOK, WorkType, States, HwType, HistType
<1>35. CASE SuspendChip
  BY <1>t, <1>i, <1>35
     DEF SuspendChip, CtlInv, NoIrq, StateInv, ChipRuns, Enabled, Armed, Known, Seen,
         NextState, Switches, NextErrMsk, NextDisarmed, Unarmed, Transmission, BusOff,
         Asleep, InFlight, OnBus, Stopped, BudgetOK, ThreadsOK, States, HwType, HistType
<1>36. CASE SuspendFails
  BY <1>t, <1>i, <1>36
     DEF SuspendFails, CtlInv, NoIrq, StateInv, ChipRuns, Enabled, Armed, Known, Seen,
         NextState, Switches, NextErrMsk, NextDisarmed, Unarmed, Transmission, BusOff,
         Asleep, InFlight, OnBus, Stopped, BudgetOK, ThreadsOK, States, HwType, HistType
<1>37. CASE SuspendMask
  BY <1>t, <1>i, <1>37
     DEF SuspendMask, InterruptsDisable, CtlInv, NoIrq, StateInv, ChipRuns, Enabled, Armed,
         Known, Seen, NextState, Switches, NextErrMsk, NextDisarmed, Unarmed, Transmission,
         BusOff, Asleep, InFlight, OnBus, Stopped, BudgetOK, ThreadsOK, States, HwType
<1>38. CASE SuspendDetach
  BY <1>t, <1>i, <1>38
     DEF SuspendDetach, CtlInv, NoIrq, StateInv, ChipRuns, Enabled, Armed, Known, Seen,
         NextState, Switches, NextErrMsk, NextDisarmed, Unarmed, Transmission, BusOff,
         Asleep, InFlight, OnBus, Stopped, BudgetOK, ThreadsOK, States, NetType
<1>39. CASE SuspendNoirq
  BY <1>t, <1>i, <1>39
     DEF SuspendNoirq, CtlInv, NoIrq, StateInv, ChipRuns, Enabled, Armed, Known, Seen,
         NextState, Switches, NextErrMsk, NextDisarmed, Unarmed, Transmission, BusOff,
         Asleep, InFlight, OnBus, Stopped, BudgetOK, ThreadsOK, States
<1>40. CASE ResumeNoirq
  BY <1>t, <1>i, <1>40
     DEF ResumeNoirq, CtlInv, NoIrq, StateInv, ChipRuns, Enabled, Armed, Known, Seen,
         NextState, Switches, NextErrMsk, NextDisarmed, Unarmed, Transmission, BusOff,
         Asleep, InFlight, OnBus, Stopped, BudgetOK, ThreadsOK, States
<1>41. CASE ResumeAttach
  BY <1>t, <1>i, <1>41
     DEF ResumeAttach, CtlInv, NoIrq, StateInv, ChipRuns, Enabled, Armed, Known, Seen,
         NextState, Switches, NextErrMsk, NextDisarmed, Unarmed, Transmission, BusOff,
         Asleep, InFlight, OnBus, Stopped, BudgetOK, ThreadsOK, States, NetType
<1>42. CASE ResumeChip
  <2>1. ctl = "r.start" /\ UNCHANGED <<mayWakeup, work, state, irq>>
    BY <1>42 DEF ResumeChip
  <2>2. CASE mayWakeup
    <3>1. hw' = [hw EXCEPT !.chip = IF @ = "stop" THEN "running" ELSE @] /\ ctl' = "open"
          /\ hist' = hist
      BY <1>42, <2>2 DEF ResumeChip
    <3>2. /\ hw'.stateMsk = hw.stateMsk /\ hw'.errMsk = hw.errMsk
          /\ hw'.level = hw.level /\ hw'.flags = hw.flags
      BY <1>t, <3>1 DEF HwType
    <3>3. work.at = "none"
      BY <1>i, <2>1, <3>1 DEF Asleep, Stopped
    <3> QED
      BY <2>1, <2>2, <3>1, <3>2, <3>3
      DEF StateInv, ChipRuns, Enabled, Armed, Known, NextState, Switches, NextErrMsk,
          NextDisarmed, Unarmed, Stopped
  <2>3. CASE ~mayWakeup
    <3>1. ctl' = "r.run"
      BY <1>42, <2>3 DEF ResumeChip
    <3> QED
      BY <2>1, <2>3, <3>1 DEF StateInv, ChipRuns, Enabled, Stopped
  <2> QED
    BY <2>2, <2>3
<1>43. CASE ResumeRun
  BY <1>t, <1>i, <1>43
     DEF ResumeRun, ChipRun, CtlInv, NoIrq, StateInv, ChipRuns, Enabled, Armed, Known,
         Seen, NextState, Switches, NextErrMsk, NextDisarmed, Unarmed, Transmission,
         BusOff, Asleep, InFlight, OnBus, Stopped, BudgetOK, ThreadsOK, States, HwType
<1>44. CASE ResumeEnable
  <2>1. /\ hw' = [hw EXCEPT !.imask = TRUE, !.stateMsk = TRUE, !.errMsk = FALSE]
             /\ irq.at = "idle"
        /\ hist' = [hist EXCEPT !.disarmed = (state = "warning")]
        /\ UNCHANGED <<mayWakeup, state, irq, work>>
        /\ ctl = "r.enable" /\ ctl' = "open"
    BY <1>44 DEF ResumeEnable, InterruptsEnable
  <2>2. /\ hist'.caught = hist.caught /\ hist'.failed = hist.failed
        /\ (state = "warning" => hist'.disarmed)
    BY <1>t, <2>1 DEF HistType
  <2>3. /\ hw'.level = hw.level /\ hw'.flags = hw.flags /\ hw'.chip = hw.chip
        /\ hw'.stateMsk /\ ~hw'.errMsk
    BY <1>t, <2>1 DEF HwType
  <2> QED
    BY <1>t, <1>i, <2>1, <2>2, <2>3
    DEF CtlInv, NoIrq, StateInv, ChipRuns, Enabled, Armed, Known, Seen, NextState, Switches,
        NextErrMsk, NextDisarmed, Unarmed, Asleep, Stopped
<1>45. CASE ResumeFails
  BY <1>t, <1>i, <1>45
     DEF ResumeFails, CtlInv, NoIrq, StateInv, ChipRuns, Enabled, Armed, Known, Seen,
         NextState, Switches, NextErrMsk, NextDisarmed, Unarmed, Transmission, BusOff,
         Asleep, InFlight, OnBus, Stopped, BudgetOK, ThreadsOK, States, HwType, HistType
<1>47. CASE SuspendPinsFail
  BY <1>t, <1>47 DEF SuspendPinsFail, HistType
<1>46. CASE UNCHANGED canVars
  BY <1>46
     DEF canVars, StateInv, ChipRuns, Enabled, Armed, Known, Seen, NextState, Switches,
         NextErrMsk, NextDisarmed, Unarmed
<1> QED
  BY <1>1, <1>2, <1>3, <1>4, <1>5, <1>6, <1>7, <1>8, <1>9, <1>10, <1>11, <1>12, <1>13,
     <1>14, <1>15, <1>16, <1>17, <1>18, <1>19, <1>20, <1>21, <1>22, <1>23, <1>24, <1>25,
     <1>26, <1>27, <1>28, <1>29, <1>30, <1>31, <1>32, <1>33, <1>34, <1>35, <1>36, <1>37,
     <1>38, <1>39, <1>40, <1>41, <1>42, <1>43, <1>44, <1>45, <1>46, <1>47 DEF CanNext, Opening,
       Closing, Xmit, Bus,
     Irq, Restart, Suspending, Resuming
-----------------------------------------------------------------------------
(* The frames received                                                     *)

\* Where the frames are that were received and have not gone up: with a flag in a mailbox,
\* between the two steps that give it back in the one the handler has locked, in the serial
\* buffer, or in the batch.
InHand == irq.at \in {"clear", "unlock"}
Waiting(f) ==
  \/ \E i \in Mailboxes : rx.mb[i] = f /\ rx.flag[i]
  \/ rx.smb = f \/ f \in irq.batch \/ (InHand /\ irq.frame = f)

\* What the handler has in hand, and what the flags say of the mailboxes.
Reception ==
  /\ InHand => irq.pend # {}
  /\ ~InHand => rx.lock = -1 /\ irq.frame = 0
  /\ InHand /\ rx.lock # -1 => rx.lock = Lowest(irq.pend) /\ rx.mb[rx.lock] # 0
                                /\ (irq.frame = rx.mb[rx.lock]
                                     \/ rx.mb[rx.lock] \in hist.lost)
  /\ rx.smb # 0 => rx.lock = Highest /\ \A i \in Mailboxes : rx.mb[i] # 0
  /\ irq.at = "clear" /\ rx.lock = -1 => hist.torn
  /\ ~hist.torn =>
       \A i \in Mailboxes : rx.mb[i] # 0 => rx.flag[i] \/ (irq.at = "unlock" /\ rx.lock = i)
  /\ 0 \notin irq.batch /\ (irq.at = "idle" => irq.batch = {})
  /\ irq.at \notin {"mailbox", "clear", "unlock"} => irq.pend = {}
  /\ \A i \in irq.pend :
       rx.mb[i] # 0 => rx.flag[i] \/ (irq.at = "unlock" /\ i = Lowest(irq.pend))

\* Where a frame is, for every frame that was received.
Accounted ==
  ~hist.torn =>
    \A f \in 1 .. hist.received : Contains(hist.up, f) \/ f \in hist.lost \/ Waiting(f)

\* Mailboxes that have a frame for the handler.
Full == {i \in Mailboxes : rx.mb[i] # 0 /\ (rx.flag[i] \/ rx.lock = i)}

\* What has gone up went in order, and is older than what is to come.
UpSorted == \A i, j \in DOMAIN hist.up : i < j => hist.up[i] < hist.up[j]
UpOldest ==
  \A k \in DOMAIN hist.up :
    /\ \A i \in Full : hist.up[k] < rx.mb[i]
    /\ \A f \in irq.batch \cup ({rx.smb, irq.frame} \ {0}) : hist.up[k] < f

\* The frame in the serial buffer is the newest.
BufferNewest ==
  rx.smb # 0 => /\ \A i \in Full : rx.mb[i] < rx.smb
                /\ \A f \in irq.batch : f < rx.smb
                /\ irq.frame < rx.smb

\* The flags will be read again.
Again == irq.at \in {"rx", "mailbox", "clear", "unlock"} /\ irq.got

\* What came into a mailbox since the flags were read is newer than the batch, unless they
\* will be read again; so is what came since the chip was reset under the handler.
BatchOldest ==
  /\ ~Again /\ irq.frame = 0 =>
       \A i \in Full \ irq.pend : \A f \in irq.batch : f < rx.mb[i]
  /\ InHand /\ rx.lock = -1 /\ Lowest(irq.pend) \in Full =>
       \A f \in irq.batch : f < rx.mb[Lowest(irq.pend)]

\* The order of all frames received.
Order == UpSorted /\ UpOldest /\ BufferNewest /\ BatchOldest

\* Reception in all: where the frames are, and in which order.
RxInv == Reception /\ Accounted /\ Order

\* The numbers of the frames, for arithmetic.
LEMMA RxNumbers ==
  ASSUME CanTypes
  PROVE  /\ hist.received \in Nat
         /\ \A i \in Mailboxes : /\ rx.mb[i] \in Nat /\ rx.mb[i] <= hist.received
                                 /\ rx.flag[i] \in BOOLEAN /\ i \in Nat /\ i # -1
         /\ rx.smb \in Nat /\ rx.smb <= hist.received
         /\ rx.lock \in Mailboxes \cup {-1}
         /\ irq.frame \in Nat /\ irq.frame <= hist.received
         /\ \A f \in irq.batch : f \in Nat /\ f <= hist.received
         /\ \A k \in DOMAIN hist.up : hist.up[k] \in Nat /\ hist.up[k] <= hist.received
         /\ irq.pend \subseteq Mailboxes
<1>1. hist.received \in Nat
  BY DEF CanTypes, HistType
<1>2. \A f \in Received : f \in Nat /\ f <= hist.received
  BY <1>1 DEF Received
<1>3. rx \in RxType(Received) /\ irq \in IrqType(Received)
  BY DEF CanTypes
<1>4. hist.up \in Seq(Received)
  BY DEF CanTypes, HistType
<1>5. PICK R : R = Received
  OBVIOUS
<1>6. /\ \A i \in Mailboxes : rx.mb[i] \in R /\ rx.flag[i] \in BOOLEAN
      /\ rx.smb \in R /\ rx.lock \in Mailboxes \cup {-1}
  BY <1>3, <1>5 DEF RxType
<1>7. irq.frame \in R /\ irq.batch \subseteq R /\ irq.pend \subseteq Mailboxes
  BY <1>3, <1>5 DEF IrqType
<1>8. \A k \in DOMAIN hist.up : hist.up[k] \in R
  BY <1>4, <1>5
<1>9. \A i \in Mailboxes : i \in Nat /\ i # -1
  BY FlexCanAssumption
<1> QED
  BY <1>1, <1>2, <1>5, <1>6, <1>7, <1>8, <1>9

\* What the other steps leave as it is.
HistRx == /\ hist'.received = hist.received /\ hist'.up = hist.up
          /\ hist'.lost = hist.lost /\ hist'.torn = hist.torn
IrqRx == /\ irq'.pend = irq.pend /\ irq'.frame = irq.frame
         /\ irq'.got = irq.got /\ irq'.batch = irq.batch

\* The handler's points after the mailboxes.
AfterMailboxes == {"tx", "txdone", "esr", "state", "ctrl"}

\* Steps that touch neither mailboxes nor batch.
LEMMA RxUntouched ==
  ASSUME RxInv, rx' = rx, HistRx, IrqRx,
         irq'.at = irq.at \/ (irq.at \in AfterMailboxes /\ irq'.at \in AfterMailboxes)
  PROVE  RxInv'
<1>1. /\ InHand' <=> InHand
      /\ Again' <=> Again
      /\ Full' = Full
      /\ Lowest(irq.pend)' = Lowest(irq.pend)
      /\ (irq'.at \in {"mailbox", "clear", "unlock"}
           <=> irq.at \in {"mailbox", "clear", "unlock"})
      /\ (irq'.at = "idle" <=> irq.at = "idle")
      /\ (irq'.at = "unlock" <=> irq.at = "unlock")
           /\ (irq'.at = "clear" <=> irq.at = "clear")
  BY DEF InHand, Again, Full, AfterMailboxes, IrqRx, Lowest
<1>2. Reception'
  BY <1>1 DEF RxInv, Reception, HistRx, IrqRx
<1>3. Accounted'
  BY <1>1 DEF RxInv, Accounted, Waiting, HistRx, IrqRx
<1>4. Order'
  BY <1>1 DEF RxInv, Order, UpSorted, UpOldest, BufferNewest, BatchOldest, HistRx, IrqRx
<1> QED
  BY <1>2, <1>3, <1>4 DEF RxInv

\* A reset counts what was in the mailboxes as lost.
LEMMA RxResetKeeps ==
  ASSUME CanTypes, RxInv, RxReset, irq' = irq
  PROVE  RxInv'
<1>n. PICK F, R : F = Frames /\ R = Received
  OBVIOUS
<1>1. /\ rx' = [rx EXCEPT !.mb = [i \in Mailboxes |-> 0],
           !.flag = [i \in Mailboxes |-> FALSE],
                          !.lock = -1, !.smb = 0]
      /\ rx \in RxType(R)
  BY <1>n DEF RxReset, CanTypes
<1>2. rx'.mb = [i \in Mailboxes |-> 0] /\ rx'.lock = -1 /\ rx'.smb = 0
  BY <1>1 DEF RxType
<1>3. hist \in HistType(F, R)
  BY <1>n DEF CanTypes
<1>4. /\ hist'.received = hist.received /\ hist'.up = hist.up
      /\ hist'.lost = hist.lost \cup (({rx.mb[i] : i \in Mailboxes} \cup {rx.smb}) \ {0})
      /\ (hist'.torn <=> (hist.torn \/ irq.at = "clear"))
  BY <1>3 DEF RxReset, HistType
<1>5. Full' = {} /\ (InHand' <=> InHand)
  BY <1>2, RxNumbers DEF Full, InHand
<1>6. Reception'
  BY <1>2, <1>4, <1>5, RxNumbers DEF RxInv, Reception, InHand
<1>7. Accounted'
  BY <1>4 DEF RxInv, Accounted, Waiting, InHand
<1>8. Order'
  BY <1>2, <1>4, <1>5 DEF RxInv, Order, UpSorted, UpOldest, BufferNewest, BatchOldest
<1> QED
  BY <1>6, <1>7, <1>8 DEF RxInv

\* A frame that comes in is newer than every other, and what it overwrites is lost.
LEMMA ReceiveKeeps ==
  ASSUME CanTypes, RxInv, Receive
  PROVE  RxInv'
<1>n. PICK F, R : F = Frames /\ R = Received
  OBVIOUS
<1>t. rx \in RxType(R) /\ hist \in HistType(F, R)
  BY <1>n DEF CanTypes
<1> DEFINE frame == hist.received + 1
           over == IF Free # {} THEN 0
                   ELSE IF rx.lock = Highest THEN rx.smb ELSE rx.mb[Highest]
<1>1. /\ irq' = irq
      /\ hist' = [hist EXCEPT !.received = frame, !.lost = @ \cup ({over} \ {0})]
  BY DEF Receive
<1>2. /\ hist'.received = frame /\ hist'.up = hist.up /\ hist'.torn = hist.torn
      /\ hist'.lost = hist.lost \cup ({over} \ {0})
  BY <1>t, <1>1 DEF HistType
<1>3. /\ InHand' <=> InHand
      /\ Again' <=> Again
      /\ Lowest(irq.pend)' = Lowest(irq.pend)
  BY <1>1 DEF InHand, Again, Lowest
<1>4. frame \in Nat /\ frame # 0 /\ frame > hist.received
  BY RxNumbers
<1>5. Highest \in Mailboxes
  BY HighestIn
<1>6. CASE \E i \in Mailboxes : /\ rx' = [rx EXCEPT !.mb[i] = frame, !.flag[i] = TRUE]
                                /\ rx.lock # i
                                /\ rx.mb[i] # 0 => i = Highest /\ Free = {}
                                /\ Free = {} => i = Highest
  <2>1. PICK i \in Mailboxes : /\ rx' = [rx EXCEPT !.mb[i] = frame, !.flag[i] = TRUE]
                               /\ rx.lock # i
                               /\ rx.mb[i] # 0 => i = Highest /\ Free = {}
                               /\ Free = {} => i = Highest
    BY <1>6
  <2>2. /\ rx'.lock = rx.lock /\ rx'.smb = rx.smb
        /\ rx'.mb[i] = frame /\ rx'.flag[i] = TRUE
        /\ \A j \in Mailboxes \ {i} : rx'.mb[j] = rx.mb[j] /\ rx'.flag[j] = rx.flag[j]
    BY <1>t, <2>1 DEF RxType
  <2>3. rx.mb[i] = 0 \/ rx.mb[i] \in hist'.lost
    BY <1>2, <2>1
  <2>4. rx.smb = 0
    <3>1. rx.smb # 0 => i # Highest /\ rx.mb[i] # 0
      BY <2>1 DEF RxInv, Reception
    <3> QED
      BY <2>1, <3>1
  <2>5. Full' = Full \cup {i}
    BY <1>4, <2>2 DEF Full
  <2>6. Reception'
    <3>1. rx.lock # -1 => rx.lock \in Mailboxes \ {i}
      BY <2>1, RxNumbers
    <3>2. irq.pend \subseteq Mailboxes
      BY RxNumbers
    <3> HIDE DEF frame, over
    <3> QED
      BY <1>1, <1>2, <1>3, <1>4, <2>2, <2>4, <3>1, <3>2 DEF RxInv, Reception
  <2>7. Accounted'
    <3> SUFFICES ASSUME ~hist.torn, NEW f \in 1 .. frame
                 PROVE  Contains(hist.up, f) \/ f \in hist'.lost \/ Waiting(f)'
      BY <1>2 DEF Accounted
    <3>1. CASE f = frame
      BY <2>2, <3>1 DEF Waiting
    <3>2. CASE f # frame
      <4>1. Contains(hist.up, f) \/ f \in hist.lost \/ Waiting(f)
        BY <3>2, <1>4, RxNumbers DEF RxInv, Accounted
      <4>2. CASE \E j \in Mailboxes : rx.mb[j] = f /\ rx.flag[j]
        BY <2>2, <2>3, <4>2, <3>2, <1>4 DEF Waiting
      <4> QED
        BY <1>1, <1>2, <1>3, <2>2, <4>1, <4>2 DEF Waiting
    <3> QED
      BY <3>1, <3>2
  <2>8. \A j \in Full : rx'.mb[j] = rx.mb[j] \/ j = i
    BY <2>2 DEF Full
  <2>9. Order'
    <3> HIDE DEF frame, over
    <3> QED
      BY <1>1, <1>2, <1>3, <1>4, <2>2, <2>4, <2>5, <2>8, RxNumbers
      DEF RxInv, Order, UpSorted, UpOldest, BufferNewest, BatchOldest, Full
  <2> QED
    BY <2>6, <2>7, <2>9 DEF RxInv
<1>7. CASE rx' = [rx EXCEPT !.smb = frame] /\ Free = {} /\ rx.lock = Highest
  <2>1. rx'.lock = rx.lock /\ rx'.smb = frame /\ rx'.mb = rx.mb /\ rx'.flag = rx.flag
    BY <1>t, <1>7 DEF RxType
  <2>2. over = rx.smb /\ rx.lock # -1
    BY <1>5, <1>7, RxNumbers
  <2>3. Full' = Full
    BY <2>1 DEF Full
  <2>4. \A i \in Mailboxes : rx.mb[i] # 0
    <3>1. InHand
      BY <2>2 DEF RxInv, Reception
    <3>2. rx.mb[rx.lock] # 0
      BY <2>2, <3>1 DEF RxInv, Reception
    <3> QED
      BY <1>7, <3>2 DEF Free
  <2>5. Reception'
    <3> HIDE DEF frame, over
    <3> QED
      BY <1>1, <1>2, <1>3, <1>7, <2>1, <2>4 DEF RxInv, Reception
  <2>6. Accounted'
    <3> SUFFICES ASSUME ~hist.torn, NEW f \in 1 .. frame
                 PROVE  Contains(hist.up, f) \/ f \in hist'.lost \/ Waiting(f)'
      BY <1>2 DEF Accounted
    <3>1. CASE f = frame
      BY <2>1, <3>1 DEF Waiting
    <3>2. CASE f # frame
      <4>1. Contains(hist.up, f) \/ f \in hist.lost \/ Waiting(f)
        BY <3>2, <1>4, RxNumbers DEF RxInv, Accounted
      <4>2. rx.smb = f => f \in hist'.lost
        BY <1>2, <2>2, <3>2, <1>4
      <4> QED
        BY <1>1, <1>2, <1>3, <2>1, <4>1, <4>2 DEF Waiting
    <3> QED
      BY <3>1, <3>2
  <2>7. Order'
    <3> HIDE DEF frame, over
    <3> QED
      BY <1>1, <1>2, <1>3, <1>4, <2>1, <2>3, RxNumbers
      DEF RxInv, Order, UpSorted, UpOldest, BufferNewest, BatchOldest, Full
  <2> QED
    BY <2>5, <2>6, <2>7 DEF RxInv
<1>8. \A i \in Mailboxes : MoveIn(i, frame)
        => rx' = [rx EXCEPT !.mb[i] = frame, !.flag[i] = TRUE]
  <2> SUFFICES ASSUME NEW i \in Mailboxes, MoveIn(i, frame)
               PROVE  rx' = [rx EXCEPT !.mb[i] = frame, !.flag[i] = TRUE]
    OBVIOUS
  <2>1. rx.smb # frame
    BY <1>4, RxNumbers
  <2> HIDE DEF frame
  <2> QED
    BY <1>t, <2>1 DEF MoveIn, RxType
<1>9. Free # {} => Lowest(Free) \in Free /\ Free \subseteq Mailboxes
  BY LowestIn DEF Free
<1>10. CASE Free # {} /\ MoveIn(Lowest(Free), frame)
  <2>1. /\ Lowest(Free) \in Mailboxes /\ rx.lock # Lowest(Free)
        /\ rx.mb[Lowest(Free)] = 0
    BY <1>9, <1>10 DEF Free
  <2> QED
    BY <1>6, <1>8, <1>10, <2>1
<1>11. CASE Free = {} /\ rx.lock # Highest /\ MoveIn(Highest, frame)
  BY <1>5, <1>6, <1>8, <1>11
<1> QED
  BY <1>7, <1>10, <1>11 DEF Receive

\* The handler reads the flags, or goes on when there are none or nothing was taken.
LEMMA RxFlagsKeep ==
  ASSUME CanTypes, RxInv, IrqRxFlags
  PROVE  RxInv'
<1>n. PICK R : R = Received
  OBVIOUS
<1>t. irq \in IrqType(R)
  BY <1>n DEF CanTypes
<1> DEFINE flags == {i \in Mailboxes : rx.flag[i]}
<1>1. /\ rx' = rx /\ hist' = hist /\ irq.at = "rx"
      /\ \/ irq' = [irq EXCEPT !.at = "mailbox", !.pend = flags, !.got = FALSE]
         \/ irq' = [irq EXCEPT !.at = "tx"] /\ (flags = {} \/ ~irq.got)
  BY DEF IrqRxFlags
<1>2. /\ irq'.frame = irq.frame /\ irq'.batch = irq.batch
      /\ \/ irq'.at = "mailbox" /\ irq'.pend = flags /\ ~irq'.got
         \/ irq'.at = "tx" /\ irq'.pend = irq.pend /\ (flags = {} \/ ~irq.got)
  <2> HIDE DEF flags
  <2> QED
    BY <1>t, <1>1 DEF IrqType
<1>3. ~InHand /\ ~InHand' /\ ~Again' /\ irq.frame = 0 /\ rx.lock = -1 /\ irq.pend = {}
  BY <1>1, <1>2 DEF InHand, Again, RxInv, Reception
<1>4. Full' = Full /\ Full \subseteq flags
  BY <1>1, <1>3, RxNumbers DEF Full
<1>5. Reception'
  BY <1>1, <1>2, <1>3 DEF RxInv, Reception
<1>6. Accounted'
  BY <1>1, <1>2, <1>3 DEF RxInv, Accounted, Waiting
<1>7. BatchOldest'
  <2>1. \A i \in Full' \ irq'.pend : \A f \in irq'.batch : f < rx'.mb[i]
    <3>1. CASE irq'.pend = flags
      BY <1>4, <3>1
    <3>2. CASE flags = {}
      BY <1>4, <3>2
    <3>3. CASE ~irq.got /\ irq'.pend = irq.pend
      BY <1>1, <1>2, <1>3, <1>4, <3>3 DEF RxInv, Order, BatchOldest, Again
    <3> QED
      BY <1>2, <3>1, <3>2, <3>3
  <2> QED
    BY <1>3, <2>1 DEF BatchOldest
<1>8. (UpSorted /\ UpOldest /\ BufferNewest)'
  BY <1>1, <1>2, <1>4 DEF RxInv, Order, UpSorted, UpOldest, BufferNewest
<1> QED
  BY <1>5, <1>6, <1>7, <1>8 DEF RxInv, Order

\* It reads the next mailbox with a flag.  Without memory the frame is lost.
LEMMA ReadKeeps ==
  ASSUME CanTypes, RxInv, MailboxRead
  PROVE  RxInv'
<1>n. PICK F, R : F = Frames /\ R = Received
  OBVIOUS
<1>t. irq \in IrqType(R) /\ rx \in RxType(R) /\ hist \in HistType(F, R)
  BY <1>n DEF CanTypes
<1> DEFINE i == Lowest(irq.pend)
<1>1. irq.at = "mailbox" /\ i \in irq.pend /\ i \in Mailboxes
  BY LowestIn, RxNumbers DEF MailboxRead
<1>2. ~InHand /\ rx.lock = -1 /\ irq.frame = 0 /\ rx.smb = 0
  BY <1>1, HighestIn, FlexCanAssumption DEF InHand, RxInv, Reception
<1>3. CASE rx.mb[i] = 0
  <2>1. irq' = [irq EXCEPT !.pend = irq.pend \ {i}] /\ rx' = rx /\ hist' = hist
    BY <1>3 DEF MailboxRead
  <2>2. /\ irq'.pend = irq.pend \ {i} /\ irq'.at = irq.at /\ irq'.frame = irq.frame
        /\ irq'.got = irq.got /\ irq'.batch = irq.batch
    <3> HIDE DEF i
    <3> QED
      BY <1>t, <2>1 DEF IrqType
  <2>3. Full' = Full /\ i \notin Full /\ ~InHand' /\ (Again' <=> Again)
    BY <1>2, <1>3, <2>1, <2>2 DEF Full, InHand, Again
  <2>4. Reception'
    <3> HIDE DEF i
    <3> QED
      BY <1>1, <1>2, <2>1, <2>2, <2>3 DEF RxInv, Reception
  <2>5. Accounted'
    BY <1>2, <2>1, <2>2, <2>3 DEF RxInv, Accounted, Waiting
  <2>6. Order'
    <3> HIDE DEF i
    <3> QED
      BY <2>1, <2>2, <2>3 DEF RxInv, Order, UpSorted, UpOldest, BufferNewest, BatchOldest
  <2> QED
    BY <2>4, <2>5, <2>6 DEF RxInv
<1>4. CASE rx.mb[i] # 0
  <2>1. /\ rx' = [rx EXCEPT !.lock = i]
        /\ \/ irq' = [irq EXCEPT !.at = "clear", !.frame = rx.mb[i]] /\ hist' = hist
           \/ /\ irq' = [irq EXCEPT !.at = "clear", !.frame = 0]
              /\ hist' = [hist EXCEPT !.lost = @ \cup {rx.mb[i]}]
    BY <1>4 DEF MailboxRead
  <2>2. /\ rx'.lock = i /\ rx'.mb = rx.mb /\ rx'.flag = rx.flag /\ rx'.smb = 0
    <3> HIDE DEF i
    <3> QED
      BY <1>t, <1>2, <2>1 DEF RxType
  <2>3. /\ irq'.at = "clear" /\ irq'.pend = irq.pend /\ irq'.got = irq.got
        /\ irq'.batch = irq.batch /\ (irq'.frame = rx.mb[i] \/ irq'.frame = 0)
    <3> HIDE DEF i
    <3> QED
      BY <1>t, <2>1 DEF IrqType
  <2>4. /\ hist'.received = hist.received /\ hist'.up = hist.up /\ hist'.torn = hist.torn
        /\ hist.lost \subseteq hist'.lost
             /\ (irq'.frame = rx.mb[i] \/ rx.mb[i] \in hist'.lost)
    <3> HIDE DEF i
    <3>1. \/ irq'.frame = rx.mb[i] /\ hist' = hist
          \/ hist' = [hist EXCEPT !.lost = @ \cup {rx.mb[i]}]
      BY <1>t, <2>1 DEF IrqType
    <3> QED
      BY <1>t, <3>1 DEF HistType
  <2>5. rx.flag[i] /\ InHand'
    BY <1>1, <1>4, <2>3 DEF RxInv, Reception, InHand
  <2>6. Full' = Full /\ i \in Full
    <3>1. \A j \in Mailboxes : j # -1
      BY FlexCanAssumption
    <3> HIDE DEF i
    <3> QED
      BY <1>1, <1>2, <1>4, <2>2, <2>5, <3>1 DEF Full
  <2>7. Reception'
    <3>1. irq.pend # {} /\ i = Lowest(irq'.pend) /\ i # -1 /\ irq.pend \subseteq Mailboxes
      BY <1>1, <2>3, FlexCanAssumption, RxNumbers
    <3> HIDE DEF i
    <3> QED
      BY <1>1, <1>2, <1>4, <2>2, <2>3, <2>4, <2>5, <3>1 DEF RxInv, Reception
  <2>8. Accounted'
    <3> SUFFICES ASSUME ~hist.torn, NEW f \in 1 .. hist.received
                 PROVE  Contains(hist.up, f) \/ f \in hist'.lost \/ Waiting(f)'
      BY <2>4 DEF Accounted
    <3>1. Contains(hist.up, f) \/ f \in hist.lost \/ Waiting(f)
      BY DEF RxInv, Accounted
    <3> HIDE DEF i
    <3> QED
      BY <1>2, <2>2, <2>3, <2>4, <3>1, RxNumbers DEF Waiting
  <2>9. Order'
    <3>1. i # -1
      BY <1>1, FlexCanAssumption
    <3> HIDE DEF i
    <3>2. UpSorted' /\ BufferNewest'
      BY <2>2, <2>4 DEF RxInv, Order, UpSorted, BufferNewest
    <3>3. UpOldest'
      BY <1>2, <2>2, <2>3, <2>4, <2>6 DEF RxInv, Order, UpOldest
    <3>4. Again' <=> Again
      BY <1>1, <2>3 DEF Again
    <3>5. BatchOldest'
      BY <1>2, <2>2, <2>3, <2>6, <3>1, <3>4 DEF RxInv, Order, BatchOldest
    <3> QED
      BY <3>2, <3>3, <3>5 DEF Order
  <2> QED
    BY <2>7, <2>8, <2>9 DEF RxInv
<1> QED
  BY <1>3, <1>4

\* It clears the flag of that mailbox, which it has locked unless the chip was reset.
LEMMA ClearKeeps ==
  ASSUME CanTypes, RxInv, MailboxClear
  PROVE  RxInv'
<1>n. PICK R : R = Received
  OBVIOUS
<1>t. irq \in IrqType(R) /\ rx \in RxType(R)
  BY <1>n DEF CanTypes
<1> DEFINE i == Lowest(irq.pend)
<1>1. irq.at = "clear" /\ i \in irq.pend /\ i \in Mailboxes
  <2>1. irq.at = "clear" /\ irq.pend # {}
    BY DEF MailboxClear, RxInv, Reception, InHand
  <2> QED
    BY <2>1, LowestIn, RxNumbers
<1>2. /\ rx' = [rx EXCEPT !.flag[i] = FALSE] /\ irq' = [irq EXCEPT !.at = "unlock"]
      /\ hist' = hist
  BY DEF MailboxClear
<1>3. /\ rx'.lock = rx.lock /\ rx'.mb = rx.mb /\ rx'.smb = rx.smb /\ ~rx'.flag[i]
      /\ \A j \in Mailboxes \ {i} : rx'.flag[j] = rx.flag[j]
  <2> HIDE DEF i
  <2> QED
    BY <1>t, <1>1, <1>2 DEF RxType
<1>4. /\ irq'.at = "unlock" /\ irq'.pend = irq.pend /\ irq'.got = irq.got
      /\ irq'.batch = irq.batch /\ irq'.frame = irq.frame
  BY <1>t, <1>2 DEF IrqType
<1>5. /\ InHand /\ InHand' /\ (Again' <=> Again) /\ Lowest(irq'.pend) = i
      /\ (rx.lock # -1 => rx.lock = i)
  BY <1>1, <1>4 DEF InHand, Again, RxInv, Reception
<1>6. Full' \subseteq Full
  BY <1>1, <1>3, RxNumbers DEF Full
<1>7. Reception'
  <2>1. irq.pend \subseteq Mailboxes /\ (~hist.torn => rx.lock = i)
    BY <1>1, <1>5, RxNumbers DEF RxInv, Reception
  <2> HIDE DEF i
  <2> QED
    BY <1>1, <1>2, <1>3, <1>4, <1>5, <2>1 DEF RxInv, Reception
<1>8. Accounted'
  <2> SUFFICES ASSUME ~hist.torn, NEW f \in 1 .. hist.received
               PROVE  Contains(hist.up, f) \/ f \in hist.lost \/ Waiting(f)'
    BY <1>2 DEF Accounted
  <2>1. Contains(hist.up, f) \/ f \in hist.lost \/ Waiting(f)
    BY DEF RxInv, Accounted
  <2>2. irq.frame = rx.mb[i] \/ rx.mb[i] \in hist.lost
    BY <1>1, <1>5 DEF RxInv, Reception
  <2> HIDE DEF i
  <2> QED
    BY <1>3, <1>4, <1>5, <2>1, <2>2 DEF Waiting
<1>9. Order'
  <2> HIDE DEF i
  <2>1. UpSorted' /\ UpOldest' /\ BufferNewest'
    BY <1>2, <1>3, <1>4, <1>6 DEF RxInv, Order, UpSorted, UpOldest, BufferNewest
  <2>2. BatchOldest'
    BY <1>3, <1>4, <1>5, <1>6 DEF RxInv, Order, BatchOldest, i
  <2> QED
    BY <2>1, <2>2 DEF Order
<1> QED
  BY <1>7, <1>8, <1>9 DEF RxInv

\* It gives the mailbox back, with what the serial buffer has for it.
LEMMA UnlockKeeps ==
  ASSUME CanTypes, RxInv, MailboxUnlock
  PROVE  RxInv'
<1>n. PICK R : R = Received
  OBVIOUS
<1>t. irq \in IrqType(R) /\ rx \in RxType(R)
  BY <1>n DEF CanTypes
<1> DEFINE i == Lowest(irq.pend)
<1>1. irq.at = "unlock" /\ i \in irq.pend /\ i \in Mailboxes /\ i # -1
  <2>1. irq.at = "unlock" /\ irq.pend # {}
    BY DEF MailboxUnlock, RxInv, Reception, InHand
  <2> QED
    BY <2>1, LowestIn, RxNumbers, FlexCanAssumption
<1>2. /\ irq' = [irq EXCEPT !.at = "mailbox", !.pend = irq.pend \ {i},
                            !.got = irq.got \/ irq.frame # 0,
                            !.batch = irq.batch \cup ({irq.frame} \ {0}), !.frame = 0]
      /\ hist' = hist
  BY DEF MailboxUnlock
<1>3. /\ irq'.at = "mailbox" /\ irq'.pend = irq.pend \ {i} /\ irq'.frame = 0
      /\ (irq'.got <=> (irq.got \/ irq.frame # 0))
      /\ irq'.batch = irq.batch \cup ({irq.frame} \ {0})
  <2> HIDE DEF i
  <2> QED
    BY <1>t, <1>2 DEF IrqType
<1>4. /\ InHand /\ ~InHand' /\ (Again <=> irq.got) /\ (Again' <=> irq'.got)
      /\ (rx.lock # -1 => rx.lock = i)
  BY <1>1, <1>3 DEF InHand, Again, RxInv, Reception
<1>5. /\ rx.lock = -1 => rx' = rx /\ rx.smb = 0
      /\ rx.lock = i
           => /\ rx'.mb[i] = rx.smb /\ (rx'.flag[i] <=> (rx.flag[i] \/ rx.smb # 0))
      /\ rx'.lock = -1 /\ rx'.smb = 0
      /\ \A j \in Mailboxes \ {i} : rx'.mb[j] = rx.mb[j] /\ rx'.flag[j] = rx.flag[j]
  <2>1. rx.lock = -1 => rx' = rx /\ rx.smb = 0
    BY HighestIn, FlexCanAssumption DEF MailboxUnlock, RxInv, Reception
  <2>2. rx.lock = i => rx' = [rx EXCEPT !.lock = -1, !.smb = 0, !.mb[i] = rx.smb,
                                        !.flag[i] = rx.flag[i] \/ rx.smb # 0]
    BY <1>1 DEF MailboxUnlock
  <2> HIDE DEF i
  <2>3. CASE rx.lock = -1
    BY <1>1, <2>1, <2>3
  <2>4. CASE rx.lock = i
    <3>1. /\ rx'.mb = [rx.mb EXCEPT ![i] = rx.smb] /\ rx'.lock = -1 /\ rx'.smb = 0
          /\ rx'.flag = [rx.flag EXCEPT ![i] = rx.flag[i] \/ rx.smb # 0]
          /\ rx.mb \in [Mailboxes -> R] /\ rx.flag \in [Mailboxes -> BOOLEAN]
      BY <1>t, <2>2, <2>4 DEF RxType
    <3> QED
      BY <1>1, <2>4, <3>1
  <2> QED
    BY <1>4, <2>3, <2>4
<1>6. /\ \A j \in Full' : j \in Full
           \/ (j = i /\ rx.lock = i /\ rx'.mb[i] = rx.smb /\ rx.smb # 0)
      /\ \A j \in Full' : rx'.mb[j] = rx.mb[j] \/ (j = i /\ rx.lock = i)
  <2>1. \A j \in Mailboxes : j # -1
    BY FlexCanAssumption
  <2> HIDE DEF i
  <2> QED
    BY <1>1, <1>4, <1>5, <2>1, RxNumbers DEF Full
<1>7. Reception'
  <2>1. irq.pend \subseteq Mailboxes
    BY RxNumbers
  <2> HIDE DEF i
  <2>2. /\ rx'.lock = -1 /\ irq'.frame = 0 /\ rx'.smb = 0 /\ ~InHand'
        /\ 0 \notin irq'.batch /\ irq'.at = "mailbox"
    BY <1>3, <1>4, <1>5 DEF RxInv, Reception
  <2>3. \A j \in irq'.pend : rx'.mb[j] # 0 => rx'.flag[j]
    BY <1>1, <1>3, <1>5, <2>1 DEF RxInv, Reception, i
  <2>4. ~hist.torn => \A j \in Mailboxes : rx'.mb[j] # 0 => rx'.flag[j]
    <3>1. \A j \in Mailboxes : j # -1
      BY FlexCanAssumption
    <3> QED
      BY <1>1, <1>4, <1>5, <3>1 DEF RxInv, Reception
  <2> QED
    BY <1>2, <2>2, <2>3, <2>4 DEF Reception
<1>8. Accounted'
  <2> SUFFICES ASSUME ~hist.torn, NEW f \in 1 .. hist.received
               PROVE  Contains(hist.up, f) \/ f \in hist.lost \/ Waiting(f)'
    BY <1>2 DEF Accounted
  <2>1. Contains(hist.up, f) \/ f \in hist.lost \/ Waiting(f)
    BY DEF RxInv, Accounted
  <2>2. f = irq.frame \/ f \in irq.batch => f \in irq'.batch
    BY <1>3
  <2>3. rx.lock = i => irq.frame = rx.mb[i] \/ rx.mb[i] \in hist.lost
    BY <1>1, <1>4 DEF RxInv, Reception
  <2>4. rx.smb = f => Waiting(f)'
    <3>1. rx.smb = f => rx.lock = i
      BY <1>4, <1>5
    <3> HIDE DEF i
    <3> QED
      BY <1>1, <1>5, <3>1 DEF Waiting
  <2>5. CASE \E j \in Mailboxes : rx.mb[j] = f /\ rx.flag[j]
    <3>1. PICK j \in Mailboxes : rx.mb[j] = f /\ rx.flag[j]
      BY <2>5
    <3>2. CASE j = i /\ rx.lock = i
      BY <2>2, <2>3, <3>1, <3>2 DEF Waiting
    <3>3. CASE ~(j = i /\ rx.lock = i)
      <4>1. rx'.mb[j] = f /\ rx'.flag[j]
        <5> HIDE DEF i
        <5> QED
          BY <1>4, <1>5, <3>1, <3>3
      <4> QED
        BY <4>1 DEF Waiting
    <3> QED
      BY <3>2, <3>3
  <2> QED
    BY <2>1, <2>2, <2>4, <2>5 DEF Waiting
<1>9. UpSorted' /\ BufferNewest'
  BY <1>2, <1>5 DEF RxInv, Order, UpSorted, BufferNewest
<1>10. UpOldest'
  <2> SUFFICES ASSUME NEW k \in DOMAIN hist.up
               PROVE  /\ \A j \in Full' : hist.up[k] < rx'.mb[j]
                      /\ \A f \in irq'.batch \cup ({rx'.smb, irq'.frame} \ {0}) :
                           hist.up[k] < f
    BY <1>2 DEF UpOldest
  <2>1. /\ \A j \in Full : hist.up[k] < rx.mb[j]
        /\ \A f \in irq.batch \cup ({rx.smb, irq.frame} \ {0}) : hist.up[k] < f
    BY DEF RxInv, Order, UpOldest
  <2>2. \A j \in Full' : (rx'.mb[j] = rx.mb[j] /\ j \in Full)
          \/ (rx'.mb[j] = rx.smb /\ rx.smb # 0)
    <3> HIDE DEF i
    <3> QED
      BY <1>5, <1>6, RxNumbers DEF Full
  <2> QED
    BY <1>3, <1>5, <2>1, <2>2
<1>11. BatchOldest'
  <2> SUFFICES ASSUME ~irq'.got, NEW j \in Full' \ irq'.pend, NEW f \in irq'.batch
               PROVE  f < rx'.mb[j]
    BY <1>4 DEF BatchOldest
  <2>1. ~irq.got /\ irq.frame = 0 /\ f \in irq.batch
    BY <1>3
  <2>2. \A x \in Full \ irq.pend : f < rx.mb[x]
    BY <1>4, <2>1 DEF RxInv, Order, BatchOldest
  <2>3. rx.smb # 0 => f < rx.smb
    BY <2>1 DEF RxInv, Order, BufferNewest
  <2>4. rx.lock = -1 /\ i \in Full => f < rx.mb[i]
    BY <1>4, <2>1 DEF RxInv, Order, BatchOldest
  <2> HIDE DEF i
  <2>5. CASE j = i
    <3>1. rx'.mb[j] # 0
      BY DEF Full
    <3> QED
      BY <1>4, <1>5, <1>6, <2>3, <2>4, <2>5, <3>1
  <2>6. CASE j # i
    BY <1>3, <1>5, <1>6, <2>2, <2>6
  <2> QED
    BY <2>5, <2>6
<1> QED
  BY <1>7, <1>8, <1>9, <1>10, <1>11 DEF RxInv, Order

\* All mailboxes of the round are read: the flags are read again.
LEMMA DoneKeeps ==
  ASSUME CanTypes, RxInv, MailboxesDone
  PROVE  RxInv'
<1>n. PICK R : R = Received
  OBVIOUS
<1>1. /\ irq.at = "mailbox" /\ irq.pend = {} /\ rx' = rx /\ hist' = hist
      /\ irq' = [irq EXCEPT !.at = "rx"] /\ irq \in IrqType(R)
  BY <1>n DEF MailboxesDone, CanTypes
<1>2. IrqRx /\ irq'.at = "rx"
  BY <1>1 DEF IrqType, IrqRx
<1>3. /\ Full' = Full /\ ~InHand /\ ~InHand' /\ (Again' <=> Again)
  BY <1>1, <1>2 DEF Full, InHand, Again, IrqRx
<1>4. Reception'
  BY <1>1, <1>2, <1>3 DEF RxInv, Reception, IrqRx
<1>5. Accounted'
  BY <1>1, <1>2, <1>3 DEF RxInv, Accounted, Waiting, IrqRx
<1>6. Order'
  BY <1>1, <1>2, <1>3 DEF RxInv, Order, UpSorted, UpOldest, BufferNewest, BatchOldest, IrqRx
<1> QED
  BY <1>4, <1>5, <1>6 DEF RxInv

\* The handler begins without a batch.
LEMMA EnterKeeps ==
  ASSUME CanTypes, RxInv, IrqEnter
  PROVE  RxInv'
<1>n. PICK R : R = Received
  OBVIOUS
<1>1. /\ irq.at = "idle" /\ rx' = rx /\ hist' = hist
      /\ irq' = [irq EXCEPT !.at = "rx", !.last = state, !.got = TRUE] /\ irq \in IrqType(R)
  BY <1>n DEF IrqEnter, CanTypes
<1>2. /\ irq'.at = "rx" /\ irq'.pend = irq.pend /\ irq'.frame = irq.frame
      /\ irq'.batch = irq.batch /\ irq.batch = {} /\ irq.frame = 0
  BY <1>1 DEF IrqType, RxInv, Reception, InHand
<1>3. Full' = Full /\ ~InHand /\ ~InHand'
  BY <1>1, <1>2 DEF Full, InHand
<1>4. Reception'
  BY <1>1, <1>2, <1>3 DEF RxInv, Reception
<1>5. Accounted'
  BY <1>1, <1>2, <1>3 DEF RxInv, Accounted, Waiting
<1>6. Order'
  BY <1>1, <1>2, <1>3 DEF RxInv, Order, UpSorted, UpOldest, BufferNewest, BatchOldest
<1> QED
  BY <1>4, <1>5, <1>6 DEF RxInv

\* The batch goes up when nothing older can come any more.
LEMMA CtrlKeeps ==
  ASSUME CanTypes, RxInv, IrqCtrl
  PROVE  RxInv'
<1>n. PICK F, R : F = Frames /\ R = Received
  OBVIOUS
<1>t. irq \in IrqType(R) /\ hist \in HistType(F, R)
  BY <1>n DEF CanTypes
<1> DEFINE s == InOrder(irq.batch)
<1>1. /\ irq.at = "ctrl" /\ rx' = rx /\ irq' = [irq EXCEPT !.at = "idle", !.batch = {}]
      /\ hist'.up = hist.up \o s /\ hist'.received = hist.received
      /\ hist'.lost = hist.lost /\ hist'.torn = hist.torn
  <2>1. \E b : hist' = [hist EXCEPT !.up = @ \o s, !.disarmed = b]
    BY DEF IrqCtrl
  <2> HIDE DEF s
  <2> QED
    BY <1>t, <2>1 DEF IrqCtrl, HistType
<1>2. /\ irq'.at = "idle" /\ irq'.batch = {} /\ irq'.pend = irq.pend
      /\ irq'.frame = irq.frame
  BY <1>t, <1>1 DEF IrqType
<1>3. /\ ~InHand /\ ~InHand' /\ ~Again /\ ~Again' /\ irq.frame = 0 /\ irq.pend = {}
      /\ rx.lock = -1 /\ rx.smb = 0 /\ 0 \notin irq.batch
  BY <1>1, <1>2, HighestIn, FlexCanAssumption DEF InHand, Again, RxInv, Reception
<1>4. Full' = Full
  BY <1>1 DEF Full
<1>5. irq.batch \subseteq Nat /\ IsFiniteSet(irq.batch)
  <2>1. irq.batch \subseteq 0 .. hist.received /\ hist.received \in Nat
    BY RxNumbers
  <2>2. IsFiniteSet(0 .. hist.received) /\ 0 .. hist.received \subseteq Nat
    BY <2>1, FS_Interval
  <2> QED
    BY <2>1, <2>2, FS_Subset
<1>6. /\ s \in Seq(irq.batch) /\ ToSet(s) = irq.batch
      /\ \A i, j \in DOMAIN s : i < j => s[i] < s[j]
  BY <1>5, InOrderSorts
<1> HIDE DEF s
<1>7. hist.up \in Seq(Nat) /\ s \in Seq(Nat)
  <2>1. Seq(R) \subseteq Seq(Nat) /\ hist.up \in Seq(R)
    BY <1>t, <1>n, RxNumbers DEF Received, HistType
  <2> QED
    BY <1>5, <1>6, <2>1
<1>8. /\ \A k \in DOMAIN hist'.up :
           \/ k \in DOMAIN hist.up /\ hist'.up[k] = hist.up[k]
           \/ /\ k - Len(hist.up) \in DOMAIN s /\ k > Len(hist.up)
              /\ hist'.up[k] = s[k - Len(hist.up)]
      /\ \A k \in DOMAIN hist.up : k \in DOMAIN hist'.up /\ hist'.up[k] = hist.up[k]
                                   /\ k \in Nat /\ k <= Len(hist.up)
      /\ \A k \in DOMAIN s : Len(hist.up) + k \in DOMAIN hist'.up
                             /\ hist'.up[Len(hist.up) + k] = s[k] /\ k \in Nat
      /\ Len(hist.up) \in Nat /\ DOMAIN hist'.up \subseteq Nat
  BY <1>1, <1>7, SMTT(30)
<1>9. \A k \in DOMAIN s : s[k] \in irq.batch
  BY <1>6
<1>10. \A f \in irq.batch : \E k \in DOMAIN s : s[k] = f
  BY <1>6 DEF ToSet
<1>11. Reception'
  BY <1>1, <1>2, <1>3 DEF RxInv, Reception
<1>12. \A f : Contains(hist.up, f) \/ f \in irq.batch => Contains(hist'.up, f)
  <2>1. \A t : t \in Seq(Nat) => DOMAIN t = 1 .. Len(t)
    OBVIOUS
  <2>2. hist'.up \in Seq(Nat)
    BY <1>1, <1>7
  <2> QED
    BY <1>7, <1>8, <1>10, <2>1, <2>2 DEF Contains
<1>13. Accounted'
  BY <1>1, <1>2, <1>3, <1>12 DEF RxInv, Accounted, Waiting
<1>14. \A k \in DOMAIN hist.up, f \in irq.batch : hist.up[k] < f
  BY DEF RxInv, Order, UpOldest
<1>15. UpSorted'
  <2> SUFFICES ASSUME NEW i \in DOMAIN hist'.up, NEW j \in DOMAIN hist'.up, i < j
               PROVE  hist'.up[i] < hist'.up[j]
    BY DEF UpSorted
  <2>1. i \in Nat /\ j \in Nat
    BY <1>8
  <2>2. CASE i \in DOMAIN hist.up /\ j \in DOMAIN hist.up
    BY <1>8, <2>2 DEF RxInv, Order, UpSorted
  <2>3. CASE i \in DOMAIN hist.up /\ j \notin DOMAIN hist.up
    BY <1>8, <1>9, <1>14, <2>3
  <2>4. CASE i \notin DOMAIN hist.up
    <3>1. i - Len(hist.up) \in DOMAIN s /\ i > Len(hist.up)
            /\ hist'.up[i] = s[i - Len(hist.up)]
      BY <1>8, <2>4
    <3>2. j \notin DOMAIN hist.up
      BY <1>8, <2>1, <3>1
    <3>3. j - Len(hist.up) \in DOMAIN s /\ hist'.up[j] = s[j - Len(hist.up)]
      BY <1>8, <3>2
    <3>4. i - Len(hist.up) < j - Len(hist.up)
      BY <1>8, <2>1
    <3> QED
      BY <1>6, <3>1, <3>3, <3>4
  <2> QED
    BY <2>2, <2>3, <2>4
<1>16. UpOldest'
  <2>1. \A i \in Full : /\ \A k \in DOMAIN hist.up : hist.up[k] < rx.mb[i]
                        /\ \A f \in irq.batch : f < rx.mb[i]
    BY <1>3 DEF RxInv, Order, UpOldest, BatchOldest
  <2>2. \A i \in Full', k \in DOMAIN hist'.up : hist'.up[k] < rx'.mb[i]
    BY <1>1, <1>4, <1>8, <1>9, <2>1
  <2> QED
    BY <1>1, <1>2, <1>3, <2>2 DEF UpOldest
<1>17. BufferNewest' /\ BatchOldest'
  BY <1>1, <1>2, <1>3 DEF BufferNewest, BatchOldest
<1> QED
  BY <1>11, <1>13, <1>15, <1>16, <1>17 DEF RxInv, Order

\* The frames received, through every step.
LEMMA RxKept ==
  ASSUME CanTypes, RxInv, [CanNext]_canVars
  PROVE  RxInv'
<1>n. PICK F, R : F = Frames /\ R = Received
  OBVIOUS
<1>t. irq \in IrqType(R) /\ hist \in HistType(F, R)
  BY <1>n DEF CanTypes
<1>1. CASE Open
  BY <1>1, RxUntouched DEF Open, HistRx, IrqRx
<1>2. CASE OpenReset
  BY <1>2, RxResetKeeps DEF OpenReset, ChipReset
<1>3. CASE OpenRun
  BY <1>3, RxUntouched DEF OpenRun, HistRx, IrqRx
<1>4. CASE OpenIrq
  BY <1>4, RxUntouched DEF OpenIrq, HistRx, IrqRx
<1>5. CASE OpenEnable
  <2>1. HistRx /\ IrqRx /\ rx' = rx
    BY <1>t, <1>5 DEF OpenEnable, InterruptsEnable, HistRx, IrqRx, HistType
  <2>2. irq'.at = irq.at
    BY <1>5 DEF OpenEnable
  <2> QED
    BY <2>1, <2>2, RxUntouched
<1>6. CASE OpenFails
  BY <1>6, RxUntouched DEF OpenFails, HistRx, IrqRx
<1>7. CASE Close
  BY <1>7, RxUntouched DEF Close, HistRx, IrqRx
<1>8. CASE CloseFreeIrq
  BY <1>8, RxUntouched DEF CloseFreeIrq, HistRx, IrqRx
<1>9. CASE CloseStop
  BY <1>9, RxUntouched DEF CloseStop, HistRx, IrqRx
<1>10. CASE CloseCandev
  BY <1>10, RxUntouched DEF CloseCandev, HistRx, IrqRx
<1>11. CASE StartXmit
  <2>1. HistRx /\ IrqRx /\ rx' = rx
    BY <1>t, <1>11 DEF StartXmit, HistRx, IrqRx, HistType
  <2>2. irq'.at = irq.at
    BY <1>11 DEF StartXmit
  <2> QED
    BY <2>1, <2>2, RxUntouched
<1>12. CASE XmitEcho
  BY <1>12, RxUntouched DEF XmitEcho, HistRx, IrqRx
<1>13. CASE XmitWrite
  BY <1>13, RxUntouched DEF XmitWrite, HistRx, IrqRx
<1>14. CASE Transmit
  <2>1. HistRx /\ IrqRx /\ rx' = rx
    BY <1>t, <1>14 DEF Transmit, HistRx, IrqRx, HistType
  <2>2. irq'.at = irq.at
    BY <1>14 DEF Transmit
  <2> QED
    BY <2>1, <2>2, RxUntouched
<1>15. CASE ErrorsRise
  BY <1>15, RxUntouched DEF ErrorsRise, HistRx, IrqRx
<1>16. CASE ErrorsFall
  BY <1>16, RxUntouched DEF ErrorsFall, HistRx, IrqRx
<1>17. CASE Receive
  BY <1>17, ReceiveKeeps
<1>18. CASE IrqEnter
  BY <1>18, EnterKeeps
<1>19. CASE IrqRxFlags
  BY <1>19, RxFlagsKeep
<1>20. CASE MailboxRead
  BY <1>20, ReadKeeps
<1>21. CASE MailboxClear
  BY <1>21, ClearKeeps
<1>22. CASE MailboxUnlock
  BY <1>22, UnlockKeeps
<1>23. CASE MailboxesDone
  BY <1>23, DoneKeeps
<1>24. CASE IrqNoTx
  <2>1. HistRx /\ IrqRx /\ rx' = rx
    BY <1>t, <1>24 DEF IrqNoTx, HistRx, IrqRx, IrqType
  <2>2. irq.at \in AfterMailboxes /\ irq'.at \in AfterMailboxes
    BY <1>t, <1>24 DEF IrqNoTx, AfterMailboxes, IrqType
  <2> QED
    BY <2>1, <2>2, RxUntouched
<1>25. CASE IrqEcho
  <2>1. HistRx /\ IrqRx /\ rx' = rx
    BY <1>t, <1>25 DEF IrqEcho, HistRx, IrqRx, IrqType, HistType
  <2>2. irq.at \in AfterMailboxes /\ irq'.at \in AfterMailboxes
    BY <1>t, <1>25 DEF IrqEcho, AfterMailboxes, IrqType
  <2> QED
    BY <2>1, <2>2, RxUntouched
<1>26. CASE IrqTxDone
  <2>1. HistRx /\ IrqRx /\ rx' = rx
    BY <1>t, <1>26 DEF IrqTxDone, HistRx, IrqRx, IrqType
  <2>2. irq.at \in AfterMailboxes /\ irq'.at \in AfterMailboxes
    BY <1>t, <1>26 DEF IrqTxDone, AfterMailboxes, IrqType
  <2> QED
    BY <2>1, <2>2, RxUntouched
<1>27. CASE IrqEsr
  <2>1. HistRx /\ IrqRx /\ rx' = rx
    BY <1>t, <1>27 DEF IrqEsr, HistRx, IrqRx, IrqType
  <2>2. irq.at \in AfterMailboxes /\ irq'.at \in AfterMailboxes
    BY <1>t, <1>27 DEF IrqEsr, AfterMailboxes, IrqType
  <2> QED
    BY <2>1, <2>2, RxUntouched
<1>28. CASE IrqState
  <2>1. HistRx /\ IrqRx /\ rx' = rx
    BY <1>t, <1>28 DEF IrqState, HistRx, IrqRx, IrqType, HistType
  <2>2. irq.at \in AfterMailboxes /\ irq'.at \in AfterMailboxes
    BY <1>t, <1>28 DEF IrqState, AfterMailboxes, IrqType
  <2> QED
    BY <2>1, <2>2, RxUntouched
<1>29. CASE IrqCtrl
  BY <1>29, CtrlKeeps
<1>30. CASE RestartFlush
  BY <1>30, RxUntouched DEF RestartFlush, HistRx, IrqRx
<1>31. CASE RestartReset
  BY <1>31, RxResetKeeps DEF RestartReset, ChipReset
<1>32. CASE RestartRun
  BY <1>32, RxUntouched DEF RestartRun, HistRx, IrqRx
<1>33. CASE RestartEnable
  <2>1. HistRx /\ IrqRx /\ rx' = rx
    BY <1>t, <1>33 DEF RestartEnable, InterruptsEnable, HistRx, IrqRx, HistType
  <2>2. irq'.at = irq.at
    BY <1>33 DEF RestartEnable, WorkEnds
  <2> QED
    BY <2>1, <2>2, RxUntouched
<1>34. CASE RestartFails
  <2>1. HistRx /\ IrqRx /\ rx' = rx
    BY <1>t, <1>34 DEF RestartFails, HistRx, IrqRx, HistType
  <2>2. irq'.at = irq.at
    BY <1>34 DEF RestartFails, WorkEnds
  <2> QED
    BY <2>1, <2>2, RxUntouched
<1>35. CASE SuspendChip
  <2>1. HistRx /\ IrqRx /\ rx' = rx
    BY <1>t, <1>35 DEF SuspendChip, HistRx, IrqRx, HistType
  <2>2. irq'.at = irq.at
    BY <1>35 DEF SuspendChip
  <2> QED
    BY <2>1, <2>2, RxUntouched
<1>36. CASE SuspendFails
  <2>1. HistRx /\ IrqRx /\ rx' = rx
    BY <1>t, <1>36 DEF SuspendFails, HistRx, IrqRx, HistType
  <2>2. irq'.at = irq.at
    BY <1>36 DEF SuspendFails
  <2> QED
    BY <2>1, <2>2, RxUntouched
<1>37. CASE SuspendMask
  BY <1>37, RxUntouched DEF SuspendMask, HistRx, IrqRx
<1>38. CASE SuspendDetach
  BY <1>38, RxUntouched DEF SuspendDetach, HistRx, IrqRx
<1>39. CASE SuspendNoirq
  BY <1>39, RxUntouched DEF SuspendNoirq, HistRx, IrqRx
<1>40. CASE ResumeNoirq
  BY <1>40, RxUntouched DEF ResumeNoirq, HistRx, IrqRx
<1>41. CASE ResumeAttach
  BY <1>41, RxUntouched DEF ResumeAttach, HistRx, IrqRx
<1>42. CASE ResumeChip
  <2>1. CASE mayWakeup
    BY <1>42, <2>1, RxUntouched DEF ResumeChip, HistRx, IrqRx
  <2>2. CASE ~mayWakeup
    BY <1>42, <2>2, RxResetKeeps DEF ResumeChip, ChipReset
  <2> QED
    BY <2>1, <2>2
<1>43. CASE ResumeRun
  BY <1>43, RxUntouched DEF ResumeRun, HistRx, IrqRx
<1>44. CASE ResumeEnable
  <2>1. HistRx /\ IrqRx /\ rx' = rx
    BY <1>t, <1>44 DEF ResumeEnable, InterruptsEnable, HistRx, IrqRx, HistType
  <2>2. irq'.at = irq.at
    BY <1>44 DEF ResumeEnable
  <2> QED
    BY <2>1, <2>2, RxUntouched
<1>45. CASE ResumeFails
  <2>1. HistRx /\ IrqRx /\ rx' = rx
    BY <1>t, <1>45 DEF ResumeFails, HistRx, IrqRx, HistType
  <2>2. irq'.at = irq.at
    BY <1>45 DEF ResumeFails
  <2> QED
    BY <2>1, <2>2, RxUntouched
<1>47. CASE SuspendPinsFail
  <2>1. HistRx /\ IrqRx /\ rx' = rx
    BY <1>t, <1>47 DEF SuspendPinsFail, HistRx, IrqRx, HistType
  <2> QED
    BY <1>47, <2>1, RxUntouched DEF SuspendPinsFail
<1>46. CASE UNCHANGED canVars
  BY <1>46, RxUntouched DEF canVars, HistRx, IrqRx
<1> QED
  BY <1>1, <1>2, <1>3, <1>4, <1>5, <1>6, <1>7, <1>8, <1>9, <1>10, <1>11, <1>12, <1>13,
     <1>14, <1>15, <1>16, <1>17, <1>18, <1>19, <1>20, <1>21, <1>22, <1>23, <1>24, <1>25,
     <1>26, <1>27, <1>28, <1>29, <1>30, <1>31, <1>32, <1>33, <1>34, <1>35, <1>36, <1>37,
     <1>38, <1>39, <1>40, <1>41, <1>42, <1>43, <1>44, <1>45, <1>46, <1>47 DEF CanNext, Opening,
       Closing, Xmit, Bus,
     Irq, Restart, Suspending, Resuming

-----------------------------------------------------------------------------
(* The theorems                                                            *)

\* The inductive invariant.
CanInv == CanTypes /\ CtlInv /\ EchoInv /\ StateInv /\ RxInv

\* It holds when nothing has happened,
LEMMA CanInitially == CanInit => CanInv
<1> SUFFICES ASSUME CanInit
             PROVE  CanInv
  OBVIOUS
<1>1. hist.frames = 0 /\ hist.received = 0 /\ hist.echoed = <<>> /\ hist.up = <<>>
      /\ Frames = {0} /\ Received = {0}
  BY DEF CanInit, Frames, Received
<1>2. net \in NetType({0}) /\ hw \in HwType({0}) /\ rx \in RxType({0})
        /\ irq \in IrqType({0})
  BY DEF CanInit, NetType, HwType, RxType, IrqType, AllLevels, States
<1>3. hist \in HistType({0}, {0})
  BY DEF CanInit, HistType
<1>4. CanTypes
  BY <1>1, <1>2, <1>3, FlexCanAssumption
  DEF CanInit, CanTypes, BudgetOK, ThreadsOK, WorkType, CtlPoints, States
<1>5. CtlInv
  BY DEF CanInit, CtlInv, NoIrq, Sending
<1>6. EchoInv
  BY
     DEF CanInit, EchoInv, Transmission, Echoes, BusOff, Asleep, InFlight, OnBus, Sending,
         Stopped
<1>7. StateInv
  BY DEF CanInit, StateInv, ChipRuns, Enabled, Stopped
<1>8. Reception /\ Full = {}
  BY DEF CanInit, Reception, InHand, Full
<1>9. Accounted
  BY <1>1 DEF Accounted
<1>10. Order
  BY <1>8 DEF CanInit, Order, UpSorted, UpOldest, BufferNewest, BatchOldest, InHand
<1> QED
  BY <1>4, <1>5, <1>6, <1>7, <1>8, <1>9, <1>10 DEF CanInv, RxInv

\* every step keeps it,
LEMMA CanInvKept == CanInv /\ [CanNext]_canVars => CanInv'
<1> SUFFICES ASSUME CanInv, [CanNext]_canVars
             PROVE  CanInv'
  OBVIOUS
<1>1. CanTypes' /\ CtlInv' /\ RxInv'
  BY CanTypesKept, CtlKept, RxKept DEF CanInv
<1>2. EchoInv'
  BY EchoKept DEF CanInv, EchoInv
<1>3. StateInv'
  BY StateKept DEF CanInv, StateInv
<1> QED
  BY <1>1, <1>2, <1>3 DEF CanInv

\* and so it always holds.
LEMMA CanInvariant == CanSpec => []CanInv
  BY CanInitially, CanInvKept, PTL DEF CanSpec

\* The types of the driver, the chip and the bus, of any number of frames.
THEOREM CanTypeCorrect == CanSpec => []CanTypeOK
<1>1. CanInv => CanTypeOK
  BY CanTypesAre DEF CanInv
<1> QED
  BY <1>1, CanInvariant, PTL

\* Every echo is that of the frame the chip has sent (flexcan_start_xmit, flexcan_irq): of
\* any number of frames, errors, restarts, suspends and failures, as long as no reset or
\* suspend has caught a frame or a restart, and no restart was queued again while it ran.
THEOREM EchoesMatch == CanSpec => []EchoIsOfTheSentFrame
<1>1. CanInv => EchoIsOfTheSentFrame
  BY DEF CanInv, EchoInv, Transmission, Echoes, EchoIsOfTheSentFrame
<1> QED
  BY <1>1, CanInvariant, PTL

\* Frames go up in the order of their reception (flexcan_mailbox_read, rx-offload), through
\* any mailboxes.
THEOREM RxOrderKept == CanSpec => []RxInOrder
<1>1. CanInv => RxInOrder
  <2> SUFFICES ASSUME CanInv
               PROVE  RxInOrder
    OBVIOUS
  <2>1. UpSorted
    BY DEF CanInv, RxInv, Order
  <2>2. ASSUME irq.at = "idle", ~hist.torn, NEW f \in 1 .. hist.received
        PROVE  \/ Contains(hist.up, f) \/ f \in hist.lost
               \/ \E i \in Mailboxes : rx.mb[i] = f /\ rx.flag[i]
    <3>1. Contains(hist.up, f) \/ f \in hist.lost \/ Waiting(f)
      BY <2>2 DEF CanInv, RxInv, Accounted
    <3>2. rx.smb = 0 /\ irq.batch = {} /\ ~InHand
      BY <2>2, HighestIn, FlexCanAssumption DEF CanInv, RxInv, Reception, InHand
    <3>3. f # 0
      BY RxNumbers DEF CanInv
    <3> QED
      BY <3>1, <3>2, <3>3 DEF Waiting
  <2> QED
    BY <2>1, <2>2 DEF RxInOrder, UpSorted
<1> QED
  BY <1>1, CanInvariant, PTL

\* The chip is not error passive or bus off behind the driver's back (the comment on the
\* error interrupt in flexcan_irq), through any number of errors.  Exempt is what comes after
\* a change that was lost for want of memory or a chip that did not start (failed), after a
\* suspend or a second restart has caught something, and, for error passive, after a restart
\* or resume that switches off the interrupt the handler had just enabled (disarmed).
THEOREM PassiveNeverHides == CanSpec => []PassiveCannotHide
<1>1. CanInv => PassiveCannotHide
  <2> SUFFICES ASSUME CanInv, ctl = "open", work.at = "none", irq.at = "idle", ~Line,
                      hw.level \in {"passive", "busoff"}, ~hist.failed, ~hist.caught
               PROVE  \/ state = hw.level
                      \/ hw.level = "passive" /\ state = "warning"
                           /\ (hw.errMsk \/ hist.disarmed)
    BY DEF PassiveCannotHide
  <2>1. hw.stateMsk /\ Known
    BY DEF CanInv, StateInv, Enabled
  <2>2. "warning" \notin hw.flags /\ "busoff" \notin hw.flags
        /\ (hw.errMsk => "error" \notin hw.flags)
    BY <2>1 DEF Line
  <2> QED
    BY <2>1, <2>2 DEF Known, NextState, Switches, NextErrMsk, NextDisarmed, Unarmed
<1> QED
  BY <1>1, CanInvariant, PTL
=============================================================================
