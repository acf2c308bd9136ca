------------------------------- MODULE CsiCapture -------------------------------
(***************************************************************************)
(* The camera capture driver (20.csi/mx6s_capture.c).  The controller      *)
(* writes frames to the addresses in FB1 and FB2 in turn.  At the end of   *)
(* each, the handler gives the buffer that was filled back to the user and *)
(* puts the next one of the capture list, or the discard buffer, in its    *)
(* place, while the controller already fills the other one.  The board has *)
(* one core: while the handler runs, only the controller goes on.          *)
(***************************************************************************)
EXTENDS Integers, Sequences, SequencesExt

CONSTANTS
  Buffers,    \* the buffers of the vb2 queue
  Discard,    \* the discard buffer, which both entries of the discard list stand for
  None,
  SkipFrames, \* frames that are skipped after a start (3)
  RxFifoRst,  \* soc->rx_fifo_rst: an overflow resets the FIFO (not on the i.MX6 SoloLite)
  Budgets     \* bounds: how many starts, late handlers and faults there may be

BudgetKinds == {"start", "late", "fault"}
\* An overflow of the FIFO, an error response, and an address that changed too late.
Faults == {"overflow", "response", "address"}

ASSUME CsiAssumption ==
  /\ Discard \notin Buffers /\ None \notin Buffers /\ Discard # None
  /\ SkipFrames \in Nat /\ RxFifoRst \in BOOLEAN
  /\ Budgets \subseteq [BudgetKinds -> Nat]

VARIABLES
  phase,     \* "off", "on", where stop_streaming is, or "failed": a start that failed
  queued,    \* buffers that vb2 keeps until streaming starts
  capture,   \* csi_dev->capture
  active,    \* csi_dev->active_bufs
  discards,  \* the length of csi_dev->discard
  done,      \* buffers that were given back and that the user has not taken yet
  fb,        \* CSI_CSIDMASA_FB1 and FB2
  nextfb, skipframe,
  hw,        \* the controller: DMA and interrupts enabled, what it writes, its status
  irq,       \* what the handler has read from the status, or None
  filled,    \* buffers that hold a whole frame
  overtaken, \* the controller has ended a frame while the handler was at work
  budget

lists == <<queued, capture, active, discards, done>>
vars == <<phase, lists, fb, nextfb, skipframe, hw, irq, filled, overtaken, budget>>

Entries == Buffers \cup {Discard}

Init ==
  /\ phase = "off" /\ budget \in Budgets
  /\ queued = <<>> /\ capture = <<>> /\ active = <<>> /\ discards = 0 /\ done = {}
  /\ fb = [n \in 0 .. 1 |-> None] /\ nextfb = 0 /\ skipframe = 0
  /\ hw = [dma |-> FALSE, int |-> FALSE, next |-> 0, target |-> None, ended |-> {}, faults |-> {}]
  /\ irq = None /\ filled = {} /\ overtaken = FALSE

Spend(kind) == budget[kind] > 0 /\ budget' = [budget EXCEPT ![kind] = @ - 1]

DriverHas == ToSet(capture) \cup (ToSet(active) \cap Buffers)
UserHas == Buffers \ (DriverHas \cup ToSet(queued) \cup done)

-----------------------------------------------------------------------------
(* The user and vb2                                                        *)

\* mx6s_videobuf_queue, when streaming; vb2 keeps the buffer otherwise.
QueueBuffer(b) ==
  /\ irq = None /\ phase \in {"off", "on"} /\ b \in UserHas
  /\ IF phase = "on" THEN capture' = Append(capture, b) /\ UNCHANGED queued
     ELSE queued' = Append(queued, b) /\ UNCHANGED capture
  /\ filled' = filled \ {b}
  /\ UNCHANGED <<phase, active, discards, done, fb, nextfb, skipframe, hw, irq, overtaken, budget>>

DequeueBuffer(b) ==
  /\ irq = None /\ b \in done /\ done' = done \ {b}
  /\ UNCHANGED <<phase, queued, capture, active, discards, fb, nextfb, skipframe, hw, irq,
                 filled, overtaken, budget>>

\* mx6s_start_streaming and mx6s_csi_enable.
StartStreaming ==
  /\ irq = None /\ phase = "off" /\ Len(queued) >= 2 /\ Spend("start")
  /\ phase' = "on" /\ queued' = <<>>
  /\ active' = <<queued[1], queued[2]>> /\ capture' = SubSeq(queued, 3, Len(queued))
  /\ discards' = 2
  /\ fb' = [n \in 0 .. 1 |-> queued[n + 1]] /\ nextfb' = 0 /\ skipframe' = SkipFrames
  /\ hw' = [dma |-> TRUE, int |-> TRUE, next |-> 0, target |-> None, ended |-> {}, faults |-> {}]
  /\ UNCHANGED <<done, irq, filled, overtaken>>

\* It fails for want of buffers or memory, or because no frame starts in time.  vb2 takes the
\* buffers back, but they stay in the driver's lists, and the discard buffer stays too: a
\* second start would add them again.  This is as far as a failed start is followed.
StartFails ==
  /\ irq = None /\ phase = "off" /\ queued # <<>> /\ Spend("start")
  /\ phase' = "failed"
  /\ \/ capture' = queued /\ UNCHANGED <<active, discards, fb, nextfb, skipframe>>
     \/ /\ Len(queued) >= 2 /\ discards' = 2
        /\ active' = <<queued[1], queued[2]>> /\ capture' = SubSeq(queued, 3, Len(queued))
        /\ fb' = [n \in 0 .. 1 |-> queued[n + 1]] /\ nextfb' = 0 /\ skipframe' = SkipFrames
  /\ UNCHANGED <<queued, done, hw, irq, filled, overtaken>>

\* mx6s_csi_disable: first the DMA, then the interrupts and the addresses.
StopDma ==
  /\ irq = None /\ phase = "on" /\ phase' = "stopping"
  /\ hw' = [hw EXCEPT !.dma = FALSE, !.target = None]
  /\ UNCHANGED <<lists, fb, nextfb, skipframe, irq, filled, overtaken, budget>>

StopInterrupts ==
  /\ irq = None /\ phase = "stopping" /\ phase' = "stopped"
  /\ hw' = [hw EXCEPT !.int = FALSE]
  /\ fb' = [n \in 0 .. 1 |-> None]
  /\ UNCHANGED <<lists, nextfb, skipframe, irq, filled, overtaken, budget>>

\* The rest of mx6s_stop_streaming; vb2 then gives the user all buffers back.
StopReturn ==
  /\ irq = None /\ phase = "stopped" /\ phase' = "off"
  /\ queued' = <<>> /\ capture' = <<>> /\ active' = <<>> /\ discards' = 0 /\ done' = {}
  /\ UNCHANGED <<fb, nextfb, skipframe, hw, irq, filled, overtaken, budget>>

-----------------------------------------------------------------------------
(* The controller                                                          *)

\* The address is taken at the start of the frame.
FrameStart ==
  /\ hw.dma /\ hw.target = None
  /\ hw' = [hw EXCEPT !.target = fb[hw.next]]
  /\ filled' = filled \ {fb[hw.next]}
  /\ UNCHANGED <<phase, lists, fb, nextfb, skipframe, irq, overtaken, budget>>

\* The handler is late when another frame ends before it has dealt with the last one.
FrameEnd ==
  /\ hw.target # None
  /\ hw' = [hw EXCEPT !.target = None, !.next = 1 - @, !.ended = @ \cup {hw.next}]
  /\ filled' = filled \cup ({hw.target} \cap Buffers)
  /\ IF hw.ended = {} /\ irq = None THEN UNCHANGED budget ELSE Spend("late")
  /\ overtaken' = (overtaken \/ irq # None)
  /\ UNCHANGED <<phase, lists, fb, nextfb, skipframe, irq>>

Fault(f) ==
  /\ hw.dma /\ f \notin hw.faults /\ Spend("fault")
  /\ hw' = [hw EXCEPT !.faults = @ \cup {f}]
  /\ UNCHANGED <<phase, lists, fb, nextfb, skipframe, irq, filled, overtaken>>

-----------------------------------------------------------------------------
(* The handler                                                             *)

\* mx6s_csi_irq_handler reads and clears the status.
IrqRead ==
  /\ hw.int /\ irq = None /\ (hw.ended # {} \/ hw.faults # {})
  /\ irq' = IF active = <<>> THEN None ELSE [ended |-> hw.ended, faults |-> hw.faults]
  /\ hw' = [hw EXCEPT !.ended = {}, !.faults = {}]
  /\ UNCHANGED <<phase, lists, fb, nextfb, skipframe, filled, overtaken, budget>>

\* csi_error_recovery, and the same by hand for an address that changed too late: the frame
\* is lost, and the DMA starts again with either buffer.
Resets == Faults \ (IF RxFifoRst THEN {} ELSE {"overflow"})
Recovered(seen) ==
  IF seen \cap Resets = {} THEN {hw} ELSE {[hw EXCEPT !.target = None, !.next = n] : n \in 0 .. 1}

\* Mutant: the discard buffer is used even when there are others.
FrameDoneDiscards(n) ==
  /\ done' = done \cup ({Head(active)} \cap Buffers)
  /\ nextfb' = 1 - n
  /\ active' = Append(Tail(active), Discard)
  /\ discards' = (IF Head(active) = Discard THEN discards + 1 ELSE discards) - 1
  /\ fb' = [fb EXCEPT ![n] = Discard] /\ UNCHANGED capture

\* mx6s_csi_frame_done: the head goes to the user or to the discard list, and register n
\* gets the next buffer of the capture list or one of the discard list.
FrameDone(n) ==
  LET free == IF Head(active) = Discard THEN discards + 1 ELSE discards
      next == IF capture # <<>> THEN Head(capture) ELSE Discard
  IN  /\ done' = done \cup ({Head(active)} \cap Buffers)
      /\ nextfb' = 1 - n
      /\ IF capture = <<>> /\ free = 0
         THEN active' = Tail(active) /\ discards' = free /\ UNCHANGED <<capture, fb>>
         ELSE /\ active' = Append(Tail(active), next)
              /\ capture' = IF capture # <<>> THEN Tail(capture) ELSE capture
              /\ discards' = IF capture # <<>> THEN free ELSE free - 1
              /\ fb' = [fb EXCEPT ![n] = next]

\* Mutant: when both frames have ended, the first of them is given back.
FramesSeenBoth(ended, skip) ==
  \/ /\ ended # {} /\ nextfb \in ended /\ skip = 0
     /\ FrameDone(nextfb) /\ skipframe' = skip
  \/ /\ ~(ended # {} /\ nextfb \in ended /\ skip = 0)
     /\ skipframe' = IF ended = {nextfb} THEN skip - 1 ELSE skip
     /\ UNCHANGED <<capture, active, discards, done, fb, nextfb>>

\* Mutant: it does not matter which of the two frames has ended.
FramesSeenAny(ended, skip) ==
  \/ \E n \in 0 .. 1 : ended = {n} /\ skip = 0 /\ FrameDone(n) /\ skipframe' = skip
  \/ /\ ~(\E n \in 0 .. 1 : ended = {n} /\ skip = 0)
     /\ skipframe' = IF ended = {nextfb} THEN skip - 1 ELSE skip
     /\ UNCHANGED <<capture, active, discards, done, fb, nextfb>>

\* The end of the handler: with both bits set nobody knows which buffer is being written, so
\* nothing is done; a frame that is not the expected one is skipped.
FramesSeen(ended, skip) ==
  \/ ended = {nextfb} /\ skip = 0 /\ FrameDone(nextfb) /\ skipframe' = skip
  \/ /\ ended # {nextfb} \/ skip > 0
     /\ skipframe' = IF ended = {nextfb} THEN skip - 1 ELSE skip
     /\ UNCHANGED <<capture, active, discards, done, fb, nextfb>>

IrqAct ==
  /\ irq # None /\ irq' = None
  /\ hw' \in Recovered(irq.faults)
  /\ FramesSeen(irq.ended, IF "address" \in irq.faults THEN skipframe + 1 ELSE skipframe)
  /\ UNCHANGED <<phase, queued, filled, overtaken, budget>>

-----------------------------------------------------------------------------
User == \/ \E b \in Buffers : QueueBuffer(b) \/ DequeueBuffer(b)
        \/ StartStreaming \/ StartFails \/ StopDma \/ StopInterrupts \/ StopReturn
Controller == FrameStart \/ FrameEnd \/ \E f \in Faults : Fault(f)

Next == User \/ Controller \/ IrqRead \/ IrqAct

\* The sensor sends frames, and interrupts are taken and served.
Fairness == WF_vars(FrameStart) /\ WF_vars(FrameEnd) /\ WF_vars(IrqRead) /\ WF_vars(IrqAct)

Spec == Init /\ [][Next]_vars /\ Fairness

-----------------------------------------------------------------------------
(* Properties                                                              *)

\* The type invariant of the driver's lists, the registers and the controller.
TypeOK ==
  /\ phase \in {"off", "on", "stopping", "stopped", "failed"}
  /\ queued \in Seq(Buffers) /\ capture \in Seq(Buffers) /\ active \in Seq(Entries)
  /\ discards \in Nat /\ done \subseteq Buffers /\ filled \subseteq Buffers
  /\ fb \in [0 .. 1 -> Entries \cup {None}] /\ nextfb \in 0 .. 1 /\ skipframe \in Nat
  /\ hw \in [dma : BOOLEAN, int : BOOLEAN, next : 0 .. 1, target : Entries \cup {None},
             ended : SUBSET (0 .. 1), faults : SUBSET Faults]
  /\ irq \in {None} \cup [ended : SUBSET (0 .. 1), faults : SUBSET Faults]
  /\ overtaken \in BOOLEAN /\ budget \in [BudgetKinds -> Nat]

Streaming == phase \in {"on", "stopping"}

\* While streaming, the active list is what the two registers hold, in the order in which the
\* frames will end: the message "phys != phys_fb" of mx6s_csi_frame_done is never due.
HeadIsNext ==
  Streaming => Len(active) = 2 /\ active[1] = fb[nextfb] /\ active[2] = fb[1 - nextfb]

\* Each of the two entries for the discard buffer is in one of the lists, so that there is
\* one when the capture list is empty: "trying to access empty discard list" never comes.
DiscardsKept ==
  Streaming => discards = (IF fb[0] = Discard THEN 0 ELSE 1) + (IF fb[1] = Discard THEN 0 ELSE 1)

\* The controller never writes to a buffer that the user or vb2 has, unless a frame ends
\* while the handler is at work on the one before.
DmaInDriverBuffers ==
  hw.target \in Buffers /\ ~overtaken => \E i \in DOMAIN active : active[i] = hw.target

\* A buffer that is given back holds a whole frame which nothing has overwritten.
DoneIsFilled == ~overtaken => done \subseteq filled

\* Every buffer that is queued comes back as long as streaming goes on, whatever frames are
\* skipped, lost or late.
BuffersComeBack ==
  \A b \in Buffers : (phase = "on" /\ b \in DriverHas) ~> (phase # "on" \/ b \notin DriverHas)

=============================================================================
