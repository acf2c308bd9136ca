---------------------------- MODULE CsiCapture_proofs ----------------------------
(***************************************************************************)
(* Proofs about CsiCapture, for any buffers and any number of frames to    *)
(* skip: the lists of the driver and the registers of the controller       *)
(* agree, the DMA stays in buffers of the driver, and a buffer that is     *)
(* given back holds a whole frame.                                         *)
(***************************************************************************)
EXTENDS CsiCapture, SequenceTheorems, TLAPS

\* With one status bit set and nothing overtaken, the controller has gone on to the other
\* buffer: this is what makes it safe to change the address of the first.
OtherIsWritten ==
  ~overtaken =>
    /\ \A n \in 0 .. 1 : hw.ended = {n} => hw.next = 1 - n
    /\ irq # None => hw.ended = {} /\ \A n \in 0 .. 1 : irq.ended = {n} => hw.next = 1 - n

\* What is written is in a register, and only while streaming.
TargetInRegister ==
  /\ hw.dma => phase = "on"
  /\ hw.target # None => hw.dma /\ (~overtaken => hw.target = fb[hw.next])
  /\ irq # None => Streaming
  /\ hw.int => phase \in {"on", "stopping"}

IInv == TypeOK /\ HeadIsNext /\ DiscardsKept /\ OtherIsWritten /\ TargetInRegister

-----------------------------------------------------------------------------
LEMMA InitIInv == Init => IInv
<1> SUFFICES ASSUME Init PROVE IInv
  OBVIOUS
<1>1. budget \in [BudgetKinds -> Nat]
  BY CsiAssumption DEF Init
<1>2. fb \in [0 .. 1 -> Entries \cup {None}] /\ nextfb \in 0 .. 1 /\ discards \in Nat
  BY DEF Init
<1>3. hw \in [dma : BOOLEAN, int : BOOLEAN, next : 0 .. 1, target : Entries \cup {None},
              ended : SUBSET (0 .. 1), faults : SUBSET Faults]
  BY DEF Init
<1>4. queued \in Seq(Buffers) /\ capture \in Seq(Buffers) /\ active \in Seq(Entries)
  BY DEF Init
<1>5. TypeOK
  BY <1>1, <1>2, <1>3, <1>4 DEF Init, TypeOK
<1>6. HeadIsNext /\ DiscardsKept /\ TargetInRegister /\ ~Streaming
  BY DEF Init, HeadIsNext, DiscardsKept, TargetInRegister, Streaming
<1>7. OtherIsWritten
  BY DEF Init, OtherIsWritten
<1> QED
  BY <1>5, <1>6, <1>7 DEF IInv

\* A list of two whose head is taken and which gets a new tail.
LEMMA MoveUp ==
  ASSUME NEW S, NEW s \in Seq(S), Len(s) = 2, NEW e \in S
  PROVE  LET t == Append(Tail(s), e)
         IN  t \in Seq(S) /\ Len(t) = 2 /\ t[1] = s[2] /\ t[2] = e
<1>1. s # <<>>
  OBVIOUS
<1>2. Tail(s) \in Seq(S) /\ Len(Tail(s)) = 1 /\ Tail(s)[1] = s[2]
  BY <1>1, HeadTailProperties
<1>3. PICK r \in Seq(S) : r = Tail(s)
  BY <1>2
<1>4. /\ Append(r, e) \in Seq(S) /\ Len(Append(r, e)) = Len(r) + 1
      /\ \A i \in 1 .. Len(r) : Append(r, e)[i] = r[i]
      /\ Append(r, e)[Len(r) + 1] = e
  BY AppendProperties
<1>5. Len(r) = 1 /\ r[1] = s[2]
  BY <1>2, <1>3
<1> DEFINE t == Append(r, e)
<1>7. t \in Seq(S) /\ Len(t) = 2 /\ t[1] = s[2] /\ t[2] = e
  <2>1. Len(r) + 1 = 2 /\ 1 \in 1 .. Len(r)
    BY <1>5
  <2> QED
    BY <1>4, <1>5, <2>1, Zenon
<1> QED
  BY <1>3, <1>7, Zenon

\* frame_done keeps the active list in step with the registers, and the count of discard
\* entries.
LEMMA FrameDoneKeepsLists ==
  ASSUME TypeOK, HeadIsNext, DiscardsKept, Streaming, FrameDone(nextfb), phase' = phase
  PROVE  /\ HeadIsNext' /\ DiscardsKept'
         /\ capture' \in Seq(Buffers) /\ active' \in Seq(Entries) /\ discards' \in Nat
         /\ done' \subseteq Buffers /\ fb' \in [0 .. 1 -> Entries \cup {None}] /\ nextfb' \in 0 .. 1
         /\ fb'[1 - nextfb] = fb[1 - nextfb]
<1> DEFINE free == IF Head(active) = Discard THEN discards + 1 ELSE discards
           next == IF capture # <<>> THEN Head(capture) ELSE Discard
<1>1. /\ active \in Seq(Entries) /\ Len(active) = 2
      /\ active[1] = fb[nextfb] /\ active[2] = fb[1 - nextfb]
      /\ nextfb \in 0 .. 1 /\ fb \in [0 .. 1 -> Entries \cup {None}]
      /\ capture \in Seq(Buffers) /\ discards \in Nat /\ done \subseteq Buffers
  BY DEF TypeOK, HeadIsNext
<1>2. Head(active) = active[1]
  BY <1>1
<1>3. next \in Entries /\ (capture # <<>> => next \in Buffers /\ next # Discard)
  BY <1>1, CsiAssumption DEF Entries
<1>4. discards = (IF fb[0] = Discard THEN 0 ELSE 1) + (IF fb[1] = Discard THEN 0 ELSE 1)
  BY DEF DiscardsKept
<1>5. free # 0 /\ free \in Nat
  BY <1>1, <1>2, <1>4
<1>6. /\ active' = Append(Tail(active), next)
      /\ capture' = IF capture # <<>> THEN Tail(capture) ELSE capture
      /\ discards' = IF capture # <<>> THEN free ELSE free - 1
      /\ fb' = [fb EXCEPT ![nextfb] = next]
      /\ nextfb' = 1 - nextfb /\ done' = done \cup ({Head(active)} \cap Buffers)
  BY <1>5 DEF FrameDone
<1>7. active' \in Seq(Entries) /\ Len(active') = 2 /\ active'[1] = active[2] /\ active'[2] = next
  BY <1>1, <1>3, <1>6, MoveUp
<1>8. fb' \in [0 .. 1 -> Entries \cup {None}] /\ fb'[nextfb] = next /\ fb'[1 - nextfb] = fb[1 - nextfb]
  BY <1>1, <1>3, <1>6
<1>9. HeadIsNext'
  <2>1. 1 - nextfb' = nextfb
    BY <1>1, <1>6
  <2>2. active'[1] = fb'[nextfb'] /\ active'[2] = fb'[1 - nextfb']
    BY <1>1, <1>6, <1>7, <1>8, <2>1
  <2> QED
    BY <1>7, <2>2 DEF HeadIsNext
<1>10. DiscardsKept'
  <2>1. CASE capture # <<>>
    BY <2>1, <1>1, <1>2, <1>3, <1>4, <1>6, <1>8 DEF DiscardsKept
  <2>2. CASE capture = <<>>
    BY <2>2, <1>1, <1>2, <1>3, <1>4, <1>6, <1>8 DEF DiscardsKept
  <2> QED
    BY <2>1, <2>2
<1>11. capture' \in Seq(Buffers) /\ discards' \in Nat
  BY <1>1, <1>5, <1>6
<1> QED
  BY <1>1, <1>6, <1>7, <1>8, <1>9, <1>10, <1>11

LEMMA NextIInv == IInv /\ [Next]_vars => IInv'
<1> SUFFICES ASSUME IInv, [Next]_vars PROVE IInv'
  OBVIOUS
<1> USE CsiAssumption DEF IInv
<1>1. ASSUME NEW b \in Buffers, QueueBuffer(b) PROVE IInv'
  <2> USE <1>1 DEF QueueBuffer
  <2>1. capture' \in Seq(Buffers) /\ queued' \in Seq(Buffers) /\ filled' \subseteq Buffers
    <3>1. capture \in Seq(Buffers) /\ queued \in Seq(Buffers) /\ filled \subseteq Buffers
      BY DEF TypeOK
    <3>2. Append(capture, b) \in Seq(Buffers) /\ Append(queued, b) \in Seq(Buffers)
      BY <3>1, AppendProperties
    <3> QED
      BY <3>1, <3>2
  <2>2. TypeOK'
    BY <2>1 DEF TypeOK
  <2> QED
    BY <2>2 DEF HeadIsNext, DiscardsKept, OtherIsWritten, TargetInRegister, Streaming
<1>2. ASSUME NEW b \in Buffers, DequeueBuffer(b) PROVE IInv'
  BY <1>2 DEF DequeueBuffer, TypeOK, HeadIsNext, DiscardsKept, OtherIsWritten, TargetInRegister, Streaming
<1>3. CASE StartStreaming
  <2> USE <1>3 DEF StartStreaming
  <2>1. queued \in Seq(Buffers) /\ queued[1] \in Buffers /\ queued[2] \in Buffers
    BY DEF TypeOK
  <2>2. SubSeq(queued, 3, Len(queued)) \in Seq(Buffers)
    BY <2>1, SubSeqProperties
  <2>3. active' \in Seq(Entries) /\ Len(active') = 2
        /\ active'[1] = queued[1] /\ active'[2] = queued[2]
    BY <2>1 DEF Entries
  <2>4. budget' \in [BudgetKinds -> Nat]
    BY DEF TypeOK, Spend, BudgetKinds
  <2>5. fb' \in [0 .. 1 -> Entries \cup {None}] /\ fb'[0] = queued[1] /\ fb'[1] = queued[2]
    BY <2>1 DEF Entries
  <2>6. TypeOK'
    BY <2>1, <2>2, <2>3, <2>4, <2>5 DEF TypeOK
  <2>7. HeadIsNext' /\ DiscardsKept'
    BY <2>1, <2>3, <2>5 DEF HeadIsNext, DiscardsKept
  <2>8. OtherIsWritten' /\ TargetInRegister'
    BY DEF OtherIsWritten, TargetInRegister, Streaming
  <2> QED
    BY <2>6, <2>7, <2>8
<1>4. CASE StartFails
  <2> USE <1>4 DEF StartFails
  <2>1. queued \in Seq(Buffers)
    BY DEF TypeOK
  <2>2. SubSeq(queued, 3, Len(queued)) \in Seq(Buffers)
    BY <2>1, SubSeqProperties
  <2>3. budget' \in [BudgetKinds -> Nat]
    BY DEF TypeOK, Spend, BudgetKinds
  <2>4. /\ capture' \in Seq(Buffers) /\ active' \in Seq(Entries) /\ discards' \in Nat
        /\ fb' \in [0 .. 1 -> Entries \cup {None}] /\ nextfb' \in 0 .. 1 /\ skipframe' \in Nat
    <3>1. CASE capture' = queued /\ UNCHANGED <<active, discards, fb, nextfb, skipframe>>
      BY <2>1, <3>1 DEF TypeOK
    <3>2. CASE /\ Len(queued) >= 2 /\ discards' = 2
               /\ active' = <<queued[1], queued[2]>> /\ capture' = SubSeq(queued, 3, Len(queued))
               /\ fb' = [n \in 0 .. 1 |-> queued[n + 1]] /\ nextfb' = 0 /\ skipframe' = SkipFrames
      <4>1. queued[1] \in Buffers /\ queued[2] \in Buffers
        BY <2>1, <3>2
      <4>2. fb' \in [0 .. 1 -> Entries \cup {None}]
        BY <3>2, <4>1 DEF Entries
      <4>3. active' \in Seq(Entries)
        BY <3>2, <4>1 DEF Entries
      <4> QED
        BY <2>2, <3>2, <4>2, <4>3
    <3> QED
      BY <3>1, <3>2
  <2>5. TypeOK'
    BY <2>3, <2>4 DEF TypeOK
  <2>6. hw.target = None /\ ~hw.dma /\ ~hw.int
    BY DEF TargetInRegister
  <2> QED
    BY <2>5, <2>6 DEF HeadIsNext, DiscardsKept, OtherIsWritten, TargetInRegister, Streaming
<1>5. CASE StopDma
  BY <1>5 DEF StopDma, lists, TypeOK, HeadIsNext, DiscardsKept, OtherIsWritten, TargetInRegister, Streaming
<1>6. CASE StopInterrupts
  BY <1>6 DEF StopInterrupts, lists, TypeOK, HeadIsNext, DiscardsKept, OtherIsWritten, TargetInRegister, Streaming
<1>7. CASE StopReturn
  BY <1>7 DEF StopReturn, TypeOK, HeadIsNext, DiscardsKept, OtherIsWritten, TargetInRegister, Streaming
<1>8. CASE FrameStart
  BY <1>8 DEF FrameStart, lists, TypeOK, HeadIsNext, DiscardsKept, OtherIsWritten, TargetInRegister, Streaming
<1>9. CASE FrameEnd
  <2> USE <1>9 DEF FrameEnd
  <2>1. budget' \in [BudgetKinds -> Nat]
    <3>1. budget' = budget \/ (budget["late"] > 0 /\ budget' = [budget EXCEPT !["late"] = @ - 1])
      BY DEF Spend
    <3>2. budget \in [BudgetKinds -> Nat] /\ "late" \in BudgetKinds
      BY DEF TypeOK, BudgetKinds
    <3>3. budget["late"] > 0 => budget["late"] - 1 \in Nat
      BY <3>2
    <3> QED
      BY <3>1, <3>2, <3>3
  <2>2. /\ hw.next \in 0 .. 1 /\ hw.ended \subseteq 0 .. 1
        /\ hw' = [hw EXCEPT !.target = None, !.next = 1 - @, !.ended = @ \cup {hw.next}]
    BY DEF TypeOK
  <2>3. hw'.ended = hw.ended \cup {hw.next} /\ hw'.next = 1 - hw.next /\ hw'.target = None
        /\ hw'.dma = hw.dma /\ hw'.int = hw.int
    BY <2>2 DEF TypeOK
  <2>4. TypeOK'
    <3>1. hw' \in [dma : BOOLEAN, int : BOOLEAN, next : 0 .. 1, target : Entries \cup {None},
                   ended : SUBSET (0 .. 1), faults : SUBSET Faults]
      <4>1. 1 - hw.next \in 0 .. 1 /\ hw.ended \cup {hw.next} \in SUBSET (0 .. 1)
        BY <2>2
      <4> QED
        BY <2>2, <4>1 DEF TypeOK
    <3>2. filled' \subseteq Buffers /\ overtaken' \in BOOLEAN
      BY DEF TypeOK
    <3> QED
      BY <2>1, <3>1, <3>2 DEF TypeOK, lists
  <2>5. HeadIsNext' /\ DiscardsKept' /\ TargetInRegister'
    BY <2>3 DEF lists, HeadIsNext, DiscardsKept, TargetInRegister, Streaming
  <2>6. OtherIsWritten'
    BY <2>2, <2>3 DEF lists, OtherIsWritten
  <2> QED
    BY <2>4, <2>5, <2>6
<1>10. ASSUME NEW f \in Faults, Fault(f) PROVE IInv'
  <2>1. budget' \in [BudgetKinds -> Nat]
    BY <1>10 DEF Fault, TypeOK, Spend, BudgetKinds
  <2> QED
    BY <1>10, <2>1 DEF Fault, lists, TypeOK, HeadIsNext, DiscardsKept, OtherIsWritten, TargetInRegister, Streaming
<1>11. CASE IrqRead
  BY <1>11 DEF IrqRead, lists, TypeOK, HeadIsNext, DiscardsKept, OtherIsWritten, TargetInRegister, Streaming
<1>12. CASE IrqAct
  <2> USE <1>12 DEF IrqAct
  <2>skip. (IF "address" \in irq.faults THEN skipframe + 1 ELSE skipframe) \in Nat
    BY DEF TypeOK
  <2>hw. /\ hw' \in [dma : BOOLEAN, int : BOOLEAN, next : 0 .. 1, target : Entries \cup {None},
                     ended : SUBSET (0 .. 1), faults : SUBSET Faults]
         /\ hw'.dma = hw.dma /\ hw'.int = hw.int /\ hw'.ended = hw.ended
         /\ hw' = hw \/ hw'.target = None
    <3>1. hw \in [dma : BOOLEAN, int : BOOLEAN, next : 0 .. 1, target : Entries \cup {None},
                  ended : SUBSET (0 .. 1), faults : SUBSET Faults]
      BY DEF TypeOK
    <3>2. hw' = hw \/ \E n \in 0 .. 1 : hw' = [hw EXCEPT !.target = None, !.next = n]
      BY DEF Recovered
    <3> QED
      BY <3>1, <3>2
  <2>str. Streaming /\ phase' = phase
    BY DEF TargetInRegister
  <2>1. CASE irq.ended = {nextfb} /\ FrameDone(nextfb)
             /\ skipframe' = (IF "address" \in irq.faults THEN skipframe + 1 ELSE skipframe)
    <3>1. /\ HeadIsNext' /\ DiscardsKept'
          /\ capture' \in Seq(Buffers) /\ active' \in Seq(Entries) /\ discards' \in Nat
          /\ done' \subseteq Buffers /\ fb' \in [0 .. 1 -> Entries \cup {None}] /\ nextfb' \in 0 .. 1
          /\ fb'[1 - nextfb] = fb[1 - nextfb]
      BY <2>1, <2>str, FrameDoneKeepsLists
    <3>2. TypeOK'
      BY <2>1, <3>1, <2>hw, <2>skip DEF TypeOK
    <3>3. OtherIsWritten'
      BY <2>hw DEF OtherIsWritten
    <3>4. ~overtaken => hw.next = 1 - nextfb
      BY <2>1 DEF OtherIsWritten, TypeOK
    <3>5. TargetInRegister'
      BY <2>hw, <2>str, <3>1, <3>4 DEF TargetInRegister
    <3> QED
      BY <3>1, <3>2, <3>3, <3>5
  <2>2. CASE UNCHANGED <<capture, active, discards, done, fb, nextfb>> /\ skipframe' \in Nat
    BY <2>2, <2>hw, <2>str
       DEF TypeOK, HeadIsNext, DiscardsKept, OtherIsWritten, TargetInRegister, Streaming
  <2>3. FramesSeen(irq.ended, IF "address" \in irq.faults THEN skipframe + 1 ELSE skipframe)
    OBVIOUS
  <2>4. irq.ended # {nextfb} \/ (IF "address" \in irq.faults THEN skipframe + 1 ELSE skipframe) > 0
        => (IF irq.ended = {nextfb}
            THEN (IF "address" \in irq.faults THEN skipframe + 1 ELSE skipframe) - 1
            ELSE (IF "address" \in irq.faults THEN skipframe + 1 ELSE skipframe)) \in Nat
    BY <2>skip
  <2> QED
    BY <2>1, <2>2, <2>3, <2>4 DEF FramesSeen
<1>13. CASE UNCHANGED vars
  BY <1>13 DEF vars, lists, TypeOK, HeadIsNext, DiscardsKept, OtherIsWritten, TargetInRegister, Streaming
<1> QED
  BY <1>1, <1>2, <1>3, <1>4, <1>5, <1>6, <1>7, <1>8, <1>9, <1>10, <1>11, <1>12, <1>13
     DEF Next, User, Controller

\* The invariant holds in every run.
LEMMA Invariant == Spec => []IInv
  BY InitIInv, NextIInv, PTL DEF Spec

-----------------------------------------------------------------------------
\* The lists, the registers and the record of the controller keep their types.
THEOREM TypesHold == Spec => []TypeOK
<1>1. IInv => TypeOK
  BY DEF IInv
<1> QED
  BY <1>1, Invariant, PTL

\* The active list of mx6s_csi_frame_done is what the registers hold, in the order in which
\* frames end.
THEOREM ListMatchesRegisters == Spec => []HeadIsNext
<1>1. IInv => HeadIsNext
  BY DEF IInv
<1> QED
  BY <1>1, Invariant, PTL

\* The discard list is never empty when mx6s_csi_frame_done needs it.
THEOREM DiscardListSuffices == Spec => []DiscardsKept
<1>1. IInv => DiscardsKept
  BY DEF IInv
<1> QED
  BY <1>1, Invariant, PTL

\* The DMA writes to buffers of the driver only, as long as no frame ends while the handler
\* is at work.
THEOREM DmaStaysInside == Spec => []DmaInDriverBuffers
<1>1. IInv => DmaInDriverBuffers
  <2> SUFFICES ASSUME IInv, hw.target \in Buffers, ~overtaken
               PROVE  \E i \in DOMAIN active : active[i] = hw.target
    BY DEF DmaInDriverBuffers
  <2>1. hw.target = fb[hw.next] /\ Streaming
    BY CsiAssumption DEF IInv, TargetInRegister, Streaming
  <2>2. active \in Seq(Entries) /\ Len(active) = 2 /\ active[1] = fb[nextfb] /\ active[2] = fb[1 - nextfb]
    BY <2>1 DEF IInv, HeadIsNext, TypeOK
  <2>3. hw.next \in 0 .. 1 /\ nextfb \in 0 .. 1
    BY DEF IInv, TypeOK
  <2>4. 1 \in DOMAIN active /\ 2 \in DOMAIN active
    BY <2>2
  <2>5. hw.next = nextfb \/ hw.next = 1 - nextfb
    BY <2>3
  <2> QED
    BY <2>1, <2>2, <2>4, <2>5
<1> QED
  BY <1>1, Invariant, PTL

-----------------------------------------------------------------------------
(* What is given back is filled                                            *)

\* No buffer is in two places: each is with vb2, in the capture list, in one register, or
\* done, and each place holds it once.  A failed start leaves the buffers in the lists of the
\* driver and with vb2, and is excepted.
EachInOnePlace ==
  /\ phase # "failed" =>
       /\ IsInjective(queued) /\ IsInjective(capture)
       /\ ToSet(queued) \cap done = {} /\ ToSet(capture) \cap done = {}
       /\ IF phase = "off" THEN capture = <<>> /\ active = <<>> ELSE queued = <<>>
  /\ Streaming => /\ \A n \in 0 .. 1 : fb[n] \notin ToSet(capture) \cup done
                  /\ fb[0] = fb[1] => fb[0] = Discard

\* When one status bit says that a frame has ended, the buffer in that register is filled, and
\* so is every buffer that is done.
EndedIsFilled ==
  ~overtaken =>
    /\ done \subseteq filled
    /\ Streaming => \A n \in 0 .. 1 :
         hw.ended = {n} \/ (irq # None /\ irq.ended = {n}) => fb[n] \in filled \cup {Discard}

\* A list without repetitions that gets an element it does not have.
LEMMA AppendDistinct ==
  ASSUME NEW S, NEW s \in Seq(S), NEW e \in S, IsInjective(s), e \notin ToSet(s)
  PROVE  IsInjective(Append(s, e)) /\ ToSet(Append(s, e)) = ToSet(s) \cup {e}
<1> DEFINE t == Append(s, e)
<1>1. /\ DOMAIN s = 1 .. Len(s) /\ DOMAIN t = 1 .. Len(s) + 1 /\ Len(s) \in Nat
      /\ \A i \in 1 .. Len(s) : t[i] = s[i]
      /\ t[Len(s) + 1] = e
  BY AppendProperties
<1>2. \A i \in DOMAIN s : s[i] # e
  BY DEF ToSet
<1>3. IsInjective(t)
  BY <1>1, <1>2 DEF IsInjective
<1>4. ToSet(t) = ToSet(s) \cup {e}
  BY <1>1 DEF ToSet
<1> QED
  BY <1>3, <1>4

\* The head and the tail of a list without repetitions.
LEMMA TailDistinct ==
  ASSUME NEW S, NEW s \in Seq(S), s # <<>>, IsInjective(s)
  PROVE  /\ IsInjective(Tail(s)) /\ ToSet(Tail(s)) \subseteq ToSet(s)
         /\ Head(s) \in ToSet(s) /\ Head(s) \notin ToSet(Tail(s))
<1> DEFINE t == Tail(s)
<1>1. /\ DOMAIN s = 1 .. Len(s) /\ DOMAIN t = 1 .. Len(s) - 1 /\ Len(s) \in Nat \ {0}
      /\ \A i \in 1 .. Len(s) - 1 : t[i] = s[i + 1]
      /\ Head(s) = s[1]
  BY HeadTailProperties
<1>2. IsInjective(t)
  BY <1>1 DEF IsInjective
<1>3. ToSet(t) \subseteq ToSet(s) /\ Head(s) \in ToSet(s)
  BY <1>1 DEF ToSet
<1>4. Head(s) \notin ToSet(t)
  BY <1>1 DEF ToSet, IsInjective
<1> QED
  BY <1>2, <1>3, <1>4

\* The first two and the rest of a list without repetitions.
LEMMA RestDistinct ==
  ASSUME NEW S, NEW s \in Seq(S), Len(s) >= 2, IsInjective(s)
  PROVE  LET t == SubSeq(s, 3, Len(s))
         IN  /\ IsInjective(t) /\ ToSet(t) \subseteq ToSet(s)
             /\ {s[1], s[2]} \subseteq ToSet(s) \ ToSet(t) /\ s[1] # s[2]
<1> DEFINE t == SubSeq(s, 3, Len(s))
<1>1. /\ DOMAIN s = 1 .. Len(s) /\ Len(s) \in Nat /\ DOMAIN t = 1 .. Len(s) - 2
      /\ \A i \in 1 .. Len(s) - 2 : t[i] = s[i + 2]
  BY SubSeqProperties
<1>2. IsInjective(t)
  BY <1>1 DEF IsInjective
<1>3. ToSet(t) \subseteq ToSet(s) /\ {s[1], s[2]} \subseteq ToSet(s)
  BY <1>1 DEF ToSet
<1>4. s[1] \notin ToSet(t) /\ s[2] \notin ToSet(t) /\ s[1] # s[2]
  BY <1>1 DEF ToSet, IsInjective
<1> QED
  BY <1>2, <1>3, <1>4

LEMMA InitPlaces == Init => EachInOnePlace /\ EndedIsFilled
BY DEF Init, EachInOnePlace, EndedIsFilled, Streaming, IsInjective, ToSet

\* frame_done moves a buffer from the capture list to a register and from there to the user.
LEMMA FrameDoneKeepsPlaces ==
  ASSUME IInv, EachInOnePlace, Streaming, FrameDone(nextfb), phase' = phase, queued' = queued
  PROVE  /\ EachInOnePlace'
         /\ fb'[1 - nextfb] = fb[1 - nextfb]
         /\ done' = done \cup ({fb[nextfb]} \cap Buffers)
<1> DEFINE free == IF Head(active) = Discard THEN discards + 1 ELSE discards
           next == IF capture # <<>> THEN Head(capture) ELSE Discard
<1>1. /\ active \in Seq(Entries) /\ Len(active) = 2
      /\ active[1] = fb[nextfb] /\ active[2] = fb[1 - nextfb]
      /\ nextfb \in 0 .. 1 /\ fb \in [0 .. 1 -> Entries \cup {None}]
      /\ capture \in Seq(Buffers) /\ discards \in Nat /\ done \subseteq Buffers
  BY DEF IInv, TypeOK, HeadIsNext
<1>2. Head(active) = fb[nextfb]
  BY <1>1
<1>3. discards = (IF fb[0] = Discard THEN 0 ELSE 1) + (IF fb[1] = Discard THEN 0 ELSE 1)
  BY DEF IInv, DiscardsKept
<1>4. ~(capture = <<>> /\ free = 0)
  BY <1>1, <1>2, <1>3
<1>5. /\ capture' = IF capture # <<>> THEN Tail(capture) ELSE capture
      /\ fb' = [fb EXCEPT ![nextfb] = next]
      /\ done' = done \cup ({fb[nextfb]} \cap Buffers)
  BY <1>2, <1>4 DEF FrameDone
<1>6. fb'[nextfb] = next /\ fb'[1 - nextfb] = fb[1 - nextfb]
  BY <1>1, <1>5
<1>7. /\ IsInjective(capture) /\ ToSet(capture) \cap done = {} /\ queued = <<>>
      /\ \A n \in 0 .. 1 : fb[n] \notin ToSet(capture) \cup done
      /\ fb[0] = fb[1] => fb[0] = Discard
  BY DEF EachInOnePlace, Streaming
<1>8. /\ IsInjective(capture') /\ ToSet(capture') \subseteq ToSet(capture)
      /\ next \notin ToSet(capture') /\ (next # Discard => next \in ToSet(capture))
  <2>1. ToSet(capture) \subseteq Buffers
    BY <1>1 DEF ToSet
  <2>2. CASE capture # <<>>
    BY <2>1, <2>2, <1>1, <1>5, <1>7, TailDistinct
  <2>3. CASE capture = <<>>
    BY <2>1, <2>3, <1>5, <1>7, CsiAssumption
  <2> QED
    BY <2>2, <2>3
<1>9. \A n \in 0 .. 1 : fb'[n] \notin ToSet(capture') \cup done'
  <2>1. next \notin done'
    BY <1>1, <1>5, <1>7, <1>8, CsiAssumption
  <2>2. fb[1 - nextfb] \notin ToSet(capture') \cup done'
    <3>1. 1 - nextfb \in 0 .. 1 /\ (nextfb = 0 \/ nextfb = 1)
      BY <1>1
    <3>2. fb[nextfb] \in Buffers => fb[nextfb] # fb[1 - nextfb]
      BY <3>1, <1>7, CsiAssumption
    <3> QED
      BY <3>1, <3>2, <1>5, <1>7, <1>8
  <2>3. \A n \in 0 .. 1 : n = nextfb \/ n = 1 - nextfb
    BY <1>1
  <2> QED
    BY <2>1, <2>2, <2>3, <1>6, <1>8
<1>10. fb'[0] = fb'[1] => fb'[0] = Discard
  <2>1. next # Discard => next # fb[1 - nextfb]
    BY <1>1, <1>7, <1>8
  <2> QED
    BY <2>1, <1>1, <1>6
<1>11. ToSet(capture') \cap done' = {}
  BY <1>1, <1>5, <1>7, <1>8
<1>12. ToSet(queued') \cap done' = {} /\ IsInjective(queued') /\ queued' = <<>>
  BY <1>7 DEF ToSet, IsInjective
<1> QED
  BY <1>5, <1>6, <1>8, <1>9, <1>10, <1>11, <1>12 DEF EachInOnePlace, Streaming

\* Every step keeps each buffer in one place.
LEMMA NextPlaces == IInv /\ EachInOnePlace /\ [Next]_vars => EachInOnePlace'
<1> SUFFICES ASSUME IInv, EachInOnePlace, [Next]_vars PROVE EachInOnePlace'
  OBVIOUS
<1>types. queued \in Seq(Buffers) /\ capture \in Seq(Buffers) /\ active \in Seq(Entries)
  BY DEF IInv, TypeOK
<1>1. ASSUME NEW b \in Buffers, QueueBuffer(b) PROVE EachInOnePlace'
  <2> USE <1>1 DEF QueueBuffer
  <2>1. b \notin ToSet(queued) /\ b \notin ToSet(capture) /\ b \notin done
        /\ (b \notin ToSet(active))
    BY DEF UserHas, DriverHas
  <2>2. CASE phase = "on"
    <3>1. IsInjective(capture') /\ ToSet(capture') = ToSet(capture) \cup {b} /\ queued' = queued
      <4>1. capture' = Append(capture, b) /\ queued' = queued
        BY <2>2
      <4>2. IsInjective(capture) /\ b \notin ToSet(capture) /\ capture \in Seq(Buffers)
        BY <2>1, <2>2, <1>types DEF EachInOnePlace
      <4>3. /\ IsInjective(Append(capture, b))
            /\ ToSet(Append(capture, b)) = ToSet(capture) \cup {b}
        BY <4>2, AppendDistinct
      <4> QED
        BY <4>1, <4>3
    <3>2. fb[0] \in ToSet(active) /\ fb[1] \in ToSet(active)
      <4>1. Len(active) = 2 /\ active[1] = fb[nextfb] /\ active[2] = fb[1 - nextfb] /\ nextfb \in 0 .. 1
        BY <2>2 DEF IInv, HeadIsNext, Streaming, TypeOK
      <4>2. 1 \in DOMAIN active /\ 2 \in DOMAIN active
        BY <4>1, <1>types
      <4>3. fb[nextfb] \in ToSet(active) /\ fb[1 - nextfb] \in ToSet(active)
        BY <4>1, <4>2 DEF ToSet
      <4> QED
        BY <4>1, <4>3
    <3>3. \A n \in 0 .. 1 : fb[n] # b
      BY <2>1, <3>2
    <3> QED
      BY <2>1, <2>2, <3>1, <3>3 DEF EachInOnePlace, Streaming
  <2>3. CASE phase = "off"
    <3>1. IsInjective(queued') /\ ToSet(queued') = ToSet(queued) \cup {b} /\ capture' = capture
      <4>1. queued' = Append(queued, b) /\ capture' = capture
        BY <2>3
      <4>2. IsInjective(queued) /\ b \notin ToSet(queued) /\ queued \in Seq(Buffers)
        BY <2>1, <2>3, <1>types DEF EachInOnePlace
      <4>3. /\ IsInjective(Append(queued, b))
            /\ ToSet(Append(queued, b)) = ToSet(queued) \cup {b}
        BY <4>2, AppendDistinct
      <4> QED
        BY <4>1, <4>3
    <3> QED
      BY <2>1, <2>3, <3>1 DEF EachInOnePlace, Streaming
  <2> QED
    BY <2>2, <2>3
<1>2. ASSUME NEW b \in Buffers, DequeueBuffer(b) PROVE EachInOnePlace'
  BY <1>2 DEF DequeueBuffer, EachInOnePlace, Streaming
<1>3. CASE StartStreaming
  <2> USE <1>3 DEF StartStreaming
  <2>1. /\ IsInjective(capture') /\ ToSet(capture') \subseteq ToSet(queued)
        /\ {queued[1], queued[2]} \subseteq ToSet(queued) \ ToSet(capture') /\ queued[1] # queued[2]
    BY <1>types, RestDistinct DEF EachInOnePlace
  <2>2. ToSet(queued) \cap done = {}
    BY DEF EachInOnePlace
  <2>3. fb'[0] = queued[1] /\ fb'[1] = queued[2]
    BY DEF StartStreaming
  <2>4. ToSet(queued') = {} /\ IsInjective(queued')
    BY DEF ToSet, IsInjective
  <2>5. \A n \in 0 .. 1 : fb'[n] \notin ToSet(capture') \cup done'
    <3>1. \A n \in 0 .. 1 : n = 0 \/ n = 1
      OBVIOUS
    <3> QED
      BY <3>1, <2>1, <2>2, <2>3
  <2> QED
    BY <2>1, <2>2, <2>3, <2>4, <2>5 DEF EachInOnePlace
<1>4. CASE StartFails
  BY <1>4 DEF StartFails, EachInOnePlace, Streaming
<1>5. CASE StopDma \/ StopInterrupts
  BY <1>5 DEF StopDma, StopInterrupts, lists, EachInOnePlace, Streaming
<1>6. CASE StopReturn
  BY <1>6 DEF StopReturn, EachInOnePlace, Streaming, IsInjective, ToSet
<1>7. CASE Controller \/ IrqRead
  BY <1>7 DEF Controller, FrameStart, FrameEnd, Fault, IrqRead, lists, EachInOnePlace, Streaming
<1>8. CASE IrqAct
  <2>1. Streaming /\ phase' = phase /\ queued' = queued
    BY <1>8 DEF IrqAct, IInv, TargetInRegister
  <2>2. CASE FrameDone(nextfb)
    BY <2>1, <2>2, FrameDoneKeepsPlaces
  <2>3. CASE UNCHANGED <<capture, active, discards, done, fb, nextfb>>
    BY <2>1, <2>3 DEF EachInOnePlace, Streaming
  <2> QED
    BY <1>8, <2>2, <2>3 DEF IrqAct, FramesSeen
<1>9. CASE UNCHANGED vars
  BY <1>9 DEF vars, lists, EachInOnePlace, Streaming
<1> QED
  BY <1>1, <1>2, <1>3, <1>4, <1>5, <1>6, <1>7, <1>8, <1>9 DEF Next, User

\* Every step keeps what has ended, and what is done, filled.
LEMMA NextFilled == IInv /\ EachInOnePlace /\ EndedIsFilled /\ [Next]_vars => EndedIsFilled'
<1> SUFFICES ASSUME IInv, EachInOnePlace, EndedIsFilled, [Next]_vars, ~overtaken'
             PROVE  EndedIsFilled'
  BY DEF EndedIsFilled
<1>hw. /\ hw.next \in 0 .. 1 /\ hw.ended \subseteq 0 .. 1 /\ nextfb \in 0 .. 1
       /\ hw \in [dma : BOOLEAN, int : BOOLEAN, next : 0 .. 1, target : Entries \cup {None},
                  ended : SUBSET (0 .. 1), faults : SUBSET Faults]
       /\ done \subseteq Buffers
  BY DEF IInv, TypeOK
<1>fb. Streaming => \A n \in 0 .. 1 : fb[n] \in Entries
  <2> SUFFICES ASSUME Streaming PROVE \A n \in 0 .. 1 : fb[n] \in Entries
    OBVIOUS
  <2>1. active \in Seq(Entries) /\ Len(active) = 2 /\ active[1] = fb[nextfb] /\ active[2] = fb[1 - nextfb]
    BY DEF IInv, HeadIsNext, TypeOK
  <2>2. fb[nextfb] \in Entries /\ fb[1 - nextfb] \in Entries
    BY <2>1
  <2> QED
    BY <2>2, <1>hw
<1>1. ASSUME NEW b \in Buffers, QueueBuffer(b) PROVE EndedIsFilled'
  <2> USE <1>1 DEF QueueBuffer
  <2>1. b \notin done /\ b \notin ToSet(active)
    BY DEF UserHas, DriverHas
  <2>2. Streaming => \A n \in 0 .. 1 : fb[n] # b
    <3> SUFFICES ASSUME Streaming PROVE \A n \in 0 .. 1 : fb[n] # b
      OBVIOUS
    <3>1. active \in Seq(Entries) /\ Len(active) = 2 /\ active[1] = fb[nextfb] /\ active[2] = fb[1 - nextfb]
      BY DEF IInv, HeadIsNext, TypeOK
    <3>2. active[1] \in ToSet(active) /\ active[2] \in ToSet(active)
      BY <3>1 DEF ToSet
    <3> QED
      BY <2>1, <3>1, <3>2, <1>hw
  <2> QED
    BY <2>1, <2>2 DEF EndedIsFilled, Streaming
<1>2. ASSUME NEW b \in Buffers, DequeueBuffer(b) PROVE EndedIsFilled'
  BY <1>2 DEF DequeueBuffer, EndedIsFilled, Streaming
<1>3. CASE StartStreaming
  BY <1>3 DEF StartStreaming, EndedIsFilled
<1>4. CASE StartFails
  BY <1>4 DEF StartFails, EndedIsFilled, Streaming
<1>5. CASE StopDma \/ StopInterrupts
  BY <1>5, <1>hw DEF StopDma, StopInterrupts, lists, EndedIsFilled, Streaming
<1>6. CASE StopReturn
  BY <1>6 DEF StopReturn, EndedIsFilled, Streaming
<1>7. CASE FrameStart
  <2> USE <1>7 DEF FrameStart, lists
  <2>1. Streaming
    BY DEF IInv, TargetInRegister, Streaming
  <2>2. hw'.ended = hw.ended
    BY <1>hw
  <2>3. \A n \in 0 .. 1 : hw.ended = {n} \/ (irq # None /\ irq.ended = {n}) => hw.next = 1 - n
    BY <1>hw DEF IInv, OtherIsWritten
  <2>4. fb[hw.next] \notin done
    BY <2>1, <1>hw DEF EachInOnePlace
  <2>5. \A n \in 0 .. 1 : hw.next = 1 - n /\ fb[n] # Discard => fb[n] # fb[hw.next]
    BY <2>1, <1>hw DEF EachInOnePlace
  <2> QED
    BY <2>1, <2>2, <2>3, <2>4, <2>5, <1>hw DEF EndedIsFilled, Streaming
<1>8. CASE FrameEnd
  <2> USE <1>8 DEF FrameEnd, lists
  <2>1. hw'.ended = hw.ended \cup {hw.next} /\ irq = None /\ ~overtaken
    BY <1>hw
  <2>2. Streaming /\ hw.target = fb[hw.next]
    BY <2>1 DEF IInv, TargetInRegister, Streaming
  <2>3. fb[hw.next] \in filled' \cup {Discard}
    BY <2>2, <1>fb, <1>hw DEF Entries
  <2>4. \A n \in 0 .. 1 : hw'.ended = {n} => n = hw.next
    BY <2>1
  <2> QED
    BY <2>1, <2>2, <2>3, <2>4 DEF EndedIsFilled, Streaming
<1>9. ASSUME NEW f \in Faults, Fault(f) PROVE EndedIsFilled'
  BY <1>9, <1>hw DEF Fault, lists, EndedIsFilled, Streaming
<1>10. CASE IrqRead
  <2> USE <1>10 DEF IrqRead, lists
  <2>1. hw'.ended = {} /\ (irq' # None => irq'.ended = hw.ended)
    BY <1>hw
  <2> QED
    BY <2>1 DEF EndedIsFilled, Streaming
<1>11. CASE IrqAct
  <2> USE <1>11 DEF IrqAct
  <2>1. Streaming /\ hw.ended = {} /\ irq' = None
    BY DEF IInv, TargetInRegister, OtherIsWritten
  <2>2. hw'.ended = hw.ended
    BY <1>hw DEF Recovered
  <2>3. CASE irq.ended = {nextfb} /\ FrameDone(nextfb)
    <3>1. done' = done \cup ({fb[nextfb]} \cap Buffers)
      BY <2>1, <2>3, FrameDoneKeepsPlaces
    <3>2. fb[nextfb] \in filled \cup {Discard}
      BY <2>1, <2>3, <1>hw DEF EndedIsFilled
    <3>3. done' \subseteq filled
      BY <3>1, <3>2, CsiAssumption DEF EndedIsFilled
    <3> QED
      BY <2>1, <2>2, <3>3 DEF EndedIsFilled
  <2>4. CASE UNCHANGED <<capture, active, discards, done, fb, nextfb>>
    BY <2>1, <2>2, <2>4 DEF EndedIsFilled
  <2> QED
    BY <2>3, <2>4 DEF FramesSeen
<1>12. CASE UNCHANGED vars
  BY <1>12 DEF vars, lists, EndedIsFilled, Streaming
<1> QED
  BY <1>1, <1>2, <1>3, <1>4, <1>5, <1>6, <1>7, <1>8, <1>9, <1>10, <1>11, <1>12
     DEF Next, User, Controller

\* What is given back holds a whole frame which nothing has overwritten, as long as no frame
\* ends while the handler is at work.
THEOREM WholeFramesGivenBack == Spec => []DoneIsFilled
<1> DEFINE FInv == IInv /\ EachInOnePlace /\ EndedIsFilled
<1>1. Init => FInv
  BY InitIInv, InitPlaces
<1>2. FInv /\ [Next]_vars => FInv'
  BY NextIInv, NextPlaces, NextFilled
<1>3. FInv => DoneIsFilled
  BY DEF EndedIsFilled, DoneIsFilled
<1> QED
  BY <1>1, <1>2, <1>3, PTL DEF Spec

=============================================================================
