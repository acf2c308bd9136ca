---------------------------- MODULE RamDisks_proofs ----------------------------
(***************************************************************************)
(* Proofs about both RAM disks, for any number of submitters, any capacity *)
(* and any values: their safety properties, and that they implement        *)
(* DiskSpec, the disk of RamDiskQueue with atomic requests, that of        *)
(* RamDiskBio with the segments of a bio as its atomic parts.  They share  *)
(* nothing: the variables of the bio disk are declared beside those of the *)
(* queue disk, as in MCRamDisks.                                           *)
(***************************************************************************)
EXTENDS RamDiskQueue, TLAPS

VARIABLES bioMem, bioCursor, bioLock, bioPc, bioReq, bioSector, bioBuf

Bio == INSTANCE RamDiskBio WITH
  mem <- bioMem, cursor <- bioCursor, lock <- bioLock, pc <- bioPc, req <- bioReq,
  sector <- bioSector, buf <- bioBuf

-----------------------------------------------------------------------------
(* The queue disk                                                          *)

\* How far each request is: all of it is to be copied until it holds the lock, and
\* nothing of it has been ended, or read, before.
Progress ==
  \A p \in Procs :
    /\ remaining[p] =< req[p].count
    /\ pc[p] = "issued" => remaining[p] = req[p].count /\ buf[p] = Blank
    /\ pc[p] # "idle" => ended[p] = 0

\* The sectors of the request that have been copied.
Copied(p) == req[p].first..(Position(p) - 1)

\* The memory and the buffer, halfway through a request, in terms of the memory at
\* the time the lock was taken.
HalfWay ==
  \A p \in Procs :
    pc[p] = "copy" =>
      IF req[p].kind = "write"
      THEN /\ mem = [s \in Sectors |->
                       IF s \in Copied(p) THEN req[p].value ELSE before[s]]
           /\ buf[p] = Blank
      ELSE /\ mem = before
           /\ buf[p] = [s \in Sectors |->
                          IF s \in Copied(p) THEN before[s] ELSE NoValue]

IInv == TypeOK /\ CursorIsMine /\ EndedOnce /\ Progress /\ HalfWay

-----------------------------------------------------------------------------
\* A request the block layer has let through lies inside the disk.
LEMMA RequestFits ==
  ASSUME NEW r \in Requests
  PROVE  /\ r.kind \in {"read", "write"} /\ r.value \in Values
         /\ r.first \in Sectors /\ r.count \in 1..NumSectors
         /\ r.first + r.count =< NumSectors
         /\ SpanOf(r) \subseteq Sectors
  BY DiskAssumption
     DEF Requests, AnyRequest, BlockLayerAdmits, Capacity, Sectors, SpanOf

LEMMA InitIInv == Init => IInv
<1> SUFFICES ASSUME Init PROVE IInv
  OBVIOUS
<1>1. Blank \in [Sectors -> Values \cup {NoValue}]
  BY DEF Blank
<1>2. TypeOK
  BY <1>1, DiskAssumption DEF Init, TypeOK
<1>3. CursorIsMine /\ HalfWay /\ EndedOnce
  BY DEF Init, CursorIsMine, HalfWay, EndedOnce
<1>4. Progress
  <2> SUFFICES ASSUME NEW p \in Procs
               PROVE  remaining[p] =< req[p].count /\ pc[p] = "idle"
    BY DEF Init, Progress
  <2>1. req[p] \in Requests
    BY DEF Init
  <2> QED
    BY <2>1, RequestFits, DiskAssumption DEF Init
<1> QED
  BY <1>2, <1>3, <1>4 DEF IInv

LEMMA NextIInv == IInv /\ [Next]_vars => IInv'
<1> SUFFICES ASSUME IInv, [Next]_vars PROVE IInv'
  OBVIOUS
<1> USE DiskAssumption DEF IInv
<1>blank. Blank \in [Sectors -> Values \cup {NoValue}]
  BY DEF Blank
<1>fits. \A p \in Procs : /\ req[p].first \in Sectors /\ req[p].count \in 1..NumSectors
                          /\ req[p].value \in Values
                          /\ req[p].first + req[p].count =< NumSectors
  BY RequestFits DEF TypeOK
\* A second submitter cannot be copying.
<1>alone. \A p, q \in Procs : pc[p] = "copy" /\ pc[q] = "copy" => p = q
  BY DEF CursorIsMine
<1>1. ASSUME NEW p \in Procs, NEW r \in Requests, StartRequest(p, r) PROVE IInv'
  <2> USE <1>1 DEF StartRequest
  <2>1. TypeOK'
    BY <1>blank, RequestFits DEF TypeOK
  <2>2. CursorIsMine' /\ HalfWay'
    BY DEF TypeOK, CursorIsMine, HalfWay, Copied, Position
  <2>3. EndedOnce' /\ Progress'
    BY RequestFits, <1>blank DEF TypeOK, EndedOnce, Progress
  <2> QED
    BY <2>1, <2>2, <2>3
<1>2. ASSUME NEW p \in Procs, CheckAndLock(p) PROVE IInv'
  <2>1. ~Exceeds(p)
    BY <1>2, <1>fits DEF CheckAndLock, Exceeds, RamSize, Progress, Sectors, TypeOK
  <2>2. /\ pc[p] = "issued" /\ lock = {}
        /\ lock' = {p} /\ cursor' = req[p].first /\ before' = mem
        /\ pc' = [pc EXCEPT ![p] = "copy"]
        /\ UNCHANGED <<mem, req, remaining, buf, ended>>
    BY <1>2, <2>1 DEF CheckAndLock
  <2>3. cursor' \in Sectors /\ cursor' \in 0..NumSectors
    BY <2>2, <1>fits DEF Sectors
  <2>4. TypeOK'
    BY <2>2, <2>3 DEF TypeOK
  <2>5. \A q \in Procs : pc'[q] = "copy" => q = p
    BY <2>2 DEF CursorIsMine, TypeOK
  <2>6. Position(p)' = req[p].first
    BY <2>2, <1>fits DEF Position, Progress, Sectors
  <2>7. CursorIsMine'
    BY <2>2, <2>3, <2>5, <2>6 DEF CursorIsMine
  <2>8. EndedOnce' /\ Progress'
    BY <2>2 DEF TypeOK, EndedOnce, Progress
  <2>9. HalfWay'
    <3>1. Copied(p)' = {}
      BY <2>2, <2>6, <1>fits DEF Copied, Sectors
    <3>2. mem = [s \in Sectors |-> mem[s]]
      BY DEF TypeOK
    <3>3. buf'[p] = Blank
      BY <2>2 DEF Progress
    <3> QED
      BY <2>2, <2>5, <3>1, <3>2, <3>3 DEF HalfWay, Blank
  <2> QED
    BY <2>4, <2>7, <2>8, <2>9
<1>3. ASSUME NEW p \in Procs, CopySegment(p) PROVE IInv'
  <2>1. /\ pc[p] = "copy" /\ remaining[p] > 0
        /\ cursor' = cursor + 1
        /\ remaining' = [remaining EXCEPT ![p] = @ - 1]
        /\ UNCHANGED <<lock, pc, req, ended, before>>
    BY <1>3 DEF CopySegment
  <2>2. cursor = Position(p) /\ cursor \in Sectors /\ lock = {p}
    BY <2>1 DEF CursorIsMine
  <2>3. \A q \in Procs : pc'[q] = "copy" => q = p
    BY <2>1, <1>alone
  <2>4. remaining[p] \in 1..NumSectors /\ remaining[p] =< req[p].count
    BY <2>1 DEF TypeOK, Progress
  <2>5. TypeOK'
    <3>1. cursor' \in 0..NumSectors
      BY <2>1, <2>2 DEF Sectors
    <3>2. remaining' \in [Procs -> 0..NumSectors]
      BY <2>1, <2>4 DEF TypeOK
    <3>3. mem' \in [Sectors -> Values]
      BY <1>3, <1>fits DEF CopySegment, TypeOK
    <3>4. buf' \in [Procs -> [Sectors -> Values \cup {NoValue}]]
      <4>1. CASE req[p].kind = "read"
        <5>1. mem[cursor] \in Values /\ Position(p) \in Sectors
          BY <2>2 DEF TypeOK
        <5>2. buf' = [buf EXCEPT ![p] = [@ EXCEPT ![Position(p)] = mem[cursor]]]
          BY <1>3, <4>1 DEF CopySegment
        <5> QED
          BY <5>1, <5>2 DEF TypeOK
      <4>2. CASE req[p].kind # "read"
        BY <1>3, <4>2 DEF CopySegment, TypeOK
      <4> QED
        BY <4>1, <4>2
    <3> QED
      BY <2>1, <3>1, <3>2, <3>3, <3>4 DEF TypeOK
  <2>6. remaining'[p] = remaining[p] - 1 /\ Position(p)' = cursor + 1
    BY <2>1, <2>2, <2>4, <1>fits DEF TypeOK, Position, Sectors
  <2>7. CursorIsMine'
    <3>1. remaining'[p] > 0 => cursor' \in Sectors
      BY <2>1, <2>2, <2>4, <2>6, <1>fits DEF Position, Sectors
    <3> QED
      BY <2>1, <2>2, <2>3, <2>6, <3>1 DEF CursorIsMine
  <2>8. EndedOnce'
    BY <2>1 DEF EndedOnce
  <2>9. Progress'
    <3> SUFFICES ASSUME NEW q \in Procs
                 PROVE  /\ remaining'[q] =< req[q].count
                        /\ pc[q] = "issued" =>
                             remaining'[q] = req[q].count /\ buf'[q] = Blank
      BY <2>1 DEF Progress
    <3>1. CASE q = p
      BY <3>1, <2>1, <2>4, <2>6, <1>fits DEF Sectors
    <3>2. CASE q # p
      BY <3>2, <2>1, <1>3 DEF CopySegment, Progress, TypeOK
    <3> QED
      BY <3>1, <3>2
  <2>10. HalfWay'
    <3>1. \A s \in Sectors : s \in Copied(p)' <=> s \in Copied(p) \/ s = cursor
      <4>1. cursor >= req[p].first
        BY <2>2, <2>4, <1>fits DEF Position, Sectors
      <4>2. Copied(p) = req[p].first..(cursor - 1)
        BY <2>2 DEF Copied
      <4>3. Copied(p)' = req[p].first..cursor
        BY <2>1, <2>2, <2>6 DEF Copied, Sectors
      <4> QED
        BY <4>1, <4>2, <4>3, <2>2, <1>fits DEF Sectors
    <3>2. CASE req[p].kind = "write"
      <4>1. mem' = [mem EXCEPT ![cursor] = req[p].value] /\ buf' = buf
        BY <1>3, <3>2 DEF CopySegment
      <4> QED
        BY <2>1, <2>2, <2>3, <3>1, <3>2, <4>1 DEF HalfWay, TypeOK
    <3>3. CASE req[p].kind # "write"
      <4>1. buf' = [buf EXCEPT ![p][cursor] = mem[cursor]] /\ mem' = mem
        BY <1>3, <2>2, <3>3, RequestFits DEF CopySegment, TypeOK
      <4>2. buf'[p] = [s \in Sectors |->
                         IF s \in Copied(p)' THEN before[s] ELSE NoValue]
        BY <2>1, <2>2, <3>1, <3>3, <4>1 DEF HalfWay, TypeOK
      <4> QED
        BY <2>1, <2>3, <3>3, <4>1, <4>2 DEF HalfWay
    <3> QED
      BY <3>2, <3>3
  <2> QED
    BY <2>5, <2>7, <2>8, <2>9, <2>10
<1>4. ASSUME NEW p \in Procs, Unlock(p) PROVE IInv'
  BY <1>4, <1>alone DEF Unlock, TypeOK, CursorIsMine, EndedOnce, Progress, HalfWay, Copied, Position
<1>5. ASSUME NEW p \in Procs, EndRequest(p) PROVE IInv'
  BY <1>5 DEF EndRequest, TypeOK, CursorIsMine, EndedOnce, Progress, HalfWay, Copied, Position
<1>6. CASE UNCHANGED vars
  BY <1>6 DEF vars, TypeOK, CursorIsMine, EndedOnce, Progress, HalfWay, Copied, Position
<1> QED
  BY <1>1, <1>2, <1>3, <1>4, <1>5, <1>6 DEF Next, Handle

LEMMA Invariance == Spec => []IInv
  BY InitIInv, NextIInv, PTL DEF Spec

-----------------------------------------------------------------------------
(* Its refinement                                                          *)

LEMMA SameRequests == Disk!Requests = Requests
  BY DEF Disk!Requests, Requests, AnyRequest, BlockLayerAdmits, Capacity,
     Disk!Sectors, Sectors

LEMMA InitRefines == Init => Disk!Init
<1> SUFFICES ASSUME Init PROVE Disk!Init
  OBVIOUS
<1>1. DiskMem \in [Disk!Sectors -> Values]
  BY DEF Init, DiskMem, InCopy, Disk!Sectors, Sectors
<1>2. DiskBusy = [p \in Procs |-> FALSE] /\ DiskLeft = [p \in Procs |-> {}]
  BY DEF Init, DiskBusy, DiskLeft
<1>3. req \in [Procs -> Disk!Requests]
  BY SameRequests DEF Init
<1>4. DiskBuf = [p \in Procs |-> Disk!Blank]
  BY DEF Init, DiskBuf, InCopy, Blank, Disk!Blank, Disk!Sectors, Sectors, NoValue,
     Disk!NoValue
<1> QED
  BY <1>1, <1>2, <1>3, <1>4 DEF Disk!Init

\* Handing over a request begins it, releasing the lock transfers all of it, ending
\* it ends it; taking the lock and copying are invisible.
LEMMA NextRefines == IInv /\ [Next]_vars => [Disk!Next]_Disk!vars
<1> SUFFICES ASSUME IInv, [Next]_vars PROVE [Disk!Next]_Disk!vars
  OBVIOUS
<1> USE DiskAssumption DEF IInv
<1>alone. \A p, q \in Procs : pc[p] = "copy" /\ pc[q] = "copy" => p = q
  BY DEF CursorIsMine
<1>blank. Disk!Blank = Blank
  BY DEF Blank, Disk!Blank, Disk!Sectors, Sectors, NoValue, Disk!NoValue
<1>1. ASSUME NEW p \in Procs, NEW r \in Requests, StartRequest(p, r) PROVE Disk!Next
  <2>1. pc[p] = "idle" /\ pc' = [pc EXCEPT ![p] = "issued"]
        /\ req' = [req EXCEPT ![p] = r] /\ buf' = [buf EXCEPT ![p] = Blank]
        /\ UNCHANGED <<mem, before>>
    BY <1>1 DEF StartRequest
  <2>2. DiskMem' = DiskMem
    BY <2>1 DEF DiskMem, InCopy, TypeOK
  <2>3. ~DiskBusy[p] /\ DiskBusy' = [DiskBusy EXCEPT ![p] = TRUE]
    BY <2>1 DEF DiskBusy, TypeOK
  <2>4. DiskLeft' = [DiskLeft EXCEPT ![p] = Disk!Span(r)]
    BY <2>1 DEF DiskLeft, TypeOK, Disk!Span, SpanOf
  <2>5. DiskBuf' = [DiskBuf EXCEPT ![p] = Disk!Blank]
    BY <2>1, <1>blank DEF DiskBuf, InCopy, TypeOK
  <2> QED
    BY <2>1, <2>2, <2>3, <2>4, <2>5, SameRequests DEF Disk!Next, Disk!Begin
<1>2. ASSUME NEW p \in Procs, CheckAndLock(p) PROVE UNCHANGED Disk!vars
  <2>1. ~Exceeds(p)
    BY <1>2, RequestFits DEF CheckAndLock, Exceeds, RamSize, Progress, Sectors, TypeOK
  <2>2. /\ pc[p] = "issued" /\ lock = {} /\ before' = mem
        /\ pc' = [pc EXCEPT ![p] = "copy"] /\ UNCHANGED <<mem, req, buf>>
    BY <1>2, <2>1 DEF CheckAndLock
  <2>3. DiskMem' = DiskMem
    BY <2>2 DEF DiskMem, InCopy, TypeOK, CursorIsMine
  <2>4. DiskBusy' = DiskBusy /\ DiskLeft' = DiskLeft
    BY <2>2 DEF DiskBusy, DiskLeft, TypeOK
  <2>5. DiskBuf' = DiskBuf
    BY <2>2 DEF DiskBuf, InCopy, TypeOK, Progress
  <2> QED
    BY <2>2, <2>3, <2>4, <2>5 DEF Disk!vars
<1>3. ASSUME NEW p \in Procs, CopySegment(p) PROVE UNCHANGED Disk!vars
  <2>1. pc[p] = "copy" /\ UNCHANGED <<pc, req, before>>
    BY <1>3 DEF CopySegment
  <2>2. DiskMem' = DiskMem
    BY <2>1 DEF DiskMem, InCopy
  <2>3. DiskBuf' = DiskBuf
    <3>1. \A q \in Procs : q # p => buf'[q] = buf[q]
      BY <1>3 DEF CopySegment, TypeOK
    <3> QED
      BY <2>1, <3>1 DEF DiskBuf, InCopy
  <2> QED
    BY <2>1, <2>2, <2>3 DEF Disk!vars, DiskBusy, DiskLeft
<1>4. ASSUME NEW p \in Procs, Unlock(p) PROVE Disk!Next
  <2> DEFINE S == SpanOf(req[p])
  <2>1. pc[p] = "copy" /\ remaining[p] = 0 /\ pc' = [pc EXCEPT ![p] = "copied"]
        /\ UNCHANGED <<mem, req, buf, before>>
    BY <1>4 DEF Unlock
  <2>2. /\ Copied(p) = S /\ S # {} /\ S \subseteq Sectors
        /\ req[p].kind \in {"read", "write"}
    <3>1. /\ req[p].kind \in {"read", "write"}
          /\ req[p].first \in Sectors /\ req[p].count \in 1..NumSectors
          /\ S \subseteq Sectors
      BY RequestFits DEF TypeOK
    <3>2. Copied(p) = S
      BY <2>1, <3>1 DEF Copied, Position, SpanOf, Sectors
    <3>3. req[p].first \in S
      BY <3>1 DEF SpanOf, Sectors
    <3> QED
      BY <3>1, <3>2, <3>3
  <2>3. DiskMem = before /\ DiskMem' = mem
    BY <2>1, <1>alone DEF DiskMem, InCopy, TypeOK
  <2>4. DiskBusy[p] /\ DiskBusy' = DiskBusy
    BY <2>1 DEF DiskBusy, TypeOK
  <2>5. DiskLeft[p] = S /\ DiskLeft' = [DiskLeft EXCEPT ![p] = @ \ S]
    BY <2>1 DEF DiskLeft, TypeOK
  <2>6. DiskBuf[p] = Blank /\ DiskBuf' = [DiskBuf EXCEPT ![p] = buf[p]]
    BY <2>1, <1>alone DEF DiskBuf, InCopy, TypeOK
  <2>7. CASE req[p].kind = "write"
    <3>1. DiskMem' = [s \in Disk!Sectors |-> IF s \in S THEN req[p].value ELSE DiskMem[s]]
      <4>1. mem = [s \in Sectors |-> IF s \in S THEN req[p].value ELSE before[s]]
        <5> HIDE DEF S
        <5> QED
          BY <2>1, <2>2, <2>7 DEF HalfWay
      <4> QED
        BY <2>3, <4>1 DEF Disk!Sectors, Sectors
    <3>2. DiskBuf' = DiskBuf
      BY <2>1, <2>6, <2>7 DEF HalfWay, DiskBuf
    <3>3. Disk!Transfer(p, S)
      BY <2>1, <2>2, <2>4, <2>5, <2>7, <3>1, <3>2 DEF Disk!Transfer
    <3> QED
      BY <2>2, <3>3 DEF Disk!Next, Disk!Sectors, Sectors
  <2>8. CASE req[p].kind # "write"
    <3>1. DiskMem' = DiskMem
      BY <2>1, <2>3, <2>8 DEF HalfWay
    <3>2. DiskBuf' = [DiskBuf EXCEPT ![p] =
                        [s \in Disk!Sectors |-> IF s \in S THEN DiskMem[s] ELSE @[s]]]
      <4>1. buf[p] = [s \in Disk!Sectors |-> IF s \in S THEN DiskMem[s] ELSE DiskBuf[p][s]]
        BY <2>1, <2>2, <2>3, <2>6, <2>8 DEF HalfWay, Disk!Sectors, Sectors, Blank
      <4> QED
        BY <2>6, <4>1
    <3>3. Disk!Transfer(p, S)
      BY <2>1, <2>2, <2>4, <2>5, <2>8, <3>1, <3>2 DEF Disk!Transfer
    <3> QED
      BY <2>2, <3>3 DEF Disk!Next, Disk!Sectors, Sectors
  <2> QED
    BY <2>7, <2>8
<1>5. ASSUME NEW p \in Procs, EndRequest(p) PROVE Disk!Next
  <2>1. pc[p] = "copied" /\ pc' = [pc EXCEPT ![p] = "idle"]
        /\ UNCHANGED <<mem, req, buf, before>>
    BY <1>5 DEF EndRequest
  <2>2. DiskMem' = DiskMem /\ DiskBuf' = DiskBuf
    BY <2>1 DEF DiskMem, DiskBuf, InCopy, TypeOK
  <2>3. DiskBusy[p] /\ DiskBusy' = [DiskBusy EXCEPT ![p] = FALSE]
    BY <2>1 DEF DiskBusy, TypeOK
  <2>4. DiskLeft[p] = {} /\ DiskLeft' = DiskLeft
    BY <2>1 DEF DiskLeft, TypeOK
  <2> QED
    BY <2>1, <2>2, <2>3, <2>4 DEF Disk!Next, Disk!End
<1>6. CASE UNCHANGED vars
  BY <1>6 DEF vars, Disk!vars, DiskMem, DiskBusy, DiskLeft, DiskBuf, InCopy
<1> QED
  BY <1>1, <1>2, <1>3, <1>4, <1>5, <1>6 DEF Next, Handle

-----------------------------------------------------------------------------
\* The type invariant.
THEOREM TypeCorrect == Spec => []TypeOK
<1>1. IInv => TypeOK
  BY DEF IInv
<1> QED
  BY <1>1, Invariance, PTL

\* The lock makes the shared cursor ram_blk_sursor the cursor of one request, which
\* never points outside the memory when something is copied through it.
THEOREM CursorExclusive == Spec => []CursorIsMine
<1>1. IInv => CursorIsMine
  BY DEF IInv
<1> QED
  BY <1>1, Invariance, PTL

\* The path of ram_queue_rq that ends a request twice is unreachable while the
\* advertised capacity is the size of the memory.
THEOREM NoDoubleEnd == Spec => []EndedOnce
<1>1. IInv => EndedOnce
  BY DEF IInv
<1> QED
  BY <1>1, Invariance, PTL

\* Every request takes effect at one instant between its submission and its end.
THEOREM Atomicity == Spec => AtomicRequests
<1>1. Init => Disk!Init
  BY InitRefines
<1>2. IInv /\ [Next]_vars => [Disk!Next]_Disk!vars
  BY NextRefines
<1> QED
  BY <1>1, <1>2, Invariance, PTL DEF Spec, AtomicRequests, Disk!Spec

-----------------------------------------------------------------------------
(* The bio disk                                                            *)


\* A submitter is somewhere in its bio, and copies only while a segment is left.
BioProgress ==
  \A p \in Procs :
    /\ bioReq[p].first =< bioSector[p]
    /\ bioSector[p] =< bioReq[p].first + bioReq[p].count
    /\ bioPc[p] = "copy" => bioSector[p] =< Bio!LastOf(bioReq[p])
    /\ bioPc[p] = "idle" => bioSector[p] > Bio!LastOf(bioReq[p])

BioInv == Bio!TypeOK /\ Bio!CursorIsMine /\ BioProgress

-----------------------------------------------------------------------------
\* A bio the block layer has let through lies inside the disk.
LEMMA BioFits ==
  ASSUME NEW r \in Bio!Requests
  PROVE  /\ r.kind \in {"read", "write"} /\ r.value \in Values
         /\ r.first \in Int /\ r.count \in Int /\ r.first >= 0 /\ r.count >= 1
         /\ r.first \in Bio!Sectors /\ r.first + r.count =< NumSectors
         /\ Bio!LastOf(r) \in Bio!Sectors /\ Bio!LastOf(r) = r.first + r.count - 1
  BY DiskAssumption DEF Bio!Requests, Bio!Sectors, Bio!LastOf

LEMMA BioInitInv == Bio!Init => BioInv
<1> SUFFICES ASSUME Bio!Init PROVE BioInv
  OBVIOUS
<1>1. Bio!Blank \in [Bio!Sectors -> Values \cup {Bio!NoValue}] /\ 0 \in Bio!Sectors
  BY DiskAssumption DEF Bio!Blank, Bio!Sectors
<1>2. \A p \in Procs : bioReq[p] \in Bio!Requests
  BY DEF Bio!Init
<1>3. ASSUME NEW p \in Procs
      PROVE  /\ bioReq[p].first + bioReq[p].count \in 0..NumSectors
             /\ bioReq[p].first =< bioReq[p].first + bioReq[p].count
             /\ bioReq[p].first + bioReq[p].count > Bio!LastOf(bioReq[p])
  <2>1. bioReq[p] \in Bio!Requests
    BY <1>2
  <2> QED
    BY <2>1, BioFits, DiskAssumption DEF Bio!Sectors
<1>4. Bio!TypeOK
  BY <1>1, <1>3 DEF Bio!Init, Bio!TypeOK
<1>5. Bio!CursorIsMine
  BY DEF Bio!Init, Bio!CursorIsMine
<1>6. BioProgress
  <2> SUFFICES ASSUME NEW p \in Procs
               PROVE  /\ bioReq[p].first =< bioSector[p]
                      /\ bioSector[p] =< bioReq[p].first + bioReq[p].count
                      /\ bioSector[p] > Bio!LastOf(bioReq[p]) /\ bioPc[p] = "idle"
    BY DEF BioProgress
  <2>1. bioSector[p] = bioReq[p].first + bioReq[p].count /\ bioPc[p] = "idle"
    BY DEF Bio!Init
  <2> QED
    BY <2>1, <1>2, <1>3, BioFits
<1> QED
  BY <1>4, <1>5, <1>6 DEF BioInv

LEMMA BioNextInv == BioInv /\ [Bio!Next]_Bio!vars => BioInv'
<1> SUFFICES ASSUME BioInv, [Bio!Next]_Bio!vars PROVE BioInv'
  OBVIOUS
<1> USE DEF BioInv
<1>fits. \A p \in Procs : bioReq[p] \in Bio!Requests /\ bioSector[p] \in Int
  BY DEF Bio!TypeOK
\* A second submitter cannot be copying.
<1>alone. \A p, q \in Procs : bioPc[p] = "copy" /\ bioPc[q] = "copy" => p = q
  BY DEF Bio!CursorIsMine
<1>1. ASSUME NEW p \in Procs, NEW r \in Bio!Requests, Bio!SubmitBio(p, r) PROVE BioInv'
  <2>1. /\ bioPc[p] = "idle" /\ bioPc' = [bioPc EXCEPT ![p] = "segment"]
        /\ bioReq' = [bioReq EXCEPT ![p] = r] /\ bioSector' = [bioSector EXCEPT ![p] = r.first]
        /\ bioBuf' = [bioBuf EXCEPT ![p] = Bio!Blank] /\ UNCHANGED <<bioMem, bioCursor, bioLock>>
    BY <1>1 DEF Bio!SubmitBio
  <2>2. Bio!Blank \in [Bio!Sectors -> Values \cup {Bio!NoValue}]
    BY DEF Bio!Blank
  <2>3. r.first \in 0..NumSectors
    BY BioFits, DiskAssumption DEF Bio!Sectors
  <2>4. Bio!TypeOK'
    BY <2>1, <2>2, <2>3 DEF Bio!TypeOK
  <2>5. Bio!CursorIsMine'
    BY <2>1 DEF Bio!TypeOK, Bio!CursorIsMine
  <2>6. BioProgress'
    BY <2>1, <2>3, BioFits DEF Bio!TypeOK, BioProgress
  <2> QED
    BY <2>4, <2>5, <2>6
<1>2. ASSUME NEW p \in Procs, Bio!LockSegment(p) PROVE BioInv'
  <2>1. /\ bioPc[p] = "segment" /\ bioSector[p] =< Bio!LastOf(bioReq[p])
        /\ bioLock = {} /\ bioLock' = {p} /\ bioCursor' = bioSector[p]
        /\ bioPc' = [bioPc EXCEPT ![p] = "copy"] /\ UNCHANGED <<bioMem, bioReq, bioSector, bioBuf>>
    BY <1>2 DEF Bio!LockSegment
  <2>2. bioSector[p] \in Bio!Sectors
    <3>1. bioReq[p] \in Bio!Requests /\ bioSector[p] \in 0..NumSectors
      BY DEF Bio!TypeOK
    <3>2. Bio!LastOf(bioReq[p]) \in Bio!Sectors
      BY <3>1, BioFits
    <3> QED
      BY <2>1, <3>1, <3>2, DiskAssumption DEF Bio!Sectors
  <2>3. Bio!TypeOK'
    BY <2>1, <2>2 DEF Bio!TypeOK
  <2>4. Bio!CursorIsMine'
    BY <2>1, <2>2 DEF Bio!TypeOK, Bio!CursorIsMine
  <2>5. BioProgress'
    BY <2>1 DEF Bio!TypeOK, BioProgress
  <2> QED
    BY <2>3, <2>4, <2>5
<1>3. ASSUME NEW p \in Procs, Bio!CopySegment(p) PROVE BioInv'
  <2>1. /\ bioPc[p] = "copy" /\ bioLock' = {} /\ bioSector' = [bioSector EXCEPT ![p] = @ + 1]
        /\ bioPc' = [bioPc EXCEPT ![p] = "segment"] /\ UNCHANGED <<bioCursor, bioReq>>
    BY <1>3 DEF Bio!CopySegment
  <2>2. /\ bioCursor = bioSector[p] /\ bioCursor \in Bio!Sectors /\ bioReq[p].value \in Values
        /\ bioSector[p] + 1 \in 0..NumSectors
    BY <2>1, <1>fits, BioFits, DiskAssumption DEF Bio!CursorIsMine, Bio!Sectors
  <2>3. bioMem' \in [Bio!Sectors -> Values]
    BY <1>3, <2>2 DEF Bio!CopySegment, Bio!TypeOK
  <2>4. bioBuf' \in [Procs -> [Bio!Sectors -> Values \cup {Bio!NoValue}]]
    <3>1. CASE bioReq[p].kind = "write"
      BY <1>3, <3>1 DEF Bio!CopySegment, Bio!TypeOK
    <3>2. CASE bioReq[p].kind # "write"
      <4>1. bioBuf' = [bioBuf EXCEPT ![p] = [@ EXCEPT ![bioSector[p]] = bioMem[bioCursor]]]
        BY <1>3, <3>2 DEF Bio!CopySegment
      <4>2. bioMem[bioCursor] \in Values
        BY <2>2 DEF Bio!TypeOK
      <4> QED
        BY <2>2, <4>1, <4>2 DEF Bio!TypeOK
    <3> QED
      BY <3>1, <3>2
  <2>5. Bio!TypeOK'
    BY <2>1, <2>2, <2>3, <2>4 DEF Bio!TypeOK
  <2>6. Bio!CursorIsMine'
    BY <2>1, <1>alone DEF Bio!TypeOK, Bio!CursorIsMine
  <2>7. BioProgress'
    BY <2>1, <1>fits, <1>alone, BioFits DEF Bio!TypeOK, BioProgress
  <2> QED
    BY <2>5, <2>6, <2>7
<1>4. ASSUME NEW p \in Procs, Bio!EndBio(p) PROVE BioInv'
  BY <1>4 DEF Bio!EndBio, Bio!TypeOK, Bio!CursorIsMine, BioProgress
<1>5. CASE UNCHANGED Bio!vars
  BY <1>5 DEF Bio!vars, Bio!TypeOK, Bio!CursorIsMine, BioProgress
<1> QED
  BY <1>1, <1>2, <1>3, <1>4, <1>5 DEF Bio!Next

LEMMA BioInvariance == Bio!Spec => []BioInv
  BY BioInitInv, BioNextInv, PTL DEF Bio!Spec

-----------------------------------------------------------------------------
(* Its refinement                                                          *)

LEMMA BioSameRequests == Bio!Disk!Requests = Bio!Requests
  BY DEF Bio!Disk!Requests, Bio!Requests, Bio!Disk!Sectors, Bio!Sectors

LEMMA BioSameBlank == Bio!Disk!Blank = Bio!Blank
  BY DEF Bio!Blank, Bio!Disk!Blank, Bio!Disk!Sectors, Bio!Sectors, Bio!NoValue, Bio!Disk!NoValue

LEMMA BioInitRefines == Bio!Init => Bio!Disk!Init
<1> SUFFICES ASSUME Bio!Init PROVE Bio!Disk!Init
  OBVIOUS
<1>1. Bio!DiskBusy = [p \in Procs |-> FALSE]
  BY DEF Bio!Init, Bio!DiskBusy
<1>2. Bio!DiskLeft = [p \in Procs |-> {}]
  <2>1. ASSUME NEW p \in Procs PROVE bioSector[p]..Bio!LastOf(bioReq[p]) = {}
    <3>1. bioReq[p] \in Bio!Requests /\ bioSector[p] = bioReq[p].first + bioReq[p].count
      BY DEF Bio!Init
    <3> QED
      BY <3>1, BioFits
  <2> QED
    BY <2>1 DEF Bio!DiskLeft
<1> QED
  BY <1>1, <1>2, BioSameRequests, BioSameBlank 
     DEF Bio!Init, Bio!Disk!Init, Bio!Disk!Sectors, Bio!Sectors

\* Submitting a bio begins a request, copying a segment transfers its sector, ending
\* the bio ends it; taking the lock is invisible.
LEMMA BioNextRefines == BioInv /\ [Bio!Next]_Bio!vars => [Bio!Disk!Next]_Bio!Disk!vars
<1> SUFFICES ASSUME BioInv, [Bio!Next]_Bio!vars PROVE [Bio!Disk!Next]_Bio!Disk!vars
  OBVIOUS
<1> USE DEF BioInv
<1>fits. \A p \in Procs : bioReq[p] \in Bio!Requests /\ bioSector[p] \in Int
  BY DEF Bio!TypeOK
<1>1. ASSUME NEW p \in Procs, NEW r \in Bio!Requests, Bio!SubmitBio(p, r) PROVE Bio!Disk!Next
  <2>1. /\ bioPc[p] = "idle" /\ bioPc' = [bioPc EXCEPT ![p] = "segment"]
        /\ bioReq' = [bioReq EXCEPT ![p] = r] /\ bioSector' = [bioSector EXCEPT ![p] = r.first]
        /\ bioBuf' = [bioBuf EXCEPT ![p] = Bio!Blank] /\ UNCHANGED bioMem
    BY <1>1 DEF Bio!SubmitBio
  <2>2. ~Bio!DiskBusy[p] /\ Bio!DiskBusy' = [Bio!DiskBusy EXCEPT ![p] = TRUE]
    BY <2>1 DEF Bio!DiskBusy, Bio!TypeOK
  <2>3. Bio!DiskLeft' = [Bio!DiskLeft EXCEPT ![p] = Bio!Disk!Span(r)]
    BY <2>1 DEF Bio!DiskLeft, Bio!TypeOK, Bio!Disk!Span, Bio!LastOf
  <2> QED
    BY <2>1, <2>2, <2>3, BioSameRequests, BioSameBlank DEF Bio!Disk!Next, Bio!Disk!Begin
<1>2. ASSUME NEW p \in Procs, Bio!LockSegment(p) PROVE UNCHANGED Bio!Disk!vars
  <2>1. /\ bioPc[p] = "segment" /\ bioPc' = [bioPc EXCEPT ![p] = "copy"]
        /\ UNCHANGED <<bioMem, bioReq, bioSector, bioBuf>>
    BY <1>2 DEF Bio!LockSegment
  <2> QED
    BY <2>1 DEF Bio!Disk!vars, Bio!DiskBusy, Bio!DiskLeft, Bio!TypeOK
<1>3. ASSUME NEW p \in Procs, Bio!CopySegment(p) PROVE Bio!Disk!Next
  <2> DEFINE S == {bioSector[p]}
  <2>1. /\ bioPc[p] = "copy" /\ bioSector' = [bioSector EXCEPT ![p] = @ + 1]
        /\ bioPc' = [bioPc EXCEPT ![p] = "segment"] /\ UNCHANGED <<bioCursor, bioReq>>
    BY <1>3 DEF Bio!CopySegment
  <2>2. /\ bioCursor = bioSector[p] /\ bioSector[p] \in Bio!Sectors
        /\ bioSector[p] =< Bio!LastOf(bioReq[p]) /\ Bio!LastOf(bioReq[p]) \in Int
    BY <2>1, <1>fits, BioFits DEF Bio!CursorIsMine, BioProgress, Bio!Sectors
  <2>3. Bio!DiskBusy[p] /\ Bio!DiskBusy' = Bio!DiskBusy
    BY <2>1 DEF Bio!DiskBusy, Bio!TypeOK
  <2>4. S \subseteq Bio!DiskLeft[p]
    BY <2>2, <1>fits DEF Bio!DiskLeft
  <2>5. Bio!DiskLeft' = [Bio!DiskLeft EXCEPT ![p] = @ \ S]
    <3>1. (bioSector[p] + 1)..Bio!LastOf(bioReq[p]) = (bioSector[p]..Bio!LastOf(bioReq[p])) \ S
      BY <2>2, <1>fits
    <3> QED
      BY <2>1, <3>1 DEF Bio!DiskLeft, Bio!TypeOK
  <2>6. CASE bioReq[p].kind = "write"
    <3>1. bioMem' = [bioMem EXCEPT ![bioCursor] = bioReq[p].value] /\ bioBuf' = bioBuf
      BY <1>3, <2>6 DEF Bio!CopySegment
    <3>2. bioMem' = [s \in Bio!Disk!Sectors |-> IF s \in S THEN bioReq[p].value ELSE bioMem[s]]
      BY <2>2, <3>1 DEF Bio!TypeOK, Bio!Disk!Sectors, Bio!Sectors
    <3>3. Bio!Disk!Transfer(p, S)
      BY <2>1, <2>3, <2>4, <2>5, <2>6, <3>1, <3>2 DEF Bio!Disk!Transfer
    <3> QED
      BY <2>2, <3>3 DEF Bio!Disk!Next, Bio!Disk!Sectors, Bio!Sectors
  <2>7. CASE bioReq[p].kind # "write"
    <3>1. bioBuf' = [bioBuf EXCEPT ![p][bioSector[p]] = bioMem[bioCursor]] /\ bioMem' = bioMem
      BY <1>3, <2>7 DEF Bio!CopySegment
    <3>2. bioBuf' = [bioBuf EXCEPT ![p] =
                    [s \in Bio!Disk!Sectors |-> IF s \in S THEN bioMem[s] ELSE @[s]]]
      <4>1. [bioBuf[p] EXCEPT ![bioSector[p]] = bioMem[bioCursor]]
              = [s \in Bio!Disk!Sectors |-> IF s \in S THEN bioMem[s] ELSE bioBuf[p][s]]
        BY <2>2 DEF Bio!TypeOK, Bio!Disk!Sectors, Bio!Sectors
      <4> QED
        BY <3>1, <4>1
    <3>3. Bio!Disk!Transfer(p, S)
      BY <2>1, <2>3, <2>4, <2>5, <2>7, <3>1, <3>2 DEF Bio!Disk!Transfer
    <3> QED
      BY <2>2, <3>3 DEF Bio!Disk!Next, Bio!Disk!Sectors, Bio!Sectors
  <2> QED
    BY <2>6, <2>7
<1>4. ASSUME NEW p \in Procs, Bio!EndBio(p) PROVE Bio!Disk!Next
  <2>1. /\ bioPc[p] = "segment" /\ bioSector[p] > Bio!LastOf(bioReq[p])
        /\ bioPc' = [bioPc EXCEPT ![p] = "idle"] /\ UNCHANGED <<bioMem, bioReq, bioSector, bioBuf>>
    BY <1>4 DEF Bio!EndBio
  <2>2. Bio!DiskBusy[p] /\ Bio!DiskBusy' = [Bio!DiskBusy EXCEPT ![p] = FALSE]
    BY <2>1 DEF Bio!DiskBusy, Bio!TypeOK
  <2>3. Bio!DiskLeft[p] = {} /\ Bio!DiskLeft' = Bio!DiskLeft
    BY <2>1, <1>fits, BioFits DEF Bio!DiskLeft
  <2> QED
    BY <2>1, <2>2, <2>3 DEF Bio!Disk!Next, Bio!Disk!End
<1>5. CASE UNCHANGED Bio!vars
  BY <1>5 DEF Bio!vars, Bio!Disk!vars, Bio!DiskBusy, Bio!DiskLeft
<1> QED
  BY <1>1, <1>2, <1>3, <1>4, <1>5 DEF Bio!Next

-----------------------------------------------------------------------------
\* The type invariant.
THEOREM BioTypeCorrect == Bio!Spec => []Bio!TypeOK
<1>1. BioInv => Bio!TypeOK
  BY DEF BioInv
<1> QED
  BY <1>1, BioInvariance, PTL

\* Whoever copies in ram_blk_transfer holds the lock, and the shared cursor is at its
\* segment, inside the memory.
THEOREM BioCursorExclusive == Bio!Spec => []Bio!CursorIsMine
<1>1. BioInv => Bio!CursorIsMine
  BY DEF BioInv
<1> QED
  BY <1>1, BioInvariance, PTL

\* Every segment of a bio takes effect at one instant between the submission and the
\* end of the bio.
THEOREM SegmentAtomicity == Bio!Spec => Bio!AtomicSegments
<1>1. Bio!Init => Bio!Disk!Init
  BY BioInitRefines
<1>2. BioInv /\ [Bio!Next]_Bio!vars => [Bio!Disk!Next]_Bio!Disk!vars
  BY BioNextRefines
<1> QED
  BY <1>1, <1>2, BioInvariance, PTL DEF Bio!Spec, Bio!AtomicSegments, Bio!Disk!Spec
================================================================================
