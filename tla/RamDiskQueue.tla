------------------------------- MODULE RamDiskQueue -------------------------------
(***************************************************************************)
(* The blk-mq RAM disk (13.block_dev/queue): ram_queue_rq may run on       *)
(* several processors at once; it checks the request against the capacity, *)
(* takes the disk's spinlock for the whole request and copies segment by   *)
(* segment through a cursor that all requests share.  A segment is one     *)
(* sector here; only the number of copies under one lock depends on that.  *)
(***************************************************************************)
EXTENDS RamDiskGeometry

VARIABLES
  mem,        \* the memory behind ram_blk_addr
  cursor,     \* ram_blk_sursor, as a sector number
  lock,       \* holder of ram_blk_lock, as {p} or {}
  pc,         \* where each submitter's request is
  req,        \* its request
  remaining,  \* ... and the sectors still to copy
  buf,        \* the pages of a read request
  ended,      \* how often the request has been ended
  before      \* the memory when the lock was last taken; a history variable

vars == <<mem, cursor, lock, pc, req, remaining, buf, ended, before>>

\* set_capacity and ram_size: both are the size of the memory.
Capacity == NumSectors
RamSize == NumSectors

AnyRequest ==
  [kind : {"read", "write"}, first : Sectors, count : 1..NumSectors, value : Values]

\* The block layer refuses what goes past the end of the device.
BlockLayerAdmits(r) == r.first + r.count =< Capacity

Requests == {r \in AnyRequest : BlockLayerAdmits(r)}

SpanOf(r) == r.first..(r.first + r.count - 1)

Init ==
  /\ mem \in [Sectors -> Values]
  /\ cursor = 0
  /\ lock = {}
  /\ pc = [p \in Procs |-> "idle"]
  /\ req \in [Procs -> Requests]
  /\ remaining = [p \in Procs |-> 0]
  /\ buf = [p \in Procs |-> Blank]
  /\ ended = [p \in Procs |-> 0]
  /\ before = mem

\* The block layer hands the driver a request and it is started.
StartRequest(p, r) ==
  /\ pc[p] = "idle"
  /\ pc' = [pc EXCEPT ![p] = "issued"]
  /\ req' = [req EXCEPT ![p] = r]
  /\ remaining' = [remaining EXCEPT ![p] = r.count]
  /\ buf' = [buf EXCEPT ![p] = Blank]
  /\ ended' = [ended EXCEPT ![p] = 0]
  /\ UNCHANGED <<mem, cursor, lock, before>>

Exceeds(p) == remaining[p] + req[p].first > RamSize

\* Mutant: the spinlock is not taken.
CheckOnly(p) ==
  /\ pc[p] = "issued"
  /\ ~Exceeds(p)
  /\ cursor' = req[p].first
  /\ before' = mem
  /\ pc' = [pc EXCEPT ![p] = "copy"]
  /\ UNCHANGED <<mem, lock, req, remaining, buf, ended>>

\* The capacity check; a request that fails it is ended here and, because the
\* handler returns an error, once more by blk-mq. Otherwise the lock is taken and
\* the cursor set.
CheckAndLock(p) ==
  /\ pc[p] = "issued"
  /\ IF Exceeds(p)
     THEN /\ ended' = [ended EXCEPT ![p] = @ + 2]
          /\ pc' = [pc EXCEPT ![p] = "idle"]
          /\ UNCHANGED <<cursor, lock, before>>
     ELSE /\ lock = {}
          /\ lock' = {p}
          /\ cursor' = req[p].first
          /\ before' = mem
          /\ pc' = [pc EXCEPT ![p] = "copy"]
          /\ UNCHANGED ended
  /\ UNCHANGED <<mem, req, remaining, buf>>

\* The sector of the request the next segment belongs to.
Position(p) == req[p].first + (req[p].count - remaining[p])

\* One segment is copied and the cursor moves on.
CopySegment(p) ==
  /\ pc[p] = "copy"
  /\ remaining[p] > 0
  /\ IF req[p].kind = "read"
     THEN buf' = [buf EXCEPT ![p][Position(p)] = mem[cursor]] /\ UNCHANGED mem
     ELSE mem' = [mem EXCEPT ![cursor] = req[p].value] /\ UNCHANGED buf
  /\ cursor' = cursor + 1
  /\ remaining' = [remaining EXCEPT ![p] = @ - 1]
  /\ UNCHANGED <<lock, pc, req, ended, before>>

\* Mutant: the lock is kept.
LeaveLocked(p) ==
  /\ pc[p] = "copy"
  /\ remaining[p] = 0
  /\ pc' = [pc EXCEPT ![p] = "copied"]
  /\ UNCHANGED <<mem, cursor, lock, req, remaining, buf, ended, before>>

\* All segments are copied: the lock is released.
Unlock(p) ==
  /\ pc[p] = "copy"
  /\ remaining[p] = 0
  /\ lock' = {}
  /\ pc' = [pc EXCEPT ![p] = "copied"]
  /\ UNCHANGED <<mem, cursor, req, remaining, buf, ended, before>>

\* blk_mq_end_request.
EndRequest(p) ==
  /\ pc[p] = "copied"
  /\ pc' = [pc EXCEPT ![p] = "idle"]
  /\ ended' = [ended EXCEPT ![p] = @ + 1]
  /\ UNCHANGED <<mem, cursor, lock, req, remaining, buf, before>>

Handle(p) == CheckAndLock(p) \/ CopySegment(p) \/ Unlock(p) \/ EndRequest(p)

Next ==
  \E p \in Procs :
    \/ \E r \in Requests : StartRequest(p, r)
    \/ Handle(p)

\* ram_queue_rq never sleeps, and a spinlock that is released again and again is
\* eventually granted to a processor that spins on it (ticket order).
Fairness ==
  \A p \in Procs : /\ WF_vars(CopySegment(p) \/ Unlock(p) \/ EndRequest(p))
                   /\ SF_vars(CheckAndLock(p))

Spec == Init /\ [][Next]_vars /\ Fairness

-----------------------------------------------------------------------------
(* Properties                                                              *)

\* The type invariant: no request counts down below zero, and the cursor of
\* ram_queue_rq stays inside the memory or just behind its end.
TypeOK ==
  /\ mem \in [Sectors -> Values]
  /\ cursor \in 0..NumSectors
  /\ lock \in SUBSET Procs
  /\ pc \in [Procs -> {"idle", "issued", "copy", "copied"}]
  /\ req \in [Procs -> Requests]
  /\ remaining \in [Procs -> 0..NumSectors]
  /\ buf \in [Procs -> [Sectors -> Values \cup {NoValue}]]
  /\ ended \in [Procs -> Nat]
  /\ before \in [Sectors -> Values]

\* The cursor, shared by all requests, is where the request being copied has got
\* to: no other request moves it in between, and no copy leaves the memory.
CursorIsMine ==
  \A p \in Procs :
    pc[p] = "copy" =>
      /\ lock = {p}
      /\ cursor = Position(p)
      /\ remaining[p] > 0 => cursor \in Sectors

\* No request is ended twice. The error path would do it: what keeps it from being
\* taken is that the advertised capacity is exactly the size of the memory.
EndedOnce == \A p \in Procs : ended[p] =< 1

InCopy(p) == pc[p] = "copy"

\* The disk as seen from outside: the memory as of the last lock acquisition while a
\* request is being copied, and nothing in the pages of a read before the lock is
\* released.
DiskMem == IF \E p \in Procs : InCopy(p) THEN before ELSE mem
DiskBusy == [p \in Procs |-> pc[p] # "idle"]
DiskLeft == [p \in Procs |-> IF pc[p] \in {"issued", "copy"} THEN SpanOf(req[p]) ELSE {}]
DiskBuf == [p \in Procs |-> IF InCopy(p) THEN Blank ELSE buf[p]]

Disk == INSTANCE DiskSpec WITH
  Atomic <- TRUE, mem <- DiskMem, busy <- DiskBusy, left <- DiskLeft, buf <- DiskBuf

\* A request is one atomic operation on the disk, although ram_queue_rq copies it
\* segment by segment and others run at the same time.
AtomicRequests == Disk!Spec

\* Every request that is started is ended, however many compete for the lock.
RequestEnds == \A p \in Procs : pc[p] = "issued" ~> ended[p] > 0
=============================================================================
