-------------------------------- MODULE RamDiskBio --------------------------------
(***************************************************************************)
(* The bio-based RAM disk (13.block_dev/no_queue): ram_blk_submit_bio runs *)
(* in the submitter and calls ram_blk_transfer for each segment; the       *)
(* spinlock and the shared cursor are held for one segment at a time, so   *)
(* bios of several submitters interleave between segments.  The driver     *)
(* itself checks no bounds.  A segment is one sector here.                 *)
(***************************************************************************)
EXTENDS RamDiskGeometry

VARIABLES
  mem,     \* the memory behind ram_blk_addr
  cursor,  \* ram_blk_sursor, as a sector number
  lock,    \* holder of ram_blk_lock, as {p} or {}
  pc,      \* where each submitter is
  req,     \* its bio
  sector,  \* the local variable sector: the next sector to transfer
  buf      \* the pages of a read bio

vars == <<mem, cursor, lock, pc, req, sector, buf>>

\* The block layer refuses a bio that goes past the capacity set by set_capacity.
Requests ==
  {r \in [kind : {"read", "write"}, first : Sectors, count : 1..NumSectors,
          value : Values] : r.first + r.count =< NumSectors}

LastOf(r) == r.first + r.count - 1

Init ==
  /\ mem \in [Sectors -> Values]
  /\ cursor = 0
  /\ lock = {}
  /\ pc = [p \in Procs |-> "idle"]
  /\ req \in [Procs -> Requests]
  /\ sector = [p \in Procs |-> req[p].first + req[p].count]
  /\ buf = [p \in Procs |-> Blank]

SubmitBio(p, r) ==
  /\ pc[p] = "idle"
  /\ pc' = [pc EXCEPT ![p] = "segment"]
  /\ req' = [req EXCEPT ![p] = r]
  /\ sector' = [sector EXCEPT ![p] = r.first]
  /\ buf' = [buf EXCEPT ![p] = Blank]
  /\ UNCHANGED <<mem, cursor, lock>>

\* Mutant: the cursor is set before the lock is taken.
SetCursorUnlocked(p) ==
  /\ pc[p] = "segment"
  /\ sector[p] =< LastOf(req[p])
  /\ cursor' = sector[p]
  /\ pc' = [pc EXCEPT ![p] = "copy"]
  /\ UNCHANGED <<mem, lock, req, sector, buf>>

\* ram_blk_transfer: take the lock and set the cursor.
LockSegment(p) ==
  /\ pc[p] = "segment"
  /\ sector[p] =< LastOf(req[p])
  /\ lock = {}
  /\ lock' = {p}
  /\ cursor' = sector[p]
  /\ pc' = [pc EXCEPT ![p] = "copy"]
  /\ UNCHANGED <<mem, req, sector, buf>>

\* Mutant: the sector of the bio is not advanced.
CopySameSegment(p) ==
  /\ pc[p] = "copy"
  /\ IF req[p].kind = "write"
     THEN mem' = [mem EXCEPT ![cursor] = req[p].value] /\ UNCHANGED buf
     ELSE buf' = [buf EXCEPT ![p][sector[p]] = mem[cursor]] /\ UNCHANGED mem
  /\ lock' = {}
  /\ pc' = [pc EXCEPT ![p] = "segment"]
  /\ UNCHANGED <<cursor, req, sector>>

\* ram_blk_transfer: copy and release the lock; the caller advances its sector.
CopySegment(p) ==
  /\ pc[p] = "copy"
  /\ IF req[p].kind = "write"
     THEN mem' = [mem EXCEPT ![cursor] = req[p].value] /\ UNCHANGED buf
     ELSE buf' = [buf EXCEPT ![p][sector[p]] = mem[cursor]] /\ UNCHANGED mem
  /\ lock' = {}
  /\ sector' = [sector EXCEPT ![p] = @ + 1]
  /\ pc' = [pc EXCEPT ![p] = "segment"]
  /\ UNCHANGED <<cursor, req>>

\* bio_endio.
EndBio(p) ==
  /\ pc[p] = "segment"
  /\ sector[p] > LastOf(req[p])
  /\ pc' = [pc EXCEPT ![p] = "idle"]
  /\ UNCHANGED <<mem, cursor, lock, req, sector, buf>>

Next ==
  \E p \in Procs :
    \/ \E r \in Requests : SubmitBio(p, r)
    \/ LockSegment(p) \/ CopySegment(p) \/ EndBio(p)

\* A submitter does not sleep in submit_bio and the spinlock is fair.
Fairness ==
  \A p \in Procs : WF_vars(CopySegment(p) \/ EndBio(p)) /\ SF_vars(LockSegment(p))

Spec == Init /\ [][Next]_vars /\ Fairness

-----------------------------------------------------------------------------
(* Properties                                                              *)

\* The type invariant: the cursor of ram_blk_transfer stays inside the memory, and a
\* bio ends behind the last sector at most.
TypeOK ==
  /\ mem \in [Sectors -> Values]
  /\ cursor \in Sectors
  /\ lock \in SUBSET Procs
  /\ pc \in [Procs -> {"idle", "segment", "copy"}]
  /\ req \in [Procs -> Requests]
  /\ sector \in [Procs -> 0..NumSectors]
  /\ buf \in [Procs -> [Sectors -> Values \cup {NoValue}]]

\* The shared cursor points at the segment of whoever copies, inside the memory,
\* although the driver checks no bounds.
CursorIsMine ==
  \A p \in Procs :
    pc[p] = "copy" => lock = {p} /\ cursor = sector[p] /\ cursor \in Sectors

DiskBusy == [p \in Procs |-> pc[p] # "idle"]
DiskLeft == [p \in Procs |-> sector[p]..LastOf(req[p])]

Disk == INSTANCE DiskSpec WITH Atomic <- FALSE, busy <- DiskBusy, left <- DiskLeft

\* Seen from outside every segment is one atomic operation on the disk; a bio as a
\* whole is not.
AtomicSegments == Disk!Spec

\* ... and every bio that is submitted to ram_blk_submit_bio is ended, however many
\* compete for the lock at each of its segments.
KeepsPromise == AtomicSegments /\ Disk!RequestsEnd
=============================================================================
