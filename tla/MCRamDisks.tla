------------------------------- MODULE MCRamDisks -------------------------------
(***************************************************************************)
(* Instance of both RAM disks for TLC.  They share nothing, so a behaviour *)
(* is one of the queue disk or one of the bio disk, and the other is idle. *)
(***************************************************************************)
EXTENDS RamDiskQueue

CONSTANTS p1, p2, a, b

TwoProcs == {p1, p2}
TwoValues == {a, b}

VARIABLES bioMem, bioCursor, bioLock, bioPc, bioReq, bioSector, bioBuf,
          disk  \* the disk that is used

Bio == INSTANCE RamDiskBio WITH
  mem <- bioMem, cursor <- bioCursor, lock <- bioLock, pc <- bioPc, req <- bioReq,
  sector <- bioSector, buf <- bioBuf

bioVars == <<bioMem, bioCursor, bioLock, bioPc, bioReq, bioSector, bioBuf>>

\* The disk that is not used starts in one of its initial states.
SomeRequest == CHOOSE r \in Requests : r.value = a
QueueIdle == req = [p \in Procs |-> SomeRequest] /\ mem = [s \in Sectors |-> a]
BioIdle == bioReq = [p \in Procs |-> SomeRequest] /\ bioMem = [s \in Sectors |-> a]

\* The value of a read means nothing: one is enough.
OneRead ==
  \A p \in Procs : /\ req[p].kind = "read" => req[p].value = a
                   /\ bioReq[p].kind = "read" => bioReq[p].value = a

DisksInit ==
  /\ disk \in {"queue", "bio"}
  /\ Init /\ (disk = "bio" => QueueIdle)
  /\ Bio!Init /\ (disk = "queue" => BioIdle)
  /\ OneRead

DisksNext ==
  \/ disk = "queue" /\ Next /\ UNCHANGED <<disk, bioVars>> /\ OneRead'
  \/ disk = "bio" /\ Bio!Next /\ UNCHANGED <<disk, vars>> /\ OneRead'

DisksSpec ==
  DisksInit /\ [][DisksNext]_<<disk, vars, bioVars>> /\ Fairness /\ Bio!Fairness

\* Seen from outside every segment of a bio of ram_blk_submit_bio is one atomic
\* operation on the disk, although the lock is dropped between two segments, and
\* every bio is ended: the loop over its segments advances.
BioKeepsPromise == Bio!KeepsPromise
=============================================================================
