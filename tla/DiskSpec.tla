--------------------------------- MODULE DiskSpec ---------------------------------
(***************************************************************************)
(* What a block device promises to the processes that submit requests: a   *)
(* request reads or writes a range of sectors, takes effect between its    *)
(* submission and its end, and takes effect                                *)
(*   - at one instant                              when Atomic is TRUE,    *)
(*   - at one instant for each part of the range   when Atomic is FALSE.   *)
(***************************************************************************)
EXTENDS Integers

CONSTANTS
  Procs,       \* who submits requests, one at a time each
  NumSectors,  \* the capacity
  Values,      \* what a sector may hold
  Atomic       \* a whole request takes effect at one instant

Sectors == 0..NumSectors-1

VARIABLES
  mem,   \* the contents of the disk
  busy,  \* a process has a request that has not ended
  req,   \* its last request
  left,  \* the sectors that request has yet to transfer
  buf    \* what its last read has transferred

vars == <<mem, busy, req, left, buf>>

NoValue == "none"

Blank == [s \in Sectors |-> NoValue]

\* The requests the block layer lets through: inside the capacity.
Requests ==
  {r \in [kind : {"read", "write"}, first : Sectors, count : 1..NumSectors,
          value : Values] : r.first + r.count =< NumSectors}

Span(r) == r.first..(r.first + r.count - 1)

Init ==
  /\ mem \in [Sectors -> Values]
  /\ busy = [p \in Procs |-> FALSE]
  /\ req \in [Procs -> Requests]
  /\ left = [p \in Procs |-> {}]
  /\ buf = [p \in Procs |-> Blank]

Begin(p, r) ==
  /\ ~busy[p]
  /\ busy' = [busy EXCEPT ![p] = TRUE]
  /\ req' = [req EXCEPT ![p] = r]
  /\ left' = [left EXCEPT ![p] = Span(r)]
  /\ buf' = [buf EXCEPT ![p] = Blank]
  /\ UNCHANGED mem

\* The sectors of S are transferred together.
Transfer(p, S) ==
  /\ busy[p]
  /\ S # {}
  /\ S \subseteq left[p]
  /\ Atomic => S = left[p]
  /\ left' = [left EXCEPT ![p] = @ \ S]
  /\ IF req[p].kind = "write"
     THEN /\ mem' = [s \in Sectors |-> IF s \in S THEN req[p].value ELSE mem[s]]
          /\ UNCHANGED buf
     ELSE /\ buf' = [buf EXCEPT ![p] =
                       [s \in Sectors |-> IF s \in S THEN mem[s] ELSE @[s]]]
          /\ UNCHANGED mem
  /\ UNCHANGED <<busy, req>>

End(p) ==
  /\ busy[p]
  /\ left[p] = {}
  /\ busy' = [busy EXCEPT ![p] = FALSE]
  /\ UNCHANGED <<mem, req, left, buf>>

Next ==
  \E p \in Procs :
    \/ \E r \in Requests : Begin(p, r)
    \/ \E S \in SUBSET Sectors : Transfer(p, S)
    \/ End(p)

Spec == Init /\ [][Next]_vars

\* ... and no request is forgotten.
RequestsEnd == \A p \in Procs : busy[p] ~> ~busy[p]
=============================================================================
