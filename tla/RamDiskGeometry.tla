------------------------------ MODULE RamDiskGeometry ------------------------------
(***************************************************************************)
(* What the two RAM disks (13.block_dev) have in common: a memory of so    *)
(* many sectors, and the pages the submitter of a read brings along.  A    *)
(* segment is one sector in both models.                                   *)
(***************************************************************************)
EXTENDS Integers

CONSTANTS
  Procs,       \* the submitters
  NumSectors,  \* DISK_SECTORS_TOTAL
  Values       \* what a sector may hold

ASSUME DiskAssumption == NumSectors \in Nat \ {0}

Sectors == 0..NumSectors-1

NoValue == "none"
Blank == [s \in Sectors |-> NoValue]
=============================================================================
