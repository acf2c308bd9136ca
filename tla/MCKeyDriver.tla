------------------------------ MODULE MCKeyDriver ------------------------------
(* Instance of KeyDriver for TLC: one blocking and one non-blocking reader.     *)
EXTENDS KeyDriver

CONSTANTS r1, r2

TwoReaders == {r1, r2}
OneNonBlocking == {r2}
=============================================================================
