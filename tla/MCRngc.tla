--------------------------------- MODULE MCRngc ---------------------------------
(* Instance of Rngc for TLC: its constants are plain values of the .cfg files.  *)
EXTENDS Rngc
=============================================================================
