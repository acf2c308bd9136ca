-------------------------------- MODULE MCAgent --------------------------------
(* Instance of Agent for TLC: two dials, two requests per link.            *)
EXTENDS Agent

\* A collect, which may succeed or fail; the other kinds take the same way.
SomeKinds == {"collect"}
=============================================================================
