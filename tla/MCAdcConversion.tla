------------------------------ MODULE MCAdcConversion ------------------------------
(* Instance of AdcConversion for TLC with a clock limit and a sampling time that need *)
(* the longest divider and the longest sampling time, in one mode.                    *)
EXTENDS AdcConversion

CONSTANT u1

OneUser == {u1}
OneChannel == {2}
OneRate == {3}
SlowNormal == [m \in conv_modes |-> IF m = "normal" THEN 4000000 ELSE 20000000]
====================================================================================
