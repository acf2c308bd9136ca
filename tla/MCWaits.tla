---------------------------------- MODULE MCWaits ----------------------------------
(***************************************************************************)
(* Instance for TLC of the two drivers whose caller waits for the          *)
(* interrupt of a conversion or an operation, or gives up: the generator   *)
(* and the converter.  They share nothing, so a behaviour is one of one    *)
(* driver while the other idles.  The converter has the clocks of the      *)
(* device tree of the i.MX6ULL.                                            *)
(***************************************************************************)
EXTENDS Rngc, AdcConversion

CONSTANTS u1, u2

TwoUsers == {u1, u2}
TwoChannels == {2, 4}
SomeRates == {0, 3}
MaxRates == [m \in conv_modes |-> CASE m = "normal" -> 30000000
                                    [] m = "high-speed" -> 40000000
                                    [] m = "low-power" -> 20000000]

VARIABLE driver  \* the driver that is used

WaitsInit == driver \in {"rngc", "adc"} /\ RngcInit /\ Init

WaitsNext ==
  \/ driver = "rngc" /\ RngcNext /\ UNCHANGED <<driver, vars>>
  \/ driver = "adc" /\ Next /\ UNCHANGED <<driver, rngcVars>>

\* Each driver's own fairness, on the behaviours that use it.
WaitsFairness ==
  /\ WF_rngcVars(driver = "rngc" /\ DriverStep) /\ WF_rngcVars(driver = "rngc" /\ Irq)
  /\ Fairness

WaitsSpec ==
  WaitsInit /\ [][WaitsNext]_<<driver, rngcVars, vars>> /\ WaitsFairness
====================================================================================
