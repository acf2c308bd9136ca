-------------------------------- MODULE MCFailures --------------------------------
(***************************************************************************)
(* Instance for TLC of the two models in which calls fail: the resources   *)
(* of every driver of the tables from probe to release, and the pwm fan    *)
(* once it is bound.  They share nothing, so a behaviour is one of one of  *)
(* them while the other idles.  The fan has three cooling states and a     *)
(* speed between two levels.                                               *)
(***************************************************************************)
EXTENDS ProbeLadder, CharDrivers, SubsystemDrivers, SessionDrivers, PwmFan

Drivers == CharTable @@ SubsystemTable @@ SessionTable

Leaks == SubsystemLeaks \cup SessionLeaks
Doubles == SubsystemDoubles \cup SessionDoubles
Missing == CharMissing \cup SubsystemMissing \cup SessionMissing
Bare == CharBare \cup SubsystemBare

\* The premises of the theorems of ProbeLadder_proofs hold of the tables.
ASSUME LaddersAssumption == LaddersReturn
ASSUME ProbesAssumption == ProbesKeep
ASSUME ReleasesAssumption == ReleasesHold
ASSUME PathsAssumption == PathsServe

CONSTANTS u1, u2, thermal

TwoUsers == {u1, u2}
ThreeLevels == <<0, 100, 255>>
SomeSpeeds == {0, 60, 255}

VARIABLE model  \* the model that is used

\* The one that is not used starts in one of its initial states.
FailuresInit ==
  /\ model \in {"ladder", "fan"}
  /\ Init /\ (model = "fan" => driver = CHOOSE d \in DOMAIN Table : TRUE)
  /\ FanInit /\ (model = "ladder" => ~fan.supply)

FailuresNext ==
  \/ model = "ladder" /\ Next /\ UNCHANGED <<model, fanVars>>
  \/ model = "fan" /\ FanNext /\ UNCHANGED <<model, vars>>

FailuresSpec == FailuresInit /\ [][FailuresNext]_<<model, vars, fanVars>>
===================================================================================
