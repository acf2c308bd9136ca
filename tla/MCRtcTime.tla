--------------------------------- MODULE MCRtcTime ---------------------------------
(* Instance of RtcTime for TLC: times at which all the fields carry.               *)
EXTENDS RtcTime

At(y, m, d, h, mi, s) ==
  Mktime([year |-> y - 1900, mon |-> m - 1, mday |-> d, hour |-> h, min |-> mi, sec |-> s])

BeforeCarry == {At(2023, 12, 31, 23, 59, 58), At(2024, 2, 28, 23, 59, 58)}
SomeTimes == {At(2099, 12, 31, 23, 59, 59), At(2000, 2, 29, 9, 30, 0)}
====================================================================================
