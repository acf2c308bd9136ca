------------------------------- MODULE DriverSteps -------------------------------
(***************************************************************************)
(* The vocabulary of the driver tables: the steps of a probe function      *)
(* (their fields are explained in module ProbeLadder) and the steps that   *)
(* most drivers of this repository have in common.                         *)
(***************************************************************************)
EXTENDS Sequences, TLC

StepRecord(kind, what, undo, err) ==
  [kind |-> kind, what |-> what, undo |-> undo, err |-> err]

Own(r, undo) == StepRecord("own", r, undo, "fails")
Devm(r, undo) == StepRecord("devm", r, undo, "fails")
Try(r, undo) == StepRecord("try", r, undo, "fails")
Ready(r) == StepRecord("ready", r, <<>>, "never")
Drop(r) == StepRecord("drop", r, <<>>, "never")
MayDrop(r) == StepRecord("drop", r, <<>>, "optional")

Sure(step) == [step EXCEPT !.err = "never"]
Ignored(step) == [step EXCEPT !.err = "ignored"]
Binds(step) == [step EXCEPT !.err = "binds"]
Optional(step) == [step EXCEPT !.err = "optional"]

Nothing == [r \in {} |-> {}]
Driver(steps, remove, needs) ==
  [steps |-> steps, remove |-> remove, needs |-> needs, also |-> Nothing, aware |-> {}]

\* The driver data, from devm_kzalloc.
Chip == Devm("chip", <<>>)

\* A character device: number, cdev, class and device node, each step of the ladder
\* undoing those before it, then what the caller undoes.
CharDevice(outer) ==
  <<Own("region", outer),
    Own("cdev", <<"region">> \o outer),
    Own("class", <<"cdev", "region">> \o outer),
    Own("device", <<"class", "cdev", "region">> \o outer)>>

CharDeviceGone == <<"device", "class", "cdev", "region">>
==================================================================================
