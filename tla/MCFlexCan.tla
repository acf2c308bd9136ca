------------------------------- MODULE MCFlexCan -------------------------------
(* Instances of FlexCan for TLC: the environment has one of these budgets. *)
EXTENDS FlexCan

Budget(tx, rxn, err, oom, ack, ops) ==
  [tx |-> tx, rx |-> rxn, err |-> err, oom |-> oom, ack |-> ack, ctl |-> ops]

\* Sending through errors, a bus off and its restart; the same across a suspend, with a
\* failure of each kind, and with a close; receiving more than the mailboxes hold while
\* sending; receiving while the chip is reset after a bus off, with errors before the
\* interrupts are on again; a frame received about the bus off, whose interrupt sees it
\* while the restart runs.
SomeBudgets ==
  {Budget(3, 0, 4, 0, 0, 1), Budget(3, 0, 3, 0, 0, 2), Budget(2, 0, 3, 1, 1, 2),
   Budget(2, 0, 3, 0, 0, 3), Budget(1, 4, 0, 1, 0, 1), Budget(1, 2, 5, 0, 0, 1),
   Budget(3, 1, 3, 0, 0, 1)}

TwoMailboxes == {0, 1}
=============================================================================
