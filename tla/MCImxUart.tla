------------------------------ MODULE MCImxUart ------------------------------
(* Instance of ImxUart for TLC: the environment has one of these budgets. *)
EXTENDS ImxUart

Conf(rs485, dma, before, after, rxDuringTx) ==
  [rs485 |-> rs485, dma |-> dma, before |-> before, after |-> after, rxDuringTx |-> rxDuringTx]

\* A plain line, and RS-485 with all delays, with none, and with the receiver left on.
MCConfs ==
  UNION {{Conf(FALSE, dma, FALSE, FALSE, FALSE), Conf(TRUE, dma, TRUE, TRUE, FALSE),
          Conf(TRUE, dma, FALSE, FALSE, FALSE), Conf(TRUE, dma, TRUE, FALSE, TRUE)} :
         dma \in BOOLEAN}

\* Three bytes and what gets in the way of sending them, or one byte and all of it at once.
Dense == [k \in BudgetKinds |-> IF k = "ops" THEN 0 ELSE 1]
Plain == [k \in BudgetKinds |-> CASE k = "write" -> 3 [] k = "ops" -> 1 [] OTHER -> 0]
MCBudgets ==
  {[Plain EXCEPT ![k] = 1] : k \in {"xchar", "flow", "flush", "termios"}}
    \cup {Dense, [Plain EXCEPT !["ops"] = 2],
          [Plain EXCEPT !["ops"] = 2, !["fail"] = 1, !["write"] = 2], [Plain EXCEPT !["fail"] = 1, !["flow"] = 1]}

=============================================================================
