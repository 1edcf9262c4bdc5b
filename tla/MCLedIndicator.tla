---------------------------- MODULE MCLedIndicator ----------------------------
(* One task and two blinks: one that loops and one that ends.                  *)
EXTENDS LedIndicator

CONSTANT t1

MCTasks == {t1}
MCLists == [b \in 0 .. 1 |-> IF b = 0 THEN << "hold", "stop" >> ELSE << "hold", "loop" >>]
=============================================================================
