------------------------ MODULE MCBudgetReservation ------------------------
(* BudgetReservation on small instances: calls of one session.            *)
EXTENDS BudgetReservation, TLC

CONSTANTS c1, c2, c3

MCEstimate == [c \in Calls |-> 1]
MCMixed == [c \in Calls |-> IF c = c1 THEN 2 ELSE 1]
Symmetry == Permutations(Calls)
===========================================================================
