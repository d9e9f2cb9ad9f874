------------------------------- MODULE MCBudget -------------------------------
(* Three writers of one to three bytes, no cap, and caps that one, two or     *)
(* three of their writes exhaust.                                             *)
EXTENDS Budget, TLC

CONSTANTS t1, t2, t3

MCTasks == {t1, t2, t3}
MCSymmetry == Permutations(MCTasks)
=============================================================================
