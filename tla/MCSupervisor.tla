----------------------------- MODULE MCSupervisor ------------------------------
(* Three listeners: one can fail, one panic and one stay up at the same time.  *)
EXTENDS Supervisor

CONSTANTS l1, l2, l3

MCListeners == {l1, l2, l3}
=============================================================================
