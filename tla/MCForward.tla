------------------------------- MODULE MCForward -------------------------------
(* Three bytes each way through buffers of two: a pump reads one or two at a  *)
(* time, and has to wait for room.                                            *)
EXTENDS Forward
=============================================================================
