--------------------------- MODULE MCCaptureStream ----------------------------
(* A stream of up to eight bytes under every kind of limits: none, a head    *)
(* only, a head with a ring shorter, as long and longer than some reads.     *)
EXTENDS CaptureStream

MCLimits == [head : {0, 1, 2, 3}, tail : {0, 1, 2, 3}]
=============================================================================
