---------------------------- MODULE MCUdpListener -----------------------------
(* Three sources against a table of one or two entries, so that it fills,     *)
(* overflows, drains and fills again, with a profile that answers everything   *)
(* or nothing.  An idle time of one tick and a clock that jumps ahead of it     *)
(* behave as one of 0.                                                         *)
EXTENDS UdpListener

CONSTANTS s1, s2, s3

MCSources == {s1, s2, s3}
MCProfiles == {[banner |-> TRUE, rule |-> TRUE], [banner |-> FALSE, rule |-> FALSE]}
\* The end of summer time, or its beginning.
MCClockSteps == {-1, 2}
=============================================================================
