-------------------------------- MODULE Spans ---------------------------------
(***************************************************************************)
(* A byte is named by its position in the stream it belongs to, 1 for the  *)
(* first one: what is consecutive in the program is a span of positions.   *)
(***************************************************************************)
EXTENDS Integers, Sequences

\* The positions a, a+1, ..., b in order; empty when b < a.
Span(a, b) == [i \in 1 .. b - a + 1 |-> a + i - 1]
===============================================================================
