------------------------------ MODULE HeadTail -------------------------------
(***************************************************************************)
(* What a capture of one direction promises, whatever the sizes of the     *)
(* reads it is fed (stream.rs, the comment on top): the front file is the  *)
(* first `head` bytes, the back is the last `tail` of the bytes that came  *)
(* after them, both without a gap, and the moment the head was exceeded is *)
(* known.  All of it is a function of how many bytes went by.              *)
(***************************************************************************)
EXTENDS StreamOps

VARIABLES
  limits,    \* the configured head and tail
  seen,      \* bytes received so far
  front,     \* positions in the head file
  back,      \* positions kept after the head
  exceeded   \* has the head been exceeded?

vars == <<limits, seen, front, back, exceeded>>

FrontOf(l, n) == IF Unlimited(l) THEN Span(1, n) ELSE Span(1, Least(l.head, n))

\* The bytes past the head, of which the last `tail` are kept.
BeyondHead(l, n) == IF Unlimited(l) THEN 0 ELSE SaturatingSub(n, l.head)

BackOf(l, n) == Span(n - Least(l.tail, BeyondHead(l, n)) + 1, n)

Holds(n) ==
  /\ seen = n
  /\ front = FrontOf(limits, n)
  /\ back = BackOf(limits, n)
  /\ exceeded = (BeyondHead(limits, n) > 0)

Init == limits \in Limits /\ Holds(0)

\* More bytes arrive, in a read of any size.
Receive ==
  /\ seen' \in Nat
  /\ seen' > seen
  /\ front' = FrontOf(limits, seen')
  /\ back' = BackOf(limits, seen')
  /\ exceeded' = (BeyondHead(limits, seen') > 0)
  /\ UNCHANGED limits

Spec == Init /\ [][Receive]_vars
=============================================================================
