-------------------------------- MODULE Relay ---------------------------------
(***************************************************************************)
(* What forwarding promises of one direction ("each direction runs to its  *)
(* own EOF", tcp.rs:224): the destination reads the source's bytes, all of *)
(* them, in order and once, and reads an EOF only after the last one of a  *)
(* source that ended.  Only a connection that broke may end earlier.       *)
(***************************************************************************)
EXTENDS Integers, Sequences

VARIABLES
  sent,       \* bytes the source has sent, numbered from 1
  ended,      \* has the source ended its side?
  broken,     \* has either end reset, or never been reached?
  delivered,  \* the bytes the destination has read
  told        \* has the destination read EOF?

relayVars == <<sent, ended, broken, delivered, told>>

Init ==
  /\ sent = 0
  /\ delivered = <<>>
  /\ ended = FALSE /\ broken = FALSE /\ told = FALSE

Send ==
  /\ ~ended
  /\ sent' = sent + 1
  /\ UNCHANGED <<ended, broken, delivered, told>>

End == ended' = TRUE /\ UNCHANGED <<sent, broken, delivered, told>>

\* A reset, of the source itself (which ends its side) or of the destination.
Break ==
  /\ broken' = TRUE
  /\ ended' \in {ended, TRUE}
  /\ UNCHANGED <<sent, delivered, told>>

Deliver ==
  /\ ~told
  /\ Len(delivered) < sent
  /\ delivered' = Append(delivered, Len(delivered) + 1)
  /\ UNCHANGED <<sent, ended, broken, told>>

Tell ==
  /\ broken \/ (ended /\ Len(delivered) = sent)
  /\ told' = TRUE
  /\ UNCHANGED <<sent, ended, broken, delivered>>

Next == Send \/ End \/ Break \/ Deliver \/ Tell

Spec == Init /\ [][Next]_relayVars
=============================================================================
