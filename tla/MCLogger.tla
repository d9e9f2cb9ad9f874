------------------------------- MODULE MCLogger -------------------------------
(* Two connections that send a few bytes between them, in either direction,  *)
(* under captures with and without a ring, with the raw files or the index    *)
(* off, and under caps that let everything, some or almost nothing through.   *)
EXTENDS Logger, TLC

CONSTANTS c1, c2

MCTasks == {c1, c2}
MCSymmetry == Permutations(MCTasks)

Ring == [raw |-> TRUE, jsonl |-> TRUE, limits |-> [head |-> 1, tail |-> 1]]
HeadOnly == [Ring EXCEPT !.limits = [head |-> 1, tail |-> 0]]
RawOnly == [raw |-> TRUE, jsonl |-> FALSE, limits |-> [head |-> 0, tail |-> 0]]
IndexOnly == [HeadOnly EXCEPT !.raw = FALSE]

MCOptions == {Ring, RawOnly, IndexOnly}
MCHeadOnly == {HeadOnly}
=============================================================================
