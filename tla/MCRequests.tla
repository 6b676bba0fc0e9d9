----------------------------- MODULE MCRequests -----------------------------
(* A small instance of Requests for TLC: a file of three ranges, another of *)
(* its length and one that is longer.                                       *)
EXTENDS Requests

ThreeRanges == {0, 1, 3}

ThreeFiles == [part1 |-> 4, part2 |-> 4, other |-> 5]
=============================================================================
