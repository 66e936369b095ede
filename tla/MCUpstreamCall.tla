--------------------------- MODULE MCUpstreamCall ---------------------------
(***************************************************************************)
(* Instances of UpstreamCall: a pool of two or three devices, booted on    *)
(* its first.                                                              *)
(***************************************************************************)
EXTENDS UpstreamCall, TLC

CONSTANTS dev01, dev02, dev03, blank

Pool2 == [i \in 0 .. 1 |-> [name |-> <<dev01, dev02>>[i + 1]]]

Pool3 == [i \in 0 .. 2 |-> [name |-> <<dev01, dev02, dev03>>[i + 1]]]

Boot == {[name |-> dev01]}

TaskSymmetry == Permutations(Tasks)
=============================================================================
