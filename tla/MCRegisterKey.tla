--------------------------- MODULE MCRegisterKey ---------------------------
(***************************************************************************)
(* An instance of RegisterKey.  Two shards, the versions of a fingerprint  *)
(* spread over them, so that a walk can miss what moves behind it.  One    *)
(* device is served two versions, one of them numbered 0, and the other    *)
(* one; entries expire after two ticks.                                    *)
(***************************************************************************)
EXTENDS RegisterKey, TLC

CONSTANTS fpA, fpB

MCShardOf == [k \in Keys |-> k[2] % Shards]

MCServes == [fp \in Fingerprints |-> IF fp = fpA THEN {0, 1} ELSE {1}]

TaskSymmetry == Permutations(Tasks)
=============================================================================
