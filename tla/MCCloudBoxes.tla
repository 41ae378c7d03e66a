---------------------------- MODULE MCCloudBoxes ----------------------------
(* A second Box and a second key, so that a repeated create would show. *)
EXTENDS CloudBoxes, TLC

CONSTANTS b1, b2, k1, k2

Symmetry == Permutations({b1, b2}) \cup Permutations({k1, k2})
=============================================================================
