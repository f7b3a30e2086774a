------------------------- MODULE MCCommandDelivery -------------------------
(* Small instances of CommandDelivery. *)
EXTENDS CommandDelivery, TLC

CONSTANTS c1, c2, s1, s2, s3

Symmetry == Permutations({c1, c2}) \cup Permutations({s1, s2})
=============================================================================
