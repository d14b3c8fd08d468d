--------------------------- MODULE MCAccessPolicy ---------------------------
(* Small instances of AccessPolicy for TLC. *)
EXTENDS AccessPolicy, TLC

Symmetry == Permutations(Projects) \cup Permutations(Requests)
=============================================================================
