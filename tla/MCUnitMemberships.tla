------------------------- MODULE MCUnitMemberships -------------------------
(* A small instance of UnitMemberships for TLC. *)
EXTENDS UnitMemberships, TLC

Symmetry == Permutations(Units) \cup Permutations(Workers)
=============================================================================
