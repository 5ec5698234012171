--------------------------- MODULE MCCompanyTree ---------------------------
(* A small instance of CompanyTree for TLC. *)
EXTENDS CompanyTree, TLC

Symmetry == Permutations(Companies \ {Root}) \cup Permutations(Workers)
=============================================================================
