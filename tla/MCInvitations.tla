--------------------------- MODULE MCInvitations ---------------------------
(* A small instance of Invitations for TLC. *)
EXTENDS Invitations, TLC

Symmetry == Permutations(Invitations) \cup Permutations(Workers)
=============================================================================
