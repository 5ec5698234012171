-------------------------- MODULE MCRoleDelegation --------------------------
(* A small instance of RoleDelegation for TLC: a manager and an employee. *)
EXTENDS RoleDelegation, TLC

CONSTANTS admin, lead, m1, m2

MCInit ==
  /\ DelegationInit
  /\ usable = Roles
  /\ deleg = [r \in Roles |-> IF r = admin THEN Roles ELSE {lead}]
  /\ held = [m \in Members |-> IF m = m1 THEN {admin} ELSE {lead}]

MCSpec == MCInit /\ [][DelegationNext]_delegationVars

Symmetry == Permutations(Workers)
=============================================================================
