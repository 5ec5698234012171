---------------------------- MODULE Memberships ----------------------------
(***************************************************************************)
(* What the models of roles and of permissions share: the rows of          *)
(* membership_roles and the state of roles (models/membership_roles.py,    *)
(* models/roles.py), in one company.                                       *)
(***************************************************************************)
EXTENDS Handlers

CONSTANTS
  Members,  \* memberships of the company
  Roles     \* its roles

VARIABLES
  usable,  \* the roles with is_active
  held     \* held[m]: the committed rows of membership_roles

(* The memberships a role is assigned to.                                    *)
Holders(r) == {m \in Members : r \in held[m]}
=============================================================================
