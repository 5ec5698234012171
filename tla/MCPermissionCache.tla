------------------------- MODULE MCPermissionCache -------------------------
(* A small instance of PermissionCache for TLC: a company with a system      *)
(* administrator and a member who holds an ordinary role.                    *)
EXTENDS PermissionCache

MCInit ==
  /\ CacheInit
  /\ enabled = Members
  /\ usable = Roles
  /\ held = [m \in Members |-> IF m \in Admins THEN {SystemRole} ELSE Roles \ {SystemRole}]
  /\ grant = [r \in Roles |-> Company]
  /\ override = [m \in Members |-> None]

MCSpec == MCInit /\ [][CacheNext]_cacheVars /\ Fairness
=============================================================================
