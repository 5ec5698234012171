----------------------- MODULE MCOrganizationalUnits -----------------------
(* A small instance of OrganizationalUnits for TLC. *)
EXTENDS OrganizationalUnits
=============================================================================
