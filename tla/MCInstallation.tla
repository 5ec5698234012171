--------------------------- MODULE MCInstallation ---------------------------
(* A small instance of Installation for TLC: no symmetry, which liveness     *)
(* does not allow.                                                           *)
EXTENDS Installation
=============================================================================
