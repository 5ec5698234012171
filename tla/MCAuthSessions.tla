--------------------------- MODULE MCAuthSessions ---------------------------
(* A small instance of AuthSessions for TLC. *)
EXTENDS AuthSessions, TLC

Symmetry == Permutations(Users) \cup Permutations(Sids)
            \cup Permutations(Secrets) \cup Permutations(Workers)
=============================================================================
