-------------------------- MODULE SessionContract --------------------------
(***************************************************************************)
(* What app/services/sessions.py promises about refresh tokens, without    *)
(* Redis, commands or requests: a session is opened once, at any moment    *)
(* one secret is good for it, that secret can be exchanged for a new one   *)
(* and is then spent, and a closed session stays closed.                   *)
(***************************************************************************)
CONSTANTS
  Sids,     \* session ids
  Secrets,  \* refresh secrets
  None      \* no secret: not one of Secrets

VARIABLES
  current,  \* the secret a session accepts, None when it is not open
  opened,   \* the sessions opened so far
  issued,   \* the secrets handed to some session so far
  spent     \* the secrets exchanged so far

vars == <<current, opened, issued, spent>>

Init ==
  /\ current = [sid \in Sids |-> None]
  /\ opened = {}
  /\ issued = {}
  /\ spent = {}

(* A new session with a new secret. *)
Open(sid, secret) ==
  /\ sid \notin opened
  /\ secret \notin issued
  /\ current' = [current EXCEPT ![sid] = secret]
  /\ opened' = opened \cup {sid}
  /\ issued' = issued \cup {secret}
  /\ UNCHANGED spent

(* The current secret of a session is exchanged for a new one. *)
Exchange(sid, new) ==
  /\ current[sid] # None
  /\ new \notin issued
  /\ current' = [current EXCEPT ![sid] = new]
  /\ issued' = issued \cup {new}
  /\ spent' = spent \cup {current[sid]}
  /\ UNCHANGED opened

(* Sessions end: logout, removal, logout everywhere, or expiry. *)
Close(sids) ==
  /\ current' = [sid \in Sids |-> IF sid \in sids THEN None ELSE current[sid]]
  /\ UNCHANGED <<opened, issued, spent>>

Next ==
  \/ \E sid \in Sids, secret \in Secrets : Open(sid, secret) \/ Exchange(sid, secret)
  \/ \E sids \in SUBSET Sids : Close(sids)

Spec == Init /\ [][Next]_vars
=============================================================================
