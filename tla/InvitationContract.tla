------------------------- MODULE InvitationContract -------------------------
(***************************************************************************)
(* What app/services/invitations.py promises, without transactions, locks  *)
(* or requests: an invitation is issued by one company, is taken by one    *)
(* user or revoked, and never changes again; taking it and becoming a      *)
(* member (and, for a newcomer, getting an account) is one step.           *)
(***************************************************************************)
CONSTANTS
  Companies, Users, Invitations,
  None,   \* no company, no user, no membership
  Direct  \* where a membership that no invitation made comes from

VARIABLES
  accounts,  \* the users with an account
  origin,    \* what each membership was made by
  issuer,    \* the company of each invitation
  taker,     \* who took it
  revoked    \* the invitations taken back

vars == <<accounts, origin, issuer, taker, revoked>>

Init ==
  /\ accounts \in SUBSET Users
  /\ origin = [u \in Users |-> [c \in Companies |-> None]]
  /\ issuer = [i \in Invitations |-> None]
  /\ taker = [i \in Invitations |-> None]
  /\ revoked = {}

(* Issued, and neither taken nor revoked. *)
Open(i) == issuer[i] # None /\ taker[i] = None /\ i \notin revoked

Issue(i, c) ==
  /\ issuer[i] = None
  /\ issuer' = [issuer EXCEPT ![i] = c]
  /\ UNCHANGED <<accounts, origin, taker, revoked>>

(* A user without a membership takes an open invitation. *)
Take(i, u) ==
  /\ Open(i)
  /\ origin[u][issuer[i]] = None
  /\ accounts' = accounts \cup {u}
  /\ origin' = [origin EXCEPT ![u] = [@ EXCEPT ![issuer[i]] = i]]
  /\ taker' = [taker EXCEPT ![i] = u]
  /\ UNCHANGED <<issuer, revoked>>

Revoke(i) ==
  /\ Open(i)
  /\ revoked' = revoked \cup {i}
  /\ UNCHANGED <<accounts, origin, issuer, taker>>

(* A company adds a user itself. *)
Add(u, c) ==
  /\ u \in accounts
  /\ origin[u][c] = None
  /\ origin' = [origin EXCEPT ![u] = [@ EXCEPT ![c] = Direct]]
  /\ UNCHANGED <<accounts, issuer, taker, revoked>>

Next ==
  \/ \E i \in Invitations : Revoke(i)
  \/ \E i \in Invitations, c \in Companies : Issue(i, c)
  \/ \E i \in Invitations, u \in Users : Take(i, u)
  \/ \E u \in Users, c \in Companies : Add(u, c)

Spec == Init /\ [][Next]_vars
=============================================================================
