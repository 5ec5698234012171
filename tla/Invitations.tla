----------------------------- MODULE Invitations -----------------------------
(***************************************************************************)
(* Company invitations: app/services/invitations.py as the handlers of     *)
(* app/api/v1/invitations.py call it, over the tables company_invitations, *)
(* users and company_memberships.                                          *)
(*                                                                         *)
(* A request locks the invitation's row (SELECT ... FOR UPDATE), decides   *)
(* on its status, and changes it in the same transaction. The company is   *)
(* read without a lock, and the password of a newcomer is hashed between   *)
(* the decision and the inserts, so the clock and the company move on in   *)
(* between. The unique keys (users.username; user and company of a         *)
(* membership) make an insert wait for an uncommitted one with the same    *)
(* key.                                                                    *)
(*                                                                         *)
(* Abstracted: tokens (one per invitation; an unknown one is answered 404  *)
(* and changes nothing), the employee details, which are copied with the   *)
(* membership and stand here as `origin`, permissions, and listings.       *)
(***************************************************************************)
EXTENDS Naturals

CONSTANTS
  Companies, Users, Invitations, Workers,
  FirstUsers,  \* the accounts that exist at the start
  None,        \* no company, user, membership or worker
  Direct       \* a membership that no invitation made

ASSUME FirstUsersAssumption == FirstUsers \subseteq Users
ASSUME NoneAssumption ==
  None \notin Companies \cup Users \cup Invitations \cup Workers \cup {Direct}
ASSUME DirectAssumption == Direct \notin Invitations

VARIABLES
  accounts,  \* the rows of users
  origin,    \* origin[u][c]: the invitation whose data the membership carries
  active,    \* the companies with is_active
  issuer,    \* company_id of each invitation
  taker,     \* accepted_by_user_id (accepted_at is written with it)
  revoked,   \* the invitations with revoked_at
  expired,   \* those whose expires_at has passed
  locks,     \* who holds the row lock of each invitation
  req        \* the request each worker runs

vars == <<accounts, origin, active, issuer, taker, revoked, expired, locks, req>>
rows == <<accounts, origin, issuer, taker, revoked>>

Ops == {"new", "existing", "revoke"}
Pcs == {"idle", "lock", "check", "insert", "commit"}
Answers == {"nothing", "ok", "revoked", "accepted", "expired", "taken", "unavailable"}

Requests == [pc : Pcs, op : Ops, inv : Invitations \cup {None},
             user : Users \cup {None}, said : Answers]

Idle == [pc |-> "idle", op |-> "revoke", inv |-> None, user |-> None, said |-> "nothing"]

At(w, pc) == req[w].pc = pc

Init ==
  /\ accounts = FirstUsers
  /\ origin = [u \in Users |-> [c \in Companies |-> None]]
  /\ active = Companies
  /\ issuer = [i \in Invitations |-> None]
  /\ taker = [i \in Invitations |-> None]
  /\ revoked = {}
  /\ expired = {}
  /\ locks = [i \in Invitations |-> None]
  /\ req = [w \in Workers |-> Idle]

-----------------------------------------------------------------------------
(* Helpers *)

(* Variant for mutation: the expiry is looked at first. *)
StatusExpiredFirst(i) ==
  IF i \in expired THEN "expired"
  ELSE IF i \in revoked THEN "revoked"
  ELSE IF taker[i] # None THEN "accepted"
  ELSE "pending"

(* get_invitation_status *)
Status(i) ==
  IF i \in revoked THEN "revoked"
  ELSE IF taker[i] # None THEN "accepted"
  ELSE IF i \in expired THEN "expired"
  ELSE "pending"

(* Variant for mutation: the SELECT is not FOR UPDATE. *)
LockableAlways(i) == i \in Invitations

Lockable(i) == locks[i] = None

(* The end of a transaction gives its row locks back. *)
Released(w) == [i \in Invitations |-> IF locks[i] = w THEN None ELSE locks[i]]

(* The row a request is about to insert is there already. *)
Taken(w) ==
  \/ req[w].op = "new" /\ req[w].user \in accounts
  \/ req[w].op = "existing" /\ origin[req[w].user][issuer[req[w].inv]] # None

(* Two requests insert the same unique key. *)
Clash(w, v) ==
  /\ req[w].op # "revoke"
  /\ req[w].op = req[v].op
  /\ req[w].user = req[v].user
  /\ req[w].op = "existing" => issuer[req[w].inv] = issuer[req[v].inv]

(* Variant for mutation: there is no unique constraint. *)
KeyFreeAlways(w) == w \in Workers

(* No other transaction has inserted the key and not ended yet. *)
KeyFree(w) == \A v \in Workers \ {w} : At(v, "commit") => ~Clash(w, v)

Goto(w, pc) == req' = [req EXCEPT ![w] = [@ EXCEPT !.pc = pc]]

(* The transaction of w ends and the client gets an answer. *)
End(w, answer) ==
  /\ req' = [req EXCEPT ![w] = [@ EXCEPT !.pc = "idle", !.said = answer]]
  /\ locks' = Released(w)

-----------------------------------------------------------------------------
(* Requests *)

(* create_invitation, in the context of an active company. *)
Issue(i, c) ==
  /\ issuer[i] = None
  /\ c \in active
  /\ issuer' = [issuer EXCEPT ![i] = c]
  /\ UNCHANGED <<accounts, origin, active, taker, revoked, expired, locks, req>>

(* accept_invitation_for_new_user, accept_invitation_for_existing_user and   *)
(* revoke_invitation begin. An existing user is logged in, so has an account.*)
Ask(w, op, i, u) ==
  /\ At(w, "idle")
  /\ issuer[i] # None
  /\ op = "existing" => u \in accounts
  /\ req' = [req EXCEPT ![w] = [pc |-> "lock", op |-> op, inv |-> i, user |-> u,
                                said |-> "nothing"]]
  /\ UNCHANGED <<rows, active, expired, locks>>

(* _lock_pending_invitation: the row lock, then the status, then the company. *)
Lock(w) ==
  LET i == req[w].inv
  IN  /\ At(w, "lock")
      /\ req[w].op # "revoke"
      /\ Lockable(i)
      /\ \/ /\ Status(i) = "pending"
            /\ issuer[i] \in active
            /\ locks' = [locks EXCEPT ![i] = w]
            /\ Goto(w, "check")
         \/ /\ Status(i) = "pending"
            /\ issuer[i] \notin active
            /\ End(w, "unavailable")
         \/ /\ Status(i) # "pending"
            /\ End(w, Status(i))
      /\ UNCHANGED <<rows, active, expired>>

(* revoke_invitation locks the row too; a second revoke is answered as one.  *)
LockToRevoke(w) ==
  LET i == req[w].inv
  IN  /\ At(w, "lock")
      /\ req[w].op = "revoke"
      /\ Lockable(i)
      /\ \/ /\ Status(i) = "pending"
            /\ locks' = [locks EXCEPT ![i] = w]
            /\ Goto(w, "commit")
         \/ /\ Status(i) = "revoked"
            /\ End(w, "ok")
         \/ /\ Status(i) \in {"accepted", "expired"}
            /\ End(w, Status(i))
      /\ UNCHANGED <<rows, active, expired>>

(* get_user_by_username, get_company_membership_by_user. *)
Check(w) ==
  /\ At(w, "check")
  /\ \/ Taken(w) /\ End(w, "taken")
     \/ ~Taken(w) /\ Goto(w, "insert") /\ UNCHANGED locks
  /\ UNCHANGED <<rows, active, expired>>

(* create_user and create_company_membership: each waits for the key, and is *)
(* refused (IntegrityError) when the transaction it waited for committed.    *)
Insert(w) ==
  /\ At(w, "insert")
  /\ KeyFree(w)
  /\ \/ Taken(w) /\ End(w, "taken")
     \/ ~Taken(w) /\ Goto(w, "commit") /\ UNCHANGED locks
  /\ UNCHANGED <<rows, active, expired>>

(* The account, the membership with the invitation's details, accepted_at    *)
(* and accepted_by_user_id are committed together. The refresh that follows  *)
(* can fail: the client is then told nothing.                                *)
Accept(w) ==
  LET i == req[w].inv
      u == req[w].user
  IN  /\ At(w, "commit")
      /\ req[w].op # "revoke"
      /\ accounts' = accounts \cup {u}
      /\ origin' = [origin EXCEPT ![u] = [@ EXCEPT ![issuer[i]] = i]]
      /\ taker' = [taker EXCEPT ![i] = u]
      /\ \E answer \in {"ok", "nothing"} : End(w, answer)
      /\ UNCHANGED <<issuer, revoked, active, expired>>

Revoke(w) ==
  /\ At(w, "commit")
  /\ req[w].op = "revoke"
  /\ revoked' = revoked \cup {req[w].inv}
  /\ \E answer \in {"ok", "nothing"} : End(w, answer)
  /\ UNCHANGED <<accounts, origin, issuer, taker, active, expired>>

(* The client goes away, the connection breaks or a statement fails: the     *)
(* transaction is rolled back and nobody is answered.                        *)
CutOff(w) ==
  /\ ~At(w, "idle")
  /\ End(w, "nothing")
  /\ UNCHANGED <<rows, active, expired>>

-----------------------------------------------------------------------------
(* The rest of the application, and time *)

(* add_user_to_company, add_scoped_user_to_company: their insert waits for   *)
(* the uncommitted membership of an acceptance.                              *)
Add(u, c) ==
  /\ u \in accounts
  /\ origin[u][c] = None
  /\ \A v \in Workers :
       At(v, "commit") /\ req[v].op = "existing" /\ req[v].user = u => issuer[req[v].inv] # c
  /\ origin' = [origin EXCEPT ![u] = [@ EXCEPT ![c] = Direct]]
  /\ UNCHANGED <<accounts, active, issuer, taker, revoked, expired, locks, req>>

(* A company is deactivated or reactivated. *)
SwitchCompany(c) ==
  /\ active' = IF c \in active THEN active \ {c} ELSE active \cup {c}
  /\ UNCHANGED <<rows, expired, locks, req>>

(* expires_at passes: at least an hour after the invitation was issued. *)
Expire(i) ==
  /\ issuer[i] # None
  /\ i \notin expired
  /\ expired' = expired \cup {i}
  /\ UNCHANGED <<rows, active, locks, req>>

Next ==
  \/ \E i \in Invitations, c \in Companies : Issue(i, c)
  \/ \E w \in Workers, i \in Invitations, u \in Users :
       Ask(w, "new", i, u) \/ Ask(w, "existing", i, u)
  \/ \E w \in Workers, i \in Invitations : Ask(w, "revoke", i, None)
  \/ \E w \in Workers : Lock(w)
  \/ \E w \in Workers : LockToRevoke(w)
  \/ \E w \in Workers : Check(w)
  \/ \E w \in Workers : Insert(w)
  \/ \E w \in Workers : Accept(w)
  \/ \E w \in Workers : Revoke(w)
  \/ \E w \in Workers : CutOff(w)
  \/ \E u \in Users, c \in Companies : Add(u, c)
  \/ \E c \in Companies : SwitchCompany(c)
  \/ \E i \in Invitations : Expire(i)

Spec == Init /\ [][Next]_vars

-----------------------------------------------------------------------------
(* Properties *)

(* Types; only an issued invitation is taken, revoked, expired or asked for. *)
TypeOK ==
  /\ accounts \in SUBSET Users
  /\ origin \in [Users -> [Companies -> Invitations \cup {None, Direct}]]
  /\ active \in SUBSET Companies
  /\ issuer \in [Invitations -> Companies \cup {None}]
  /\ taker \in [Invitations -> Users \cup {None}]
  /\ revoked \in SUBSET Invitations
  /\ expired \in SUBSET Invitations
  /\ locks \in [Invitations -> Workers \cup {None}]
  /\ req \in [Workers -> Requests]

(* The request of w holds the lock of its invitation. *)
Holding(w) == req[w].pc \in {"check", "insert", "commit"}

(* A request past its lock still sees what it decided on: the row is locked  *)
(* by it, neither taken nor revoked, and the key it inserted is its own.     *)
HolderOK(w) ==
  /\ ~At(w, "idle") => req[w].inv \in Invitations /\ issuer[req[w].inv] # None
  /\ ~At(w, "idle") /\ req[w].op # "revoke" => req[w].user \in Users
  /\ req[w].op = "existing" => req[w].user \in accounts
  /\ Holding(w) =>
       /\ locks[req[w].inv] = w
       /\ taker[req[w].inv] = None
       /\ req[w].inv \notin revoked
  /\ At(w, "commit") => ~Taken(w) /\ KeyFree(w)

(* One invitation, one membership: the memberships that carry the data of an *)
(* invitation are exactly its taker's in its company, and a revoked one has  *)
(* no taker (test_same_invitation_cannot_be_consumed_concurrently,           *)
(* test_new_user_acceptance_is_atomic_and_cannot_be_reused).                 *)
OneMembershipPerInvitation ==
  \A i \in Invitations :
    /\ i \in revoked => taker[i] = None
    /\ taker[i] # None => issuer[i] # None
    /\ \A u \in Users, c \in Companies :
         origin[u][c] = i <=> taker[i] = u /\ issuer[i] = c

(* What a client was told stays true: an acceptance or revocation that was   *)
(* confirmed is not undone, a refusal had its reason, and an invitation      *)
(* somebody found expired is never taken or revoked by a request that        *)
(* decided earlier.                                                          *)
SaidOK(w) ==
  LET i == req[w].inv
      u == req[w].user
      said(answer) == req[w].said = answer
  IN  /\ said("ok") /\ req[w].op # "revoke" =>
           taker[i] = u /\ u \in accounts /\ origin[u][issuer[i]] = i
      /\ said("ok") /\ req[w].op = "revoke" => i \in revoked
      /\ said("revoked") => i \in revoked
      /\ said("accepted") => taker[i] # None
      /\ said("expired") => i \in expired /\ taker[i] = None /\ i \notin revoked
      /\ said("taken") /\ req[w].op = "new" => u \in accounts
      /\ said("taken") /\ req[w].op = "existing" => origin[u][issuer[i]] # None

AnswersStayTrue == \A w \in Workers : SaidOK(w)

(* The inductive invariant of the proofs: a member has an account, and the   *)
(* requests past their lock still see what they decided on.                  *)
InvitationsInductive ==
  /\ TypeOK
  /\ \A u \in Users, c \in Companies : origin[u][c] # None => u \in accounts
  /\ \A w \in Workers : HolderOK(w)
  /\ OneMembershipPerInvitation

(* An answer is about an issued invitation and a user, and nobody holds the  *)
(* lock of an invitation that somebody found expired.                        *)
AnswerOK(w) ==
  /\ SaidOK(w)
  /\ req[w].said # "nothing" =>
       /\ At(w, "idle")
       /\ req[w].inv \in Invitations /\ issuer[req[w].inv] # None
       /\ req[w].op # "revoke" => req[w].user \in Users
  /\ req[w].said = "taken" => req[w].op # "revoke"
  /\ req[w].said = "expired" => locks[req[w].inv] = None

(* The inductive invariant behind AnswersStayTrue.                           *)
AnswersInductive == InvitationsInductive /\ \A w \in Workers : AnswerOK(w)

(* The service implements its contract: an invitation is taken by one user   *)
(* or revoked, for good, in one step with the account and the membership.    *)
Contract == INSTANCE InvitationContract
ImplementsContract == Contract!Spec
=============================================================================
