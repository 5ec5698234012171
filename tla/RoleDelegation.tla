--------------------------- MODULE RoleDelegation ---------------------------
(***************************************************************************)
(* Who may give or take which role: replace_membership_roles_with_         *)
(* delegation (app/services/membership_roles.py) with the policy of        *)
(* app/services/role_assignment_policy.py and the delegations of           *)
(* app/services/role_delegations.py, in one company.                       *)
(*                                                                         *)
(* A request reads the roles of its target, the roles it was asked for,    *)
(* the roles of the actor and their delegations, each in a statement of    *)
(* its own under READ COMMITTED, and then deletes every role row of the    *)
(* target and inserts the ones asked for. Nothing is locked before the     *)
(* DELETE, which waits for the rows that another transaction is deleting   *)
(* and does not see the rows that one inserts.                             *)
(*                                                                         *)
(* Abstracted: the permission ROLES_ASSIGN, its unit scope and is_active   *)
(* of the two memberships (all read first, and a refusal changes nothing:  *)
(* any member may be an actor or a target); the cache invalidated after    *)
(* the commit (PermissionCache); names of roles. The insert of several     *)
(* rows is one step; where PostgreSQL finds two inserts waiting for each   *)
(* other it aborts one, which is Abort here.                               *)
(***************************************************************************)
EXTENDS Naturals, Memberships

CONSTANTS
  SystemRoles,  \* the roles with is_system
  MaxChanges    \* bound on the commits that change something

ASSUME SystemRolesAssumption == SystemRoles \subseteq Roles
ASSUME NoMemberAssumption == None \notin Members
ASSUME MaxChangesAssumption == MaxChanges \in Nat

VARIABLES
  deleg,    \* deleg[r]: the roles that role r lets its holders assign
  changes,  \* the commits so far, up to MaxChanges
  granted   \* history: the roles a member had at first or was given by a
            \* request whose actor could assign them

delegationVars == <<usable, deleg, held, req, changes, granted>>

-----------------------------------------------------------------------------
(* Requests *)

Stages == {"idle", "roles", "actor", "delegations", "delete", "rows", "insert", "commit"}

(* cur: the target's roles as read; seen: those of them that were active;    *)
(* may: what the actor can assign; rows: the rows the DELETE is after.       *)
Replacements ==
  [pc : Stages, target : Members \cup {None},
   want : SUBSET Roles, cur : SUBSET Roles, seen : SUBSET Roles,
   may : SUBSET Roles, rows : SUBSET Roles, overtaken : BOOLEAN]

NoReplacement == [pc |-> "idle", target |-> None, want |-> {}, cur |-> {},
                  seen |-> {}, may |-> {}, rows |-> {}, overtaken |-> FALSE]

Proceed(w, r) ==
  /\ req' = [req EXCEPT ![w] = r]
  /\ UNCHANGED <<usable, deleg, held, changes, granted>>

(* The rows of w's target whose fate is open while w's transaction is.       *)
Locked(w) ==
  IF At(w, "commit") THEN req[w].rows \cup req[w].want
  ELSE IF At(w, "insert") THEN req[w].rows
  ELSE {}

(* Another transaction has one of these rows of w's target open. *)
Blocked(w, rows) ==
  \E v \in Workers \ {w} : req[v].target = req[w].target /\ Locked(v) \cap rows # {}

(* The target's roles once w commits. *)
Result(w) == (held[req[w].target] \ req[w].rows) \cup req[w].want

(* One more commit. *)
Change == changes < MaxChanges /\ changes' = changes + 1

DelegationInit ==
  /\ usable \in {on \in SUBSET Roles : SystemRoles \subseteq on}
  /\ deleg \in [Roles -> SUBSET Roles]
  /\ held \in [Members -> SUBSET Roles]
  /\ req = [w \in Workers |-> NoReplacement]
  /\ changes = 0
  /\ granted = held

-----------------------------------------------------------------------------
(* PUT /company-memberships/{id}/roles                                       *)

(* get_membership_roles of the target. (What the request asks for, and who   *)
(* its actor is, is chosen where it is first used.)                          *)
ReadTarget(w, t) ==
  /\ At(w, "idle")
  /\ Proceed(w, [NoReplacement EXCEPT !.pc = "roles", !.target = t,
                                      !.cur = held[t], !.seen = held[t] \cap usable])

(* _validate_role_ids: an inactive role is accepted only where it is held    *)
(* already. Asking for what is there changes nothing.                        *)
ReadRoles(w, want) ==
  /\ At(w, "roles")
  /\ \/ /\ want \subseteq usable \cup req[w].cur
        /\ want # req[w].cur
        /\ Proceed(w, [req[w] EXCEPT !.pc = "actor", !.want = want])
     \/ /\ ~(want \subseteq usable \cup req[w].cur) \/ want = req[w].cur
        /\ Proceed(w, NoReplacement)

(* get_membership_assignable_role_ids: the active roles of the actor. A role *)
(* that the session loaded with the target is as active as it was then.      *)
Managers(w, a) ==
  {r \in held[a] :
     IF r \in req[w].cur THEN r \in req[w].seen ELSE r \in usable}

ReadActor(w, a) ==
  /\ At(w, "actor")
  /\ Proceed(w, [req[w] EXCEPT !.pc = "delegations", !.seen = Managers(w, a)])

(* Variants for mutation: only what is added, or only what is removed, must  *)
(* be delegated.                                                             *)
ChangedAdded(cur, want) == want \ cur
ChangedRemoved(cur, want) == cur \ want

(* get_changed_role_ids *)
Changed(cur, want) == (cur \ want) \cup (want \ cur)

(* get_assignable_role_ids and ensure_role_changes_are_delegated. *)
ReadDelegations(w) ==
  LET r == req[w]
      may == UNION {deleg[m] : m \in r.seen}
  IN  /\ At(w, "delegations")
      /\ \/ /\ Changed(r.cur, r.want) \subseteq may
            /\ Proceed(w, [r EXCEPT !.pc = "delete", !.seen = {}, !.may = may])
         \/ /\ ~(Changed(r.cur, r.want) \subseteq may)
            /\ Proceed(w, NoReplacement)

(* delete_membership_roles: the statement begins, and sees what is committed.*)
DeleteBegin(w) ==
  /\ At(w, "delete")
  /\ Proceed(w, [req[w] EXCEPT !.pc = "rows", !.rows = held[req[w].target], !.cur = {}])

(* It has locked them all. Rows that somebody else deleted meanwhile are     *)
(* gone from `rows` (CommitRoles).                                           *)
DeleteEnd(w) ==
  /\ At(w, "rows")
  /\ ~Blocked(w, req[w].rows)
  /\ Proceed(w, [req[w] EXCEPT !.pc = "insert"])

(* create_membership_roles: waits for the keys others have open, and fails   *)
(* on the unique key (membership, role) when a row is there.                 *)
Insert(w) ==
  LET r == req[w]
      there == held[r.target] \ r.rows
  IN  /\ At(w, "insert")
      /\ ~Blocked(w, r.want)
      /\ \/ r.want \cap there = {} /\ Proceed(w, [r EXCEPT !.pc = "commit"])
         \/ r.want \cap there # {} /\ Proceed(w, NoReplacement)

(* The commit. It overtakes the requests that have read this target, and     *)
(* takes the deleted rows from the DELETEs that wait for them.               *)
CommitRoles(w) ==
  LET r == req[w]
      t == r.target
  IN  /\ At(w, "commit")
      /\ Change
      /\ held' = [held EXCEPT ![t] = Result(w)]
      /\ granted' = [granted EXCEPT ![t] = @ \cup (r.want \cap r.may)]
      /\ req' = [v \in Workers |->
                   IF v = w THEN NoReplacement
                   ELSE IF req[v].target # t THEN req[v]
                   ELSE [req[v] EXCEPT !.overtaken = TRUE,
                           !.rows = IF At(v, "rows") THEN @ \ r.rows ELSE @]]
      /\ UNCHANGED <<usable, deleg>>

(* A request is cut off or its transaction aborted: rolled back. *)
Abort(w) ==
  /\ ~At(w, "idle")
  /\ Proceed(w, NoReplacement)

-----------------------------------------------------------------------------
(* The rest of the company's administration *)

(* replace_role_delegations_for_role: a mutable, active role gets active     *)
(* assignable roles. (Two replacements that overlap can leave the union of   *)
(* their lists, which a single one could ask for too.)                       *)
ReplaceDelegations(r, roles) ==
  /\ r \in usable \ SystemRoles
  /\ Change
  /\ roles \subseteq usable
  /\ deleg' = [deleg EXCEPT ![r] = roles]
  /\ UNCHANGED <<usable, held, req, granted>>

(* update_role with is_active. *)
UpdateRole(r) ==
  /\ r \notin SystemRoles
  /\ Change
  /\ usable' = IF r \in usable THEN usable \ {r} ELSE usable \cup {r}
  /\ UNCHANGED <<deleg, held, req, granted>>

Assign(w) ==
  \/ \E t \in Members : ReadTarget(w, t)
  \/ \E want \in SUBSET Roles : ReadRoles(w, want)
  \/ \E a \in Members : ReadActor(w, a)
  \/ ReadDelegations(w)
  \/ DeleteBegin(w)
  \/ DeleteEnd(w)
  \/ Insert(w)
  \/ CommitRoles(w)
  \/ Abort(w)

DelegationNext ==
  \/ \E w \in Workers : Assign(w)
  \/ \E r \in Roles, roles \in SUBSET Roles : ReplaceDelegations(r, roles)
  \/ \E r \in Roles : UpdateRole(r)

DelegationSpec == DelegationInit /\ [][DelegationNext]_delegationVars

-----------------------------------------------------------------------------
(* Properties *)

(* Types. *)
DelegationTypeOK ==
  /\ usable \in SUBSET Roles
  /\ deleg \in [Roles -> SUBSET Roles]
  /\ held \in [Members -> SUBSET Roles]
  /\ req \in [Workers -> Replacements]
  /\ changes \in 0 .. MaxChanges
  /\ granted \in [Members -> SUBSET Roles]

(* The roles in one of two sets only. *)
Differing(old, new) == {r \in Roles : (r \in old) # (r \in new)}

(* No role appears out of nothing: whatever overlaps, a member only ever has *)
(* roles it had at first or that some actor who was delegated them once gave *)
(* it (ensure_role_changes_are_delegated,                                    *)
(* test_secure_replace_cannot_add_undelegated_role).                         *)
HeldWereGranted == \A m \in Members : held[m] \subseteq granted[m]

(* A request that no other commit to the same member overtook leaves exactly *)
(* the roles it was asked for, and changes only roles its actor could assign *)
(* when they were read, whatever happened to delegations and roles since.    *)
CommitsAsChecked ==
  \A w \in Workers :
    At(w, "commit") /\ ~req[w].overtaken =>
      /\ Result(w) = req[w].want
      /\ Differing(held[req[w].target], req[w].want) \subseteq req[w].may

(* The part of the inductive invariant about one request: what it has read   *)
(* was granted, and is still there unless the request was overtaken.         *)
ReadOK(w) ==
  LET r == req[w]
  IN  /\ r.pc # "idle" => r.target \in Members
      /\ r.pc # "idle" => r.cur \subseteq granted[r.target]
      /\ r.pc \in {"delete", "rows", "insert", "commit"} =>
           r.want \subseteq granted[r.target] \cup r.may
      /\ r.pc \in {"rows", "insert", "commit"} => r.rows \subseteq held[r.target]
      /\ ~r.overtaken =>
           /\ r.pc \in {"roles", "actor", "delegations", "delete"} => r.cur = held[r.target]
           /\ r.pc \in {"delete", "rows", "insert", "commit"} =>
                Differing(held[r.target], r.want) \subseteq r.may
           /\ r.pc \in {"rows", "insert", "commit"} => r.rows = held[r.target]

(* Two transactions on one member never have the same row open.              *)
Disjoint ==
  \A v, w \in Workers :
    v # w /\ req[v].target = req[w].target => Locked(v) \cap Locked(w) = {}

(* The inductive invariant behind HeldWereGranted and CommitsAsChecked.      *)
DelegationInductive ==
  /\ DelegationTypeOK
  /\ HeldWereGranted
  /\ Disjoint
  /\ \A w \in Workers : ReadOK(w)
=============================================================================
