---------------------------- MODULE Installation ----------------------------
(***************************************************************************)
(* The first installation and the access of the system administrator:      *)
(* app/services/installation.py behind /setup, the startup of              *)
(* app/core/lifespan.py with app/services/system_admin_access.py, and the  *)
(* handlers that create, switch and staff companies.                       *)
(*                                                                         *)
(* The status is put together from four SELECTs of a READ COMMITTED        *)
(* transaction. An installer takes an advisory lock before it reads the    *)
(* status and keeps it to the end of its transaction, whose writes appear  *)
(* together at the only commit.                                            *)
(*                                                                         *)
(* Abstracted: the catalogue of permissions and the roles other than       *)
(* "administrator", which every company has active from the transaction    *)
(* that creates it (a system role is immutable, and startup restores it    *)
(* from its template); users.is_active, which no code here writes; the     *)
(* parent of a company beyond there being one (CompanyTree). A handler of  *)
(* the administration is one step: another may have taken away what it     *)
(* relied on since, so any member may still act.                           *)
(***************************************************************************)
EXTENDS Naturals, Sequences

CONSTANTS
  Users, Companies, Workers,
  Root,        \* SYSTEM_ADMIN_USERNAME, the only user with is_system_admin
  MaxChanges,  \* bound on the commits of the administration
  None         \* no worker

ASSUME RootAssumption == Root \in Users
ASSUME NoneAssumption == None \notin Workers
ASSUME MaxChangesAssumption == MaxChanges \in Nat

VARIABLES
  up,         \* the process serves requests
  users,      \* the rows of users
  companies,  \* the rows of companies
  top,        \* those with no parent
  active,     \* those with is_active
  members,    \* the rows of company_memberships: <<company, user>>
  on,         \* those with is_active
  admins,     \* those that have the role "administrator"
  lock,       \* who holds the advisory lock
  req,        \* the request each worker is running
  changes,    \* commits of the administration so far, up to MaxChanges
  during,     \* history: the states the installation went through in each request
  taken       \* history: the companies where a handler took Root's access away
              \* since the last startup

db == <<users, companies, top, active, members, on, admins>>
vars == <<up, db, lock, req, changes, during, taken>>

States == {"ready", "installed", "inconsistent"}
Tables == {"users", "companies", "memberships", "administrator"}
Pcs == {"idle", "lock", "read", "create", "answered"}
Answers == States \cup {"nothing", "created", "failed"}

(* found: the SELECTs that had a row; next: which of the four is next.       *)
Requests == [pc : Pcs, install : BOOLEAN, next : 1 .. 4,
             found : SUBSET Tables, answer : Answers]

Idle == [pc |-> "idle", install |-> FALSE, next |-> 1, found |-> {}, answer |-> "nothing"]

At(w, pc) == req[w].pc = pc

Init ==
  /\ up = FALSE
  /\ users = {}
  /\ companies = {}
  /\ top = {}
  /\ active = {}
  /\ members = {}
  /\ on = {}
  /\ admins = {}
  /\ lock = None
  /\ req = [w \in Workers |-> Idle]
  /\ changes = 0
  /\ during = [w \in Workers |-> {}]
  /\ taken = {}

-----------------------------------------------------------------------------
(* Helpers *)

(* The SELECTs that would find a row now: has_users, has_companies,          *)
(* has_company_memberships and has_active_administrator_membership.          *)
Present ==
  {t \in Tables :
     \/ t = "users" /\ users # {}
     \/ t = "companies" /\ companies # {}
     \/ t = "memberships" /\ members # {}
     \/ t = "administrator" /\ \E m \in admins \cap on : m[1] \in active}

(* Variant for mutation: the administrator is looked for first. *)
OrderAdministratorFirst == <<"administrator", "users", "companies", "memberships">>

(* The order of the four SELECTs. *)
Order == <<"users", "companies", "memberships", "administrator">>

(* What get_installation_status concludes from the SELECTs that had a row.   *)
StateFrom(found) ==
  IF found \cap {"users", "companies", "memberships"} = {} THEN "ready"
  ELSE IF "administrator" \in found THEN "installed"
  ELSE "inconsistent"

(* The state of the installation, were it read in one statement.             *)
State == StateFrom(Present)

(* Every request watches the state while it runs. *)
Watch ==
  during' = [w \in Workers |->
               IF At(w, "idle")' THEN {} ELSE during[w] \cup {State'}]

Become(w, r) ==
  /\ req' = [req EXCEPT ![w] = r]
  /\ UNCHANGED <<up, db, changes, taken>>
  /\ Watch

(* Variant for mutation: a transaction that is rolled back keeps the lock.   *)
ReleasedNever(w) == lock

(* The advisory lock after w's transaction: a transaction's end releases it. *)
Released(w) == IF lock = w THEN None ELSE lock

(* Variant for mutation: nobody waits for the lock. *)
FreeAlways == TRUE

(* pg_advisory_xact_lock does not have to wait. *)
Free == lock = None

-----------------------------------------------------------------------------
(* /setup *)

(* GET /setup/status *)
AskStatus(w) ==
  /\ up /\ At(w, "idle")
  /\ Become(w, [Idle EXCEPT !.pc = "read"])
  /\ UNCHANGED lock

(* POST /setup/initialize *)
AskInstall(w) ==
  /\ up /\ At(w, "idle")
  /\ Become(w, [Idle EXCEPT !.pc = "lock", !.install = TRUE])
  /\ UNCHANGED lock

(* acquire_installation_lock *)
Lock(w) ==
  /\ At(w, "lock")
  /\ Free
  /\ lock' = w
  /\ Become(w, [req[w] EXCEPT !.pc = "read"])

(* One of the first three SELECTs of get_installation_status, or the last,   *)
(* with the decision: an installer goes on only in state "ready", any other  *)
(* request is answered and its transaction ends.                             *)
Read(w) ==
  LET r == req[w]
      found == r.found \cup ({Order[r.next]} \cap Present)
      state == StateFrom(found)
  IN  /\ At(w, "read")
      /\ \/ /\ r.next < 4
            /\ Become(w, [r EXCEPT !.next = @ + 1, !.found = found])
            /\ UNCHANGED lock
         \/ /\ r.next = 4
            /\ r.install /\ state = "ready"
            /\ Become(w, [r EXCEPT !.pc = "create", !.found = found])
            /\ UNCHANGED lock
         \/ /\ r.next = 4
            /\ ~(r.install /\ state = "ready")
            /\ Become(w, [r EXCEPT !.pc = "answered", !.found = found, !.answer = state])
            /\ lock' = Released(w)

(* initialize_installation after the check. The unique key on users.username *)
(* refuses a second Root: then nothing is written, and the answer is a 500.  *)
Install(w, c) ==
  LET fresh == {Root} \ users
      rows == {c} \X fresh
      company == {c : u \in fresh}
  IN  /\ At(w, "create")
      /\ users' = users \cup fresh
      /\ companies' = companies \cup company
      /\ top' = top \cup company
      /\ active' = active \cup company
      /\ members' = members \cup rows
      /\ on' = on \cup rows
      /\ admins' = admins \cup rows
      /\ lock' = Released(w)
      /\ req' = [req EXCEPT ![w] = [@ EXCEPT !.pc = "answered",
                   !.answer = IF fresh = {} THEN "failed" ELSE "created"]]
      /\ UNCHANGED <<up, changes, taken>>
      /\ Watch

(* The response is on its way. *)
Done(w) ==
  /\ At(w, "answered")
  /\ Become(w, Idle)
  /\ UNCHANGED lock

(* A request is cut off, or fails: rolled back. *)
CutOff(w) ==
  /\ ~At(w, "idle") /\ ~At(w, "answered")
  /\ lock' = Released(w)
  /\ Become(w, Idle)

-----------------------------------------------------------------------------
(* The access of the system administrator *)

(* The rows of Root in the companies cs once they are ensured. *)
Rooted(cs) == cs \X ({Root} \cap users)

(* Variant for mutation: an inactive membership is left as it is.            *)
EnsureMissingOnly(cs) ==
  [members |-> Rooted(cs), on |-> Rooted(cs) \ members, admins |-> Rooted(cs)]

(* ensure_system_administrators_access_for_company_in_transaction for all of *)
(* cs: a missing membership is created, an inactive one switched on, a       *)
(* missing role given.                                                       *)
Ensure(cs) == [members |-> Rooted(cs), on |-> Rooted(cs), admins |-> Rooted(cs)]

(* Startup up to the yield of lifespan. Its transactions before the last     *)
(* one, sync_system_administrator_company_access, change nothing here.       *)
Startup ==
  /\ ~up
  /\ up' = TRUE
  /\ members' = members \cup Ensure(companies).members
  /\ on' = on \cup Ensure(companies).on
  /\ admins' = admins \cup Ensure(companies).admins
  /\ taken' = {}
  /\ UNCHANGED <<users, companies, top, active, lock, req, changes>>
  /\ Watch

(* The process ends: open transactions are rolled back. *)
Stop ==
  /\ up
  /\ up' = FALSE
  /\ lock' = None
  /\ req' = [w \in Workers |-> Idle]
  /\ UNCHANGED <<db, changes, taken>>
  /\ Watch

-----------------------------------------------------------------------------
(* The administration *)

Change ==
  /\ up
  /\ changes < MaxChanges
  /\ changes' = changes + 1
  /\ UNCHANGED <<up, lock, req>>

(* _create_company_with_administrator for a user u, as a root or a child.    *)
CreateCompany(u, c, isTop) ==
  LET own == {<<c, u>>}
      access == Ensure({c})
  IN  /\ Change
      /\ c \notin companies
      /\ \E m \in members : m[2] = u
      /\ companies' = companies \cup {c}
      /\ top' = IF isTop THEN top \cup {c} ELSE top
      /\ active' = active \cup {c}
      /\ members' = members \cup own \cup access.members
      /\ on' = on \cup own \cup access.on
      /\ admins' = admins \cup own \cup access.admins
      /\ UNCHANGED <<users, taken>>
      /\ Watch

(* set_company_active_state_within_tree: never the root of a tree. *)
SwitchCompany(c) ==
  /\ Change
  /\ c \in companies \ top
  /\ active' = IF c \in active THEN active \ {c} ELSE active \cup {c}
  /\ UNCHANGED <<users, companies, top, members, on, admins, taken>>
  /\ Watch

(* An invitation is accepted or a user added: a row of company_memberships.  *)
Join(c, u) ==
  /\ Change
  /\ c \in companies /\ <<c, u>> \notin members
  /\ users' = users \cup {u}
  /\ members' = members \cup {<<c, u>>}
  /\ on' = on \cup {<<c, u>>}
  /\ UNCHANGED <<companies, top, active, admins, taken>>
  /\ Watch

(* update_scoped_company_membership, also of one's own membership. *)
SwitchMembership(m) ==
  /\ Change
  /\ m \in members
  /\ on' = IF m \in on THEN on \ {m} ELSE on \cup {m}
  /\ taken' = IF m[2] = Root /\ m \in on THEN taken \cup {m[1]} ELSE taken
  /\ UNCHANGED <<users, companies, top, active, members, admins>>
  /\ Watch

(* replace_membership_roles_with_delegation, also of the last administrator. *)
ReplaceRoles(m) ==
  /\ Change
  /\ m \in on
  /\ admins' = IF m \in admins THEN admins \ {m} ELSE admins \cup {m}
  /\ taken' = IF m[2] = Root /\ m \in admins THEN taken \cup {m[1]} ELSE taken
  /\ UNCHANGED <<users, companies, top, active, members, on>>
  /\ Watch

Setup(w) ==
  \/ AskStatus(w)
  \/ AskInstall(w)
  \/ Lock(w)
  \/ Read(w)
  \/ \E c \in Companies : Install(w, c)
  \/ Done(w)
  \/ CutOff(w)

Administer ==
  \/ \E u \in users, c \in Companies, isTop \in BOOLEAN : CreateCompany(u, c, isTop)
  \/ \E c \in companies : SwitchCompany(c)
  \/ \E c \in companies, u \in Users : Join(c, u)
  \/ \E m \in members : SwitchMembership(m) \/ ReplaceRoles(m)

Next ==
  \/ Startup
  \/ Stop
  \/ \E w \in Workers : Setup(w)
  \/ Administer

Spec == Init /\ [][Next]_vars

(* Fairness: the event loop runs every request that can go on, and PostgreSQL *)
(* hands a released lock to those that wait for it in turn.                  *)
Fairness ==
  \A w \in Workers :
    /\ WF_vars(Read(w))
    /\ WF_vars(\E c \in Companies : Install(w, c))
    /\ WF_vars(Done(w))
    /\ SF_vars(Lock(w))

LiveSpec == Spec /\ Fairness

-----------------------------------------------------------------------------
(* Properties *)

(* Types. *)
TypeOK ==
  /\ up \in BOOLEAN
  /\ users \in SUBSET Users
  /\ companies \in SUBSET Companies
  /\ top \in SUBSET companies
  /\ active \in SUBSET companies
  /\ members \in SUBSET (companies \X users)
  /\ on \in SUBSET members
  /\ admins \in SUBSET members
  /\ lock \in {None} \cup Workers
  /\ req \in [Workers -> Requests]
  /\ changes \in 0 .. MaxChanges
  /\ during \in [Workers -> SUBSET States]
  /\ taken \in SUBSET Companies

(* Installers that overlap never collide: the loser learns the state of the  *)
(* installation instead of running into a unique key                         *)
(* (test_concurrent_installation_allows_only_one_initializer).               *)
InstallersNeverCollide == \A w \in Workers : req[w].answer # "failed"

(* The four SELECTs of a status add up: the state they give, also to a       *)
(* rejected installer, is the one the installation was in at some moment of  *)
(* the request. An installation that commits between two of them never makes *)
(* the status "inconsistent".                                                *)
AnswersOfSomeMoment ==
  \A w \in Workers : req[w].answer \in States => req[w].answer \in during[w]

(* While the process serves, the system administrator is an active           *)
(* administrator of every company, those created meanwhile included, except  *)
(* where a handler took that away since the last startup                     *)
(* (sync_system_administrator_company_access).                               *)
AdministratorHasAccess ==
  up /\ Root \in users => \A c \in companies \ taken : <<c, Root>> \in on \cap admins

(* "inconsistent" in an installed system has one cause: access was taken     *)
(* away in every company that has no parent. A restart repairs it.           *)
InconsistentOnlyIfTaken ==
  up /\ State = "inconsistent" => top \subseteq taken

(* Every request of /setup ends: a lock is given back on every path.         *)
EveryRequestEnds == \A w \in Workers : ~At(w, "idle") ~> At(w, "idle")

(* What w has read, and what it may conclude from it.                        *)
ReadOK(w) ==
  LET r == req[w]
  IN  /\ r.answer # "nothing" => r.pc = "answered"
      /\ r.pc = "lock" => r.install /\ r.next = 1 /\ r.found = {}
      /\ r.install /\ r.pc \in {"read", "create"} => lock = w
      /\ r.pc # "idle" => State \in during[w]
      /\ r.pc = "read" => r.found \subseteq Present \ {"administrator"}
      /\ r.pc = "read" /\ r.next > 1 /\ r.found = {} =>
           "ready" \in during[w] /\ (r.install => users = {})
      /\ r.pc = "create" => r.install /\ users = {}

(* The inductive invariant behind the safety properties.                     *)
InstallationInductive ==
  /\ TypeOK
  /\ InstallersNeverCollide
  /\ AnswersOfSomeMoment
  /\ AdministratorHasAccess
  /\ users = {} => companies = {}
  /\ Root \notin users => users = {}
  /\ Root \in users => top # {}
  /\ top \subseteq active
  /\ \A w \in Workers : ReadOK(w)
=============================================================================
