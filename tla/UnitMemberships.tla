--------------------------- MODULE UnitMemberships ---------------------------
(***************************************************************************)
(* The units a member works in: app/services/unit_memberships.py as the    *)
(* handlers of app/api/v1/unit_memberships.py call it, over the table      *)
(* `unit_memberships`.                                                     *)
(*                                                                         *)
(* The model follows the rows of one company membership: rows of different *)
(* memberships share no key, no lock and no index entry, and a request     *)
(* writes rows of one membership only. A row is known by its unit.         *)
(*                                                                         *)
(* A request loads the row, decides, takes the primary mark from the row   *)
(* that has it (an UPDATE of its own, autoflush is off), writes the        *)
(* columns that differ from what it loaded, and commits. Others see only   *)
(* what is committed, and wait for rows and index entries still open.      *)
(*                                                                         *)
(* Abstracted: the permission lookup (a request starts with the scope and  *)
(* the unit ids it was given), the company of a unit, the invalidation of  *)
(* the cache after the commit (PermissionCache), names and dates.          *)
(***************************************************************************)
EXTENDS Handlers

CONSTANT Units    \* the units of the company

ASSUME NoneAssumption == None \notin Units

VARIABLES
  assigned,  \* units the member has a row for
  active,    \* rows with is_active
  primary,   \* rows with is_primary
  open       \* units with is_active

tables == <<assigned, active, primary, open>>
vars == <<assigned, active, primary, open, req>>

-----------------------------------------------------------------------------
(* Requests *)

(* POST without and with is_primary, then the PATCH bodies by their effect:  *)
(* (true, _), (false, _), (_, false), (_, true) and (false, true).           *)
Adds == {"add", "add primary"}
Promotes == {"add primary", "promote"}
Demotes == {"demote", "leave", "secondary"}
Activates == {"promote", "rejoin", "secondary"}
Ops == Adds \cup Promotes \cup Demotes \cup Activates

Pcs == {"idle", "load", "clear", "clearing", "lock", "index", "commit"}

(* `wide` is scope COMPANY, `reach` the unit ids of the other scopes, `was`  *)
(* the flags of the row as loaded, `seen` the primary rows in the snapshot   *)
(* of the clearing UPDATE, `cleared` the rows it changed. `overtaken` is     *)
(* history: another commit came since the request began.                     *)
Requests ==
  [pc : Pcs, op : Ops, unit : Units \cup {None}, wide : BOOLEAN, reach : SUBSET Units,
   was : SUBSET {"active", "primary"}, seen : SUBSET Units, cleared : SUBSET Units,
   overtaken : BOOLEAN]

Idle == [pc |-> "idle", op |-> "add", unit |-> None, wide |-> FALSE, reach |-> {},
         was |-> {}, seen |-> {}, cleared |-> {}, overtaken |-> FALSE]

(* A statement, a refusal or a rollback: nothing is committed.               *)
Become(w, r) ==
  /\ req' = [req EXCEPT ![w] = r]
  /\ UNCHANGED tables

Goto(w, pc) == Become(w, [req[w] EXCEPT !.pc = pc])

Overtake(w) ==
  req' = [v \in Workers |-> IF v = w THEN Idle
                            ELSE [req[v] EXCEPT !.overtaken = req[v].pc # "idle"]]

Allows(r, u) == r.wide \/ u \in r.reach

-----------------------------------------------------------------------------
(* What an open transaction holds *)

(* Rows it has updated: the cleared ones and, once written, its own.         *)
Locks(w) ==
  req[w].cleared \cup
    (IF req[w].pc \in {"index", "commit"} /\ req[w].op \notin Adds THEN {req[w].unit} ELSE {})

(* It has removed an entry of the partial index on is_primary, or made one.  *)
TouchesIndex(w) ==
  \/ req[w].cleared # {}
  \/ req[w].pc = "commit" /\ req[w].op \in Promotes \cup Demotes

(* Its INSERT of the same row is not committed.                              *)
Inserts(w, u) == req[w].pc = "commit" /\ req[w].op \in Adds /\ req[w].unit = u

(* The transactions a statement of w waits for.                              *)
Blockers(w) ==
  {v \in Workers \ {w} :
     \/ At(w, "clearing") /\ Locks(v) \cap req[w].seen # {}
     \/ At(w, "lock") /\ req[w].unit \in Locks(v)
     \/ At(w, "index") /\ req[w].op \in Promotes /\ TouchesIndex(v)
     \/ At(w, "index") /\ req[w].op \in Adds /\ Inserts(v, req[w].unit)}

(* Transactions that wait for each other.                                    *)
Deadlock(D) == D # {} /\ \A w \in D : /\ Blockers(w) \cap D # {}
                                      /\ \E v \in D : w \in Blockers(v)

-----------------------------------------------------------------------------
(* Reads and decisions *)

(* A member starts with no unit, or with the one given by the request that   *)
(* created the member.                                                       *)
Init ==
  /\ \E first \in Units \cup {None} :
       /\ assigned = {first} \ {None}
       /\ active = assigned
       /\ primary = assigned
  /\ open = Units
  /\ req = [w \in Workers |-> Idle]

(* Variant for mutation: every member of the company can be managed.         *)
AnyMember(wide, reach) == TRUE

(* get_scoped_company_membership_by_id: the primary unit of the member is    *)
(* one of the units of the requester.                                        *)
Manages(wide, reach) == wide \/ primary \cap reach # {}

(* _get_managed_membership_context                                           *)
Start(w, wide, reach, op, u) ==
  /\ At(w, "idle")
  /\ Manages(wide, reach)
  /\ Become(w, [Idle EXCEPT !.pc = "load", !.op = op, !.unit = u, !.wide = wide, !.reach = reach])

(* The unit is one of the requester's, and in use unless the row goes.       *)
MayUse(r) == Allows(r, r.unit) /\ (r.op \in Adds \cup Activates => r.unit \in open)

(* Variant for mutation: any requester takes the primary mark away.          *)
AnyoneDemotes(r) == TRUE

(* removes_primary: only scope COMPANY leaves a member without primary unit. *)
MayDemote(r) == (r.op \in Demotes /\ r.unit \in primary) => r.wide

(* The row and the unit are loaded and the request is refused or goes on.    *)
Load(w) ==
  LET r == req[w]
  IN  /\ At(w, "load")
      /\ \/ /\ MayUse(r) /\ MayDemote(r)
            /\ r.unit \in assigned <=> r.op \notin Adds
            /\ Become(w, [r EXCEPT
                 !.pc = IF r.op \in Promotes THEN "clear" ELSE IF r.op \in Adds THEN "index" ELSE "lock",
                 !.was = {f \in {"active"} : r.unit \in active} \cup {f \in {"primary"} : r.unit \in primary}])
         \/ /\ ~(MayUse(r) /\ MayDemote(r) /\ (r.unit \in assigned <=> r.op \notin Adds))
            /\ Become(w, Idle)

-----------------------------------------------------------------------------
(* Writes *)

(* clear_primary_unit_memberships takes its snapshot ...                     *)
ClearBegin(w) ==
  /\ At(w, "clear")
  /\ Become(w, [req[w] EXCEPT !.pc = "clearing", !.seen = primary])

(* Variant for mutation: a requester with scope COMPANY clears no other row. *)
ClearsInUnitScope(w) == IF req[w].wide THEN {} ELSE req[w].seen \cap primary

(* Rows of the snapshot that still have the mark once they are locked.       *)
Clears(w) == req[w].seen \cap primary

(* ... and changes the rows of it, when no other transaction has them.       *)
ClearEnd(w) ==
  /\ At(w, "clearing")
  /\ Blockers(w) = {}
  /\ Become(w, [req[w] EXCEPT !.pc = IF req[w].op \in Adds THEN "index" ELSE "lock",
                              !.seen = {}, !.cleared = Clears(w)])

(* The columns an UPDATE writes: those that differ from what was loaded. The *)
(* clearing has also reset the loaded row, so a promotion is always written. *)
WritesActive(r) ==
  \/ r.op \in Activates /\ "active" \notin r.was
  \/ r.op = "leave" /\ "active" \in r.was

WritesPrimary(r) == r.op = "promote" \/ (r.op \in Demotes /\ "primary" \in r.was)

(* The flags of the row after that UPDATE.                                   *)
ActiveAfter(r) == IF WritesActive(r) THEN r.op # "leave" ELSE r.unit \in active

PrimaryAfter(r) ==
  IF WritesPrimary(r) THEN r.op = "promote" ELSE r.unit \in primary \ r.cleared

(* ck_unit_memberships_primary_requires_active                               *)
Consistent(r) == PrimaryAfter(r) => ActiveAfter(r)

(* The UPDATE of the row: none if nothing changed, an error if the check     *)
(* fails; the entry of the index on is_primary is next.                      *)
LockRow(w) ==
  LET r == req[w]
  IN  /\ At(w, "lock")
      /\ \/ /\ ~WritesActive(r) /\ ~WritesPrimary(r)
            /\ Become(w, Idle)
         \/ /\ WritesActive(r) \/ WritesPrimary(r)
            /\ Blockers(w) = {}
            /\ \/ Consistent(r) /\ Goto(w, IF r.op \in Promotes THEN "index" ELSE "commit")
               \/ ~Consistent(r) /\ Become(w, Idle)

(* Variant for mutation: no unique index on the primary rows.                *)
Unindexed(r) == r.op \in Adds /\ r.unit \in assigned

(* uq_unit_memberships_primary_per_membership, ..._membership_unit           *)
Conflicts(r) ==
  \/ r.op \in Promotes /\ primary \ (r.cleared \cup {r.unit}) # {}
  \/ r.op \in Adds /\ r.unit \in assigned

(* The entries of the unique indexes, or the IntegrityError.                 *)
Index(w) ==
  /\ At(w, "index")
  /\ Blockers(w) = {}
  /\ IF Conflicts(req[w]) THEN Become(w, Idle) ELSE Goto(w, "commit")

Commit(w) ==
  LET r == req[w]
      has == IF r.op \in Adds THEN TRUE ELSE ActiveAfter(r)
      first == IF r.op \in Adds THEN r.op \in Promotes ELSE PrimaryAfter(r)
  IN  /\ At(w, "commit")
      /\ assigned' = assigned \cup {r.unit}
      /\ active' = (active \ {r.unit}) \cup {u \in {r.unit} : has}
      /\ primary' = (primary \ (r.cleared \cup {r.unit})) \cup {u \in {r.unit} : first}
      /\ Overtake(w)
      /\ UNCHANGED open

(* update_scoped_organizational_unit of is_active, in one transaction.       *)
SwitchUnit(u) ==
  /\ open' = IF u \in open THEN open \ {u} ELSE open \cup {u}
  /\ req' = [v \in Workers |-> [req[v] EXCEPT !.overtaken = req[v].pc # "idle"]]
  /\ UNCHANGED <<assigned, active, primary>>

(* PostgreSQL ends a deadlock by failing one of its transactions.            *)
Victim(w) ==
  /\ \E D \in SUBSET Workers : w \in D /\ Deadlock(D)
  /\ Become(w, Idle)

(* A request is cut off, or the database goes: rolled back.                  *)
CutOff(w) ==
  /\ ~At(w, "idle")
  /\ Become(w, Idle)

Next ==
  \/ \E w \in Workers :
       \/ \E op \in Ops, u \in Units :
            \/ Start(w, TRUE, Units, op, u)
            \/ \E reach \in SUBSET Units : Start(w, FALSE, reach, op, u)
       \/ Load(w) \/ ClearBegin(w) \/ ClearEnd(w) \/ LockRow(w) \/ Index(w) \/ Commit(w)
       \/ Victim(w) \/ CutOff(w)
  \/ \E u \in Units : SwitchUnit(u)

Spec == Init /\ [][Next]_vars

-----------------------------------------------------------------------------
(* Properties *)

(* Types, and what a request carries from one statement to the next.         *)
TypeOK ==
  /\ assigned \in SUBSET Units
  /\ active \in SUBSET assigned
  /\ primary \in SUBSET active
  /\ open \in SUBSET Units
  /\ req \in [Workers -> Requests]
  /\ \A w \in Workers : ~At(w, "idle") => req[w].unit \in Units

(* A member has one primary unit at most.                                    *)
OnePrimary == \A u, v \in primary : u = v

(* Open transactions have no row in common, the rows they cleared are still  *)
(* marked for everybody else, and one that promotes has cleared what there   *)
(* is: it alone touches the index.                                           *)
Exclusive(w) ==
  LET r == req[w]
      others == Workers \ {w}
  IN  /\ \A v \in others : Locks(v) \cap Locks(w) = {}
      /\ r.cleared \subseteq primary
      /\ r.cleared # {} => r.op \in Promotes /\ r.pc \in {"lock", "index", "commit"}
      /\ r.pc \in {"clear", "clearing"} => r.op \in Promotes
      /\ r.pc = "lock" => r.op \notin Adds
      /\ r.pc \notin {"idle", "load"} /\ r.op \notin Adds => r.unit \in assigned
      /\ r.pc \in {"index", "commit"} /\ r.op \notin Adds => Consistent(r)
      /\ r.pc = "commit" /\ r.op \in Adds =>
           r.unit \notin assigned /\ \A v \in others : ~Inserts(v, r.unit)
      /\ r.pc = "commit" /\ r.op \in Promotes =>
           /\ primary \subseteq r.cleared \cup {r.unit}
           /\ \A v \in others : ~(At(v, "commit") /\ req[v].op \in Promotes)

(* What a request was allowed is what it still does: without an overtaking   *)
(* commit the primary unit is in reach, the unit to use is open, and the     *)
(* mark it takes is the one there is.                                        *)
Decided(w) ==
  LET r == req[w]
  IN  /\ ~At(w, "idle") /\ ~r.wide /\ ~r.overtaken => primary \subseteq r.reach
      /\ r.pc \notin {"idle", "load"} =>
           /\ ~r.wide /\ r.op \in Demotes => "primary" \notin r.was
           /\ ~r.overtaken /\ r.op \in Adds \cup Activates => r.unit \in open
      /\ ~r.overtaken /\ r.pc = "clearing" => r.seen = primary
      /\ ~r.overtaken /\ r.pc \in {"lock", "index"} /\ r.op \in Promotes => r.cleared = primary

(* The inductive invariant: a member has one primary unit at most, it is an  *)
(* active one, and open transactions do not get into each other's way.       *)
UnitsInductive ==
  /\ TypeOK
  /\ OnePrimary
  /\ \A w \in Workers : Exclusive(w) /\ Decided(w)

(* The request whose commit a step is.                                       *)
Commits(w) == At(w, "commit") /\ tables' # tables /\ req'[w] = Idle

(* Whatever the order of the requests, only a requester with scope COMPANY   *)
(* leaves a member who had a primary unit without one (removes_primary).     *)
OnlyCompanyLeavesNone ==
  [][primary # {} /\ primary' = {} => \E w \in Workers : Commits(w) /\ req[w].wide]_vars

(* A requester with unit scope takes the primary mark from a unit that is    *)
(* not one of theirs only if another commit came between check and commit.   *)
TakenWithinReach ==
  [][\A w \in Workers : Commits(w) =>
       \A u \in primary \ primary' : Allows(req[w], u) \/ req[w].overtaken]_vars

(* A row becomes active in a unit that is out of use only if the unit was    *)
(* closed while the request was in flight.                                   *)
ActiveInOpenUnits ==
  [][\A u \in active' \ active : u \in open \/ \E w \in Workers : Commits(w) /\ req[w].overtaken]_vars

(* Requests wait for each other only if one of them was overtaken: the mark  *)
(* moved between the UPDATE that clears it and the one that sets it.         *)
DeadlockOnlyByOvertaking ==
  \A D \in SUBSET Workers : Deadlock(D) => \E w \in D : req[w].overtaken
=============================================================================
