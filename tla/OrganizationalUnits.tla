------------------------ MODULE OrganizationalUnits ------------------------
(***************************************************************************)
(* The units of a company: app/services/organizational_units.py as the     *)
(* handlers of app/api/v1/organizational_units.py call it, over the table  *)
(* `organizational_units`, and app/services/scopes.py.                     *)
(*                                                                         *)
(* A request learns which units it may touch from one recursive SELECT     *)
(* (its first action, with the rows it loads), then walks from the new     *)
(* parent to the top one SELECT at a time, then commits. No lock is taken. *)
(*                                                                         *)
(* Abstracted: the company of a unit, names and types, is_active           *)
(* (UnitMemberships has it), the permission lookup: a request starts with  *)
(* its scope and with the requester's primary unit, any unit there is.     *)
(***************************************************************************)
EXTENDS Handlers

CONSTANT Units  \* the ids the sequence will draw

ASSUME NoneAssumption == None \notin Units

VARIABLES
  exists,    \* the rows of the table
  parent,    \* parent_id
  racedOnce  \* history: a request committed after another one had overtaken it

unitVars == <<exists, parent, req, racedOnce>>

-----------------------------------------------------------------------------
(* The hierarchy *)

(* The least set of units with u in it and the children of its members.      *)
Subtree(u) ==
  LET closed == {S \in SUBSET exists : /\ u \in S
                                       /\ \A d \in exists : parent[d] \in S => d \in S}
  IN  {d \in exists : \A S \in closed : d \in S}

UnitOnCycle(u) == parent[u] \in Subtree(u)

(* ScopeService.get_unit_ids for the primary unit `home`: get_unit_tree_ids  *)
(* is a UNION ALL, which from a unit on a cycle never ends.                  *)
Reach(scope, home) ==
  IF scope = "company" THEN exists ELSE IF scope = "own tree" THEN Subtree(home) ELSE {home}

Answers(scope, home) == scope = "own tree" => ~UnitOnCycle(home)

-----------------------------------------------------------------------------
(* Requests *)

Scopes == {"company", "own tree", "own unit"}
Pcs == {"idle", "create", "walk", "move", "hung"}

(* `at` is the row the walk reads next, `visited` those it has read.         *)
(* `overtaken` is history: another commit came since the request began.      *)
UnitRequests ==
  [pc : Pcs, scope : Scopes, home : Units \cup {None}, unit : Units \cup {None},
   parent : Units \cup {None}, at : Units \cup {None}, visited : SUBSET Units,
   overtaken : BOOLEAN]

UnitIdle == [pc |-> "idle", scope |-> "company", home |-> None, unit |-> None, parent |-> None,
         at |-> None, visited |-> {}, overtaken |-> FALSE]

(* A statement, a refusal or a rollback: nothing is committed.               *)
Proceed(w, r) ==
  /\ req' = [req EXCEPT ![w] = r]
  /\ UNCHANGED <<exists, parent, racedOnce>>

(* The end of a request with a commit: the others in flight are overtaken.   *)
Commit(w) ==
  /\ req' = [v \in Workers |-> IF v = w THEN UnitIdle
                               ELSE [req[v] EXCEPT !.overtaken = req[v].pc # "idle"]]
  /\ racedOnce' = (racedOnce \/ req[w].overtaken)

UnitsInit ==
  /\ exists = {}
  /\ parent = [u \in Units |-> None]
  /\ req = [w \in Workers |-> UnitIdle]
  /\ racedOnce = FALSE

-----------------------------------------------------------------------------

(* A requester with scope OWN_UNIT_TREE whose unit is on a cycle: the query  *)
(* for the unit ids does not end.                                            *)
HangOnTree(w, home) ==
  /\ At(w, "idle")
  /\ ~Answers("own tree", home)
  /\ Proceed(w, [UnitIdle EXCEPT !.pc = "hung", !.scope = "own tree", !.home = home])

(* create_scoped_organizational_unit: OWN_UNIT creates nothing, only COMPANY *)
(* creates a unit at the top, the parent is in reach.                        *)
CreateRead(w, scope, home, p) ==
  /\ At(w, "idle")
  /\ scope # "own unit"
  /\ Answers(scope, home)
  /\ p = None => scope = "company"
  /\ p # None => p \in Reach(scope, home)
  /\ Proceed(w, [UnitIdle EXCEPT !.pc = "create", !.scope = scope, !.home = home, !.parent = p])

CreateCommit(w, u) ==
  /\ At(w, "create")
  /\ u \notin exists
  /\ exists' = exists \cup {u}
  /\ parent' = [parent EXCEPT ![u] = req[w].parent]
  /\ Commit(w)

(* Variant for mutation: a unit in reach goes under any unit.                *)
MayMoveOut(scope, home, u, p) ==
  /\ Answers(scope, home)
  /\ u \in Reach(scope, home)
  /\ p = None => scope = "company"

(* Unit and new parent are in reach, and only COMPANY moves to the top.      *)
MayMove(scope, home, u, p) ==
  /\ Answers(scope, home)
  /\ u \in Reach(scope, home)
  /\ p = None => scope = "company"
  /\ p # None => p \in Reach(scope, home)

(* update_scoped_organizational_unit with another parent_id: a move to the   *)
(* top needs no validation, any other walks up from the new parent.          *)
MoveRead(w, scope, home, u, p) ==
  /\ At(w, "idle")
  /\ parent[u] # p
  /\ MayMove(scope, home, u, p)
  /\ p # u
  /\ Proceed(w, [UnitIdle EXCEPT !.pc = IF p = None THEN "move" ELSE "walk",
                            !.scope = scope, !.home = home, !.unit = u, !.parent = p, !.at = p])

(* Variant for mutation: only the unit itself ends the walk.                 *)
MeetsUnit(r) == r.at = r.unit

(* Variant for mutation: only a row seen before ends the walk.               *)
MeetsVisited(r) == r.at \in r.visited

(* The walk has come to the unit, or to a row it knows.                      *)
Meets(r) == r.at = r.unit \/ r.at \in r.visited

(* One round of _validate_parent_change: the next row is read.               *)
Walk(w) ==
  LET r == req[w]
  IN  /\ At(w, "walk")
      /\ \/ /\ Meets(r)
            /\ Proceed(w, UnitIdle)
         \/ /\ ~Meets(r)
            /\ parent[r.at] # None
            /\ Proceed(w, [r EXCEPT !.at = parent[r.at], !.visited = r.visited \cup {r.at}])
         \/ /\ ~Meets(r)
            /\ parent[r.at] = None
            /\ Proceed(w, [r EXCEPT !.pc = "move", !.at = None, !.visited = {}])

MoveCommit(w) ==
  /\ At(w, "move")
  /\ parent' = [parent EXCEPT ![req[w].unit] = req[w].parent]
  /\ Commit(w)
  /\ UNCHANGED exists

(* A request is cut off, or its transaction fails: rolled back.              *)
UnitCutOff(w) ==
  /\ ~At(w, "idle")
  /\ Proceed(w, UnitIdle)

Goes(w) == (\E u \in Units : CreateCommit(w, u)) \/ Walk(w) \/ MoveCommit(w)

Begin(w, scope, home) ==
  \E p \in exists \cup {None} :
    \/ CreateRead(w, scope, home, p)
    \/ \E u \in exists : MoveRead(w, scope, home, u, p)

UnitsNext ==
  \E w \in Workers :
    \/ Begin(w, "company", None)
    \/ \E home \in exists : HangOnTree(w, home) \/ \E scope \in Scopes \ {"company"} : Begin(w, scope, home)
    \/ Goes(w)
    \/ UnitCutOff(w)

UnitsSpec == UnitsInit /\ [][UnitsNext]_unitVars

(* The statements of a request that has begun are answered.                  *)
FairSpec == UnitsSpec /\ \A w \in Workers : WF_unitVars(Goes(w))

-----------------------------------------------------------------------------
(* Properties *)

(* Types: a request works on rows that are there.                            *)
UnitsTypeOK ==
  /\ exists \in SUBSET Units
  /\ parent \in [Units -> exists \cup {None}]
  /\ req \in [Workers -> UnitRequests]
  /\ racedOnce \in BOOLEAN
  /\ \A w \in Workers :
       LET r == req[w]
       IN  /\ r.visited \subseteq exists
           /\ {r.parent, r.home} \subseteq exists \cup {None}
           /\ r.scope # "company" => r.home \in exists
           /\ r.pc \in {"walk", "move"} => r.unit \in exists
           /\ r.pc = "walk" => r.at \in exists /\ r.parent \in exists

(* A unit cannot be moved under its descendant: the units are a forest.      *)
Acyclic == \A u \in exists : ~UnitOnCycle(u)

(* The hierarchy is a forest (OrganizationalUnitHierarchyCycleError), and no *)
(* query for unit ids hangs, until a request has committed a decision that   *)
(* another commit had overtaken.                                             *)
CyclesOnlyAfterOverlap ==
  ~racedOnce => Acyclic /\ \A w \in Workers : ~At(w, "hung")

(* What a request that was not overtaken has found is so: the rows of its    *)
(* walk are a way up from the new parent without the unit, and the walk that *)
(* has come to the top has shown that the parent is not below the unit.      *)
Faithful(w) ==
  LET r == req[w]
  IN  ~r.overtaken =>
        /\ r.pc = "walk" =>
             /\ r.unit \notin r.visited
             /\ r.parent \in r.visited \cup {r.at}
             /\ \A u \in r.visited : parent[u] \in r.visited \cup {r.at}
        /\ r.pc = "move" /\ r.parent # None => r.parent \notin Subtree(r.unit)
        /\ r.pc \in {"walk", "move"} /\ r.scope # "company" =>
             {r.unit, r.parent} \subseteq Reach(r.scope, r.home)
        /\ r.pc = "create" /\ r.scope # "company" => r.parent \in Subtree(r.home)

(* The inductive invariant: forest until a race, faithful walks.             *)
TreeInductive ==
  /\ UnitsTypeOK
  /\ CyclesOnlyAfterOverlap
  /\ \A w \in Workers : Faithful(w)

(* A move by a requester with unit scope takes no unit out of the tree of    *)
(* their unit and brings none in, unless another commit overtook it.         *)
TreeOfScopeKept ==
  [][\A w \in Workers, home \in exists :
       /\ At(w, "move") /\ req'[w] = UnitIdle /\ parent' # parent
       /\ req[w].scope # "company" /\ req[w].home = home /\ ~req[w].overtaken
       => Subtree(home)' = Subtree(home)]_unitVars

(* The walk up ends whatever the others do, also from a parent on a cycle.   *)
EveryWalkEnds == \A w \in Workers : At(w, "walk") ~> ~At(w, "walk")
=============================================================================
