----------------------------- MODULE Addresses -----------------------------
(***************************************************************************)
(* The address catalogue shared by all companies: types of addresses, the  *)
(* tree of address objects, buildings in it, their entrances and locations *)
(* (app/services/addresses.py, address_hierarchy.py, address_types.py).    *)
(*                                                                         *)
(* Handlers run under READ COMMITTED. They read what they need without     *)
(* locks, except that deletions and the update of a building lock the row  *)
(* first (FOR UPDATE), and they write the columns whose value differs from *)
(* the one they loaded. Foreign keys are the last guard: RESTRICT, with a  *)
(* KEY SHARE lock on the row that is referred to. A request is three       *)
(* steps: it loads its row, it validates, it writes and commits.           *)
(*                                                                         *)
(* Names, numbers and coordinates are left out: a write refused by a       *)
(* unique index is a request cut off, and updates of names, of entrances   *)
(* and of types change nothing here. What a building has on the map is in  *)
(* MapGraph. Ids are never used twice.                                     *)
(***************************************************************************)
EXTENDS Handlers, Integers, FiniteSets

CONSTANTS
  SystemTypes,  \* codes of address types the program knows
  CustomAreas,  \* address types made by users, of category "area"
  Objects, Buildings, Entrances, Locations,
  MaxRequests  \* bound on the requests started, for TLC

VARIABLES
  types,     \* address_types: unused, there or deleted
  object,    \* address_objects: type and parent
  building,  \* buildings: the object it stands at
  entrance,  \* entrances: the building it belongs to
  location,  \* locations: its building, and an entrance of it or none
  raced,     \* history: objects and buildings last written by a request that was overtaken
  adrift,    \* history: objects last moved or retyped while no root was above them
  requests   \* number of requests so far

tables == <<types, object, building, entrance, location>>
vars == <<types, object, building, entrance, location, req, raced, adrift, requests>>

-----------------------------------------------------------------------------
(* Rules of the hierarchy                                                    *)

Streets == {"street", "avenue", "lane"}
Towns == {"city", "settlement", "village"}
Districts == {"district", "municipal_district"}
Quarters == {"microdistrict", "quarter"}
Territories == {"snt_territory", "tsn_territory", "dnt_territory", "industrial_zone", "territory"}

AllSystemTypes == {"country", "region"} \cup Towns \cup Districts \cup Quarters \cup Territories \cup Streets
Types == SystemTypes \cup CustomAreas

ASSUME TypeAssumption ==
  /\ SystemTypes \subseteq AllSystemTypes
  /\ CustomAreas \cap (SystemTypes \cup {"unused", "deleted"}) = {}
ASSUME IdAssumption ==
  /\ None \notin Objects \cup Buildings \cup Entrances \cup Locations
  /\ Objects \cap Buildings = {}

Category(t) ==
  CASE t = "country" -> "country"
    [] t = "region" -> "region"
    [] t \in Towns -> "locality"
    [] t \in Districts \cup CustomAreas -> "area"
    [] t \in Quarters \cup Territories -> "territory"
    [] OTHER -> "thoroughfare"

RootCategories == {"country", "region", "locality"}
BuildingParentCategories == {"territory", "thoroughfare"}

(* allowed_child_categories: the table of system types and the one of        *)
(* categories agree. Only areas and territories nest in their own kind.      *)
ChildCategories(t) ==
  CASE Category(t) = "country" -> {"region", "locality"}
    [] Category(t) = "region" -> {"area", "locality"}
    [] Category(t) \in {"locality", "area"} -> {"area", "territory", "thoroughfare"}
    [] Category(t) = "territory" -> {"territory", "thoroughfare"}
    [] OTHER -> {}

AllowsBuildings(t) == Category(t) \in BuildingParentCategories

-----------------------------------------------------------------------------
(* Tables *)

ObjectRows == [type : Types \cup {"unused", "deleted"}, parent : Objects \cup {None}]
SiteRows(S) == [state : {"unused", "there", "deleted"}, at : S \cup {None}]
LocationRows ==
  [state : {"unused", "there", "deleted"}, building : Buildings \cup {None}, entrance : Entrances \cup {None}]

Unused == [type |-> "unused", parent |-> None]
Deleted == [type |-> "deleted", parent |-> None]
NoBuilding == [state |-> "unused", at |-> None]
NoLocation == [state |-> "unused", building |-> None, entrance |-> None]
Rased(row) == [row EXCEPT !.state = "deleted"]

KnownTypes == {t \in Types : types[t] = "there"}
There == {o \in Objects : object[o].type \in Types}
Built == {b \in Buildings : building[b].state = "there"}
Open == {e \in Entrances : entrance[e].state = "there"}
Placed == {l \in Locations : location[l].state = "there"}

Children(o) == {c \in There : object[c].parent = o}
BuildingsAt(o) == {b \in Built : building[b].at = o}

(* get_address_object_descendant_ids: the least set with the children of o   *)
(* and of its members.                                                       *)
Below(rows, o) ==
  LET closed == {S \in SUBSET Objects :
                   \A c \in Objects :
                     rows[c].type \in Types /\ rows[c].parent \in S \cup {o} => c \in S}
  IN  {x \in Objects : \A S \in closed : x \in S}

Descendants(o) == Below(object, o)

OnCycle(o) == o \in Descendants(o)

(* Addresses are paths from a root down: list_building_records joins them,   *)
(* and lists no building of an object that no root is above.                 *)
Rooted(o) == \E r \in There : object[r].parent = None /\ o \in {r} \cup Descendants(r)
ListedBuildings(o) == IF Rooted(o) THEN BuildingsAt(o) ELSE {}

(* Variant for mutation: the recursive query drops rows it has seen (UNION). *)
EndsAnyway(o) == TRUE

(* UNION ALL goes round a cycle for ever.                                    *)
QueryEnds(o) == ~OnCycle(o)

(* _validate_transition                                                      *)
Fits(t, p) ==
  IF p = None THEN Category(t) \in RootCategories
  ELSE Category(t) \in ChildCategories(object[p].type)

-----------------------------------------------------------------------------
(* Requests *)

Blank == [kind |-> "none", type |-> None, object |-> None, parent |-> None,
          building |-> None, entrance |-> None, location |-> None]

Deletions == {"delete_object", "delete_building", "delete_entrance", "delete_location"}
Kinds == {"none", "create_type", "delete_type", "create_object", "update_object",
          "create_building", "update_building", "create_entrance",
          "create_location", "update_location"} \cup Deletions

Bodies ==
  [kind : Kinds, type : Types \cup {None}, object : Objects \cup {None}, parent : Objects \cup {None},
   building : Buildings \cup {None}, entrance : Entrances \cup {None}, location : Locations \cup {None}]

OnType(kind, t) == [Blank EXCEPT !.kind = kind, !.type = t]
OnObject(kind, o, t, p) == [Blank EXCEPT !.kind = kind, !.object = o, !.type = t, !.parent = p]
OnBuilding(kind, b, p) == [Blank EXCEPT !.kind = kind, !.building = b, !.parent = p]
OnPlace(kind, b, e, l) == [Blank EXCEPT !.kind = kind, !.building = b, !.entrance = e, !.location = l]

TypeBodies ==
  {OnType("create_type", t) : t \in {u \in CustomAreas : types[u] = "unused"}}
  \cup {OnType("delete_type", t) : t \in KnownTypes}

ObjectBodies ==
  {OnObject("create_object", None, t, p) : t \in KnownTypes, p \in There \cup {None}}
  \cup {OnObject("update_object", o, t, p) : o \in There, t \in KnownTypes, p \in There \cup {None}}
  \cup {OnObject("delete_object", o, None, None) : o \in There}

BuildingBodies ==
  {OnBuilding("create_building", None, p) : p \in There}
  \cup {OnBuilding("update_building", b, p) : b \in Built, p \in There}
  \cup {OnBuilding("delete_building", b, None) : b \in Built}

PlaceBodies ==
  {OnPlace("create_entrance", b, None, None) : b \in Built}
  \cup {OnPlace("delete_entrance", None, e, None) : e \in Open}
  \cup {OnPlace("create_location", b, e, None) : b \in Built, e \in Open \cup {None}}
  \cup {OnPlace("update_location", b, e, l) : b \in Built, e \in Open \cup {None}, l \in Placed}
  \cup {OnPlace("delete_location", None, None, l) : l \in Placed}

(* `was` and `wasAt` are the row of an object and of a location as loaded;   *)
(* `overtaken` says that somebody committed since.                           *)
Requests ==
  [pc : {"idle", "loaded", "valid", "hung"}, op : Bodies, was : ObjectRows, wasAt : LocationRows,
   overtaken : BOOLEAN]

Idle == [pc |-> "idle", op |-> Blank, was |-> Unused, wasAt |-> NoLocation, overtaken |-> FALSE]

Op(w) == req[w].op
Become(w, r) == req' = [req EXCEPT ![w] = r]

(* Variant for mutation: a deletion reads its row without a lock.            *)
LockedByUpdateOnly(w) ==
  IF ~At(w, "idle") /\ Op(w).kind = "update_building" THEN {Op(w).building} ELSE {}

(* Rows locked FOR UPDATE, from the first statement to the end.              *)
Locked(w) ==
  IF ~At(w, "idle") /\ Op(w).kind \in Deletions \cup {"update_building"}
  THEN {Op(w).object, Op(w).building, Op(w).entrance, Op(w).location} \ {None}
  ELSE {}

Free(w, rows) == \A v \in Workers \ {w} : Locked(v) \cap rows = {}

RowOf(op) == {op.object, op.building, op.entrance, op.location}

(* Ids left for a row to be inserted, a bound of the instance: one for each  *)
(* request that may be about to insert.                                      *)
IdsLeft(op) ==
  LET left(S) == Cardinality(S) > Cardinality({v \in Workers : Op(v).kind = op.kind})
  IN  CASE op.kind = "create_object" -> left({o \in Objects : object[o] = Unused})
        [] op.kind = "create_building" -> left({b \in Buildings : building[b] = NoBuilding})
        [] op.kind = "create_entrance" -> left({e \in Entrances : entrance[e] = NoBuilding})
        [] op.kind = "create_location" -> left({l \in Locations : location[l] = NoLocation})
        [] OTHER -> TRUE

Load(w, op) ==
  /\ At(w, "idle") /\ requests < MaxRequests /\ IdsLeft(op)
  /\ op.kind \in Deletions \cup {"update_building"} => Free(w, RowOf(op))
  /\ Become(w, [Idle EXCEPT
       !.pc = "loaded", !.op = op,
       !.was = IF op.object = None THEN Unused ELSE object[op.object],
       !.wasAt = IF op.location = None THEN NoLocation ELSE location[op.location]])
  /\ requests' = requests + 1
  /\ UNCHANGED <<tables, raced, adrift>>

-----------------------------------------------------------------------------
(* Validation *)

Retypes(r) == r.op.type # r.was.type
Moves(r) == r.op.parent # r.was.parent

(* Variant for mutation: the objects below are not looked at.                *)
OnlyAbove(r) == r.op.parent = None \/ r.op.parent \in There \ {r.op.object}

(* The parent is not the object nor below it.                                *)
ParentValid(r) ==
  \/ r.op.parent = None
  \/ r.op.parent \in There \ ({r.op.object} \cup Descendants(r.op.object))

(* validate_address_object_hierarchy                                         *)
HierarchyValid(r) ==
  LET t == r.op.type
      o == r.op.object
  IN  /\ ParentValid(r) /\ Fits(t, r.op.parent)
      /\ \A c \in Children(o) : Category(object[c].type) \in ChildCategories(t)
      /\ AllowsBuildings(t) \/ ListedBuildings(o) = {}

(* validate_building_parent                                                  *)
BuildingParentValid(p) == p \in There /\ AllowsBuildings(object[p].type)

(* _validate_location_links                                                  *)
LinksValid(op) ==
  /\ op.building \in Built
  /\ op.entrance # None => op.entrance \in Open /\ entrance[op.entrance].at = op.building

Valid(r) ==
  LET op == r.op
  IN  CASE op.kind = "create_type" -> TRUE
        [] op.kind = "delete_type" ->
             op.type \in KnownTypes \ SystemTypes /\ \A o \in There : object[o].type # op.type
        [] op.kind = "create_object" ->
             /\ op.type \in KnownTypes
             /\ op.parent \in There \cup {None} /\ Fits(op.type, op.parent)
        [] op.kind = "update_object" ->
             op.type \in KnownTypes /\ (Retypes(r) \/ Moves(r) => HierarchyValid(r))
        [] op.kind = "delete_object" ->
             op.object \in There /\ Children(op.object) = {} /\ BuildingsAt(op.object) = {}
        [] op.kind = "create_building" -> BuildingParentValid(op.parent)
        [] op.kind = "update_building" -> op.building \in Built /\ BuildingParentValid(op.parent)
        [] op.kind = "delete_building" ->
             /\ op.building \in Built
             /\ \A e \in Open : entrance[e].at # op.building
             /\ \A l \in Placed : location[l].building # op.building
        [] op.kind = "create_entrance" -> op.building \in Built
        [] op.kind = "delete_entrance" ->
             op.entrance \in Open /\ \A l \in Placed : location[l].entrance # op.entrance
        [] op.kind = "delete_location" -> op.location \in Placed
        [] OTHER -> LinksValid(op)

(* The descendants are asked for only when the object gets a parent.         *)
Walks(r) ==
  /\ r.op.kind = "update_object" /\ (Retypes(r) \/ Moves(r))
  /\ r.op.parent \in There \ {r.op.object}

Validate(w) ==
  LET r == req[w]
  IN  /\ At(w, "loaded")
      /\ Walks(r) => QueryEnds(r.op.object)
      /\ Become(w, IF Valid(r) THEN [r EXCEPT !.pc = "valid"] ELSE Idle)
      /\ UNCHANGED <<tables, raced, adrift, requests>>

(* The query of the descendants does not come back.                          *)
Hang(w) ==
  /\ At(w, "loaded") /\ Walks(req[w]) /\ ~QueryEnds(Op(w).object)
  /\ Become(w, [req[w] EXCEPT !.pc = "hung"])
  /\ UNCHANGED <<tables, raced, adrift, requests>>

-----------------------------------------------------------------------------
(* Commits *)

(* Variant for mutation: the entrance of a location need only exist.         *)
EntranceExists(b, e) == b \in Built /\ e \in Open \cup {None}

(* The foreign keys of a location, the composite one included: an entrance   *)
(* and its building are referred to together.                                *)
PlaceExists(b, e) == b \in Built /\ (e # None => e \in Open /\ entrance[e].at = b)

(* The location as it would be written: only what the body changes.          *)
Changed(r) ==
  LET now == location[r.op.location]
  IN  [now EXCEPT !.building = IF r.op.building # r.wasAt.building THEN r.op.building ELSE @,
                  !.entrance = IF r.op.entrance # r.wasAt.entrance THEN r.op.entrance ELSE @]

Reparented(r) ==
  LET now == object[r.op.object]
  IN  [type |-> IF Retypes(r) THEN r.op.type ELSE now.type,
       parent |-> IF Moves(r) THEN r.op.parent ELSE now.parent]

(* What the foreign keys, and the row to be there, ask of the write.         *)
KeysHold(r) ==
  LET op == r.op
  IN  CASE op.kind = "delete_type" ->
             op.type \in KnownTypes /\ \A o \in There : object[o].type # op.type
        [] op.kind = "create_object" -> op.type \in KnownTypes /\ op.parent \in There \cup {None}
        [] op.kind = "update_object" ->
             /\ op.object \in There
             /\ Retypes(r) => op.type \in KnownTypes
             /\ Moves(r) => op.parent \in There \cup {None}
        [] op.kind = "delete_object" ->
             op.object \in There /\ Children(op.object) = {} /\ BuildingsAt(op.object) = {}
        [] op.kind \in {"create_building", "update_building"} -> op.parent \in There
        [] op.kind = "delete_building" ->
             /\ \A e \in Open : entrance[e].at # op.building
             /\ \A l \in Placed : location[l].building # op.building
        [] op.kind = "create_entrance" -> op.building \in Built
        [] op.kind = "delete_entrance" -> \A l \in Placed : location[l].entrance # op.entrance
        [] op.kind = "create_location" -> PlaceExists(op.building, op.entrance)
        [] op.kind = "update_location" ->
             op.location \in Placed /\ PlaceExists(Changed(r).building, Changed(r).entrance)
        [] OTHER -> TRUE

(* Rows a write needs KEY SHARE on, or updates: it waits while they are      *)
(* locked by another.                                                        *)
Needed(op) ==
  IF op.kind \in {"delete_type", "create_type"} \cup Deletions THEN {}
  ELSE ({op.parent} \cup RowOf(op)) \ {None}

Ready(w) == At(w, "valid") /\ Free(w, Needed(Op(w)))

Commits(w, kind) ==
  /\ Ready(w) /\ Op(w).kind = kind /\ KeysHold(req[w])
  /\ req' = [v \in Workers |->
       IF v = w THEN Idle ELSE IF At(v, "idle") THEN Idle ELSE [req[v] EXCEPT !.overtaken = TRUE]]
  /\ UNCHANGED requests

(* x is written by the request of w.                                         *)
Marks(w, x) == raced' = IF req[w].overtaken THEN raced \cup {x} ELSE raced \ {x}

WriteType(w) ==
  /\ \/ Commits(w, "create_type") /\ types' = [types EXCEPT ![Op(w).type] = "there"]
     \/ Commits(w, "delete_type") /\ types' = [types EXCEPT ![Op(w).type] = "deleted"]
  /\ UNCHANGED <<object, building, entrance, location, raced, adrift>>

CreateAddressObject(w) ==
  /\ Commits(w, "create_object")
  /\ \E o \in {n \in Objects : object[n] = Unused} :
       /\ object' = [object EXCEPT ![o] = [type |-> Op(w).type, parent |-> Op(w).parent]]
       /\ Marks(w, o)
  /\ UNCHANGED <<types, building, entrance, location, adrift>>

UpdateAddressObject(w) ==
  /\ Commits(w, "update_object")
  /\ object' = [object EXCEPT ![Op(w).object] = Reparented(req[w])]
  /\ LET o == Op(w).object
     IN  IF Retypes(req[w]) \/ Moves(req[w])
         THEN Marks(w, o) /\ adrift' = IF Rooted(o) THEN adrift \ {o} ELSE adrift \cup {o}
         ELSE UNCHANGED <<raced, adrift>>
  /\ UNCHANGED <<types, building, entrance, location>>

DeleteAddressObject(w) ==
  /\ Commits(w, "delete_object")
  /\ object' = [object EXCEPT ![Op(w).object] = Deleted]
  /\ raced' = raced \ {Op(w).object}
  /\ adrift' = adrift \ {Op(w).object}
  /\ UNCHANGED <<types, building, entrance, location>>

WriteBuilding(w) ==
  /\ \E b \in Buildings :
       /\ \/ Commits(w, "create_building") /\ building[b] = NoBuilding
          \/ Commits(w, "update_building") /\ b = Op(w).building
       /\ building' = [building EXCEPT ![b] = [state |-> "there", at |-> Op(w).parent]]
       /\ IF building'[b] # building[b] THEN Marks(w, b) ELSE UNCHANGED raced
  /\ UNCHANGED <<types, object, entrance, location, adrift>>

DeleteBuilding(w) ==
  /\ Commits(w, "delete_building")
  /\ building' = [building EXCEPT ![Op(w).building] = Rased(@)]
  /\ raced' = raced \ {Op(w).building}
  /\ UNCHANGED <<types, object, entrance, location, adrift>>

WriteEntrance(w) ==
  /\ \E e \in Entrances :
       \/ /\ Commits(w, "create_entrance") /\ entrance[e].state = "unused"
          /\ entrance' = [entrance EXCEPT ![e] = [state |-> "there", at |-> Op(w).building]]
       \/ /\ Commits(w, "delete_entrance") /\ e = Op(w).entrance
          /\ entrance' = [entrance EXCEPT ![e] = Rased(@)]
  /\ UNCHANGED <<types, object, building, location, raced, adrift>>

WriteLocation(w) ==
  /\ \E l \in Locations :
       \/ /\ Commits(w, "create_location") /\ location[l] = NoLocation
          /\ location' = [location EXCEPT ![l] =
               [state |-> "there", building |-> Op(w).building, entrance |-> Op(w).entrance]]
       \/ /\ Commits(w, "update_location") /\ l = Op(w).location
          /\ location' = [location EXCEPT ![l] = Changed(req[w])]
       \/ /\ Commits(w, "delete_location") /\ l = Op(w).location
          /\ location' = [location EXCEPT ![l] = Rased(@)]
  /\ UNCHANGED <<types, object, building, entrance, raced, adrift>>

(* A foreign key, or an update that finds no row, refuses the write.         *)
RefusedByKey(w) ==
  /\ Ready(w) /\ ~KeysHold(req[w])
  /\ Become(w, Idle)
  /\ UNCHANGED <<tables, raced, adrift, requests>>

(* The request is cut off, or a unique index refuses its write.              *)
CutOff(w) ==
  /\ ~At(w, "idle")
  /\ Become(w, Idle)
  /\ UNCHANGED <<tables, raced, adrift, requests>>

(* sync_system_address_types, at startup.                                    *)
SyncTypes ==
  /\ \E t \in SystemTypes : types[t] = "unused"
  /\ types' = [t \in Types |-> IF t \in SystemTypes THEN "there" ELSE types[t]]
  /\ UNCHANGED <<object, building, entrance, location, req, raced, adrift, requests>>

Init ==
  /\ types = [t \in Types |-> "unused"]
  /\ object = [o \in Objects |-> Unused]
  /\ building = [b \in Buildings |-> NoBuilding]
  /\ entrance = [e \in Entrances |-> NoBuilding]
  /\ location = [l \in Locations |-> NoLocation]
  /\ req = [w \in Workers |-> Idle]
  /\ raced = {}
  /\ adrift = {}
  /\ requests = 0

Write(w) ==
  \/ WriteType(w)
  \/ CreateAddressObject(w) \/ UpdateAddressObject(w) \/ DeleteAddressObject(w)
  \/ WriteBuilding(w) \/ DeleteBuilding(w)
  \/ WriteEntrance(w) \/ WriteLocation(w)

Step(w) == Validate(w) \/ Hang(w) \/ Write(w) \/ RefusedByKey(w)

Next ==
  \/ SyncTypes
  \/ \E w \in Workers :
       \/ \E op \in TypeBodies \cup ObjectBodies \cup BuildingBodies \cup PlaceBodies : Load(w, op)
       \/ Step(w) \/ CutOff(w)

Spec == Init /\ [][Next]_vars

-----------------------------------------------------------------------------
(* Properties *)

TypeOK ==
  /\ types \in [Types -> {"unused", "there", "deleted"}]
  /\ object \in [Objects -> ObjectRows]
  /\ building \in [Buildings -> SiteRows(Objects)]
  /\ entrance \in [Entrances -> SiteRows(Buildings)]
  /\ location \in [Locations -> LocationRows]
  /\ req \in [Workers -> Requests]
  /\ \A o \in There : object[o].type \in KnownTypes /\ object[o].parent \in There \cup {None}
  /\ \A b \in Built : building[b].at \in There
  /\ \A e \in Open : entrance[e].at \in Built
  /\ raced \subseteq There \cup Built /\ adrift \subseteq There

(* Every object stands under a parent its type may have, buildings stand     *)
(* only in territories and streets, and no object is above itself - unless a *)
(* request wrote one of the objects involved although somebody had committed *)
(* since it read them: validation reads without locks. And an object that    *)
(* such a cycle cuts off from the roots changes its type as if it had no     *)
(* buildings.                                                                *)
RulesBrokenOnlyByOverlap ==
  /\ TypeOK
  /\ \A o \in There : Fits(object[o].type, object[o].parent) \/ raced \cap {o, object[o].parent} # {}
  /\ \A b \in Built :
       \/ AllowsBuildings(object[building[b].at].type)
       \/ raced \cap {b, building[b].at} # {} \/ building[b].at \in adrift
  /\ \A o \in There : OnCycle(o) => \E p \in raced \cap Descendants(o) : OnCycle(p)

(* A cycle of objects does not go away by moving them elsewhere, nor by      *)
(* deleting them: only by making one of them a root, which no area and no    *)
(* territory can be without another type - or by a request that had          *)
(* validated its move before the cycle closed.                               *)
CyclesBrokenOnlyAtRoot ==
  [][\A o \in Objects : OnCycle(o) /\ ~OnCycle(o)' =>
       \E p \in Descendants(o) :
         OnCycle(p) /\ (object'[p].parent = None \/ p \in raced')]_vars

(* A deletion that found nothing below its row, under the lock of that row,  *)
(* is never refused by a foreign key afterwards: whoever wants to hang       *)
(* something there waits, and is the one refused.                            *)
DeletionsFinal ==
  \A w \in Workers :
    At(w, "valid") /\ Op(w).kind \in Deletions => KeysHold(req[w])

(* The entrance of a location is an entrance of its building, though two     *)
(* requests may each change one of the two, each valid with the other half   *)
(* it had read.                                                              *)
LocationTogether ==
  \A l \in Placed :
    /\ location[l].building \in Built
    /\ location[l].entrance # None =>
         location[l].entrance \in Open /\ entrance[location[l].entrance].at = location[l].building
=============================================================================
