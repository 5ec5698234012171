------------------------------ MODULE MapGraph ------------------------------
(***************************************************************************)
(* The map of one company: markers, connections and the objects along      *)
(* them, over the houses all companies share.                              *)
(*                                                                         *)
(* Handlers of the map (app/services/map_markers.py, map_connections.py)   *)
(* take the advisory lock of the company, then rows of houses, then rows   *)
(* of markers. Handlers of the address catalogue (addresses.py) move and   *)
(* delete houses with the row of the house alone. A request is four steps: *)
(* it gets the company lock and reads, it locks houses, it locks markers   *)
(* and decides, it commits.                                                *)
(*                                                                         *)
(* Geometry is a line: a place is a number, a connection covers what lies  *)
(* between its ends. Vertices, installation methods, styles and texts are  *)
(* abstracted, so is visibility: everything is company-wide. A client      *)
(* whose version of a row is old is refused under the company lock: the    *)
(* requests here are those check_version lets through.                     *)
(***************************************************************************)
EXTENDS Integers, FiniteSets

CONSTANTS
  Houses,       \* ids of buildings
  Markers,      \* ids of markers
  Connections,  \* ids of connections
  Places,       \* coordinates
  Workers,      \* requests that can be in flight together
  MaxCommits,   \* bound on the requests done or in flight, for TLC
  None,
  Gone          \* the place of a deleted house

ASSUME PlaceAssumption == Places \subseteq Int
ASSUME IdAssumption ==
  /\ None \notin Houses \cup Markers \cup Connections \cup Places \cup {Gone}
  /\ Houses \cap Markers = {} /\ Gone \notin Places

VARIABLES
  house,    \* the place of a house, None if it has none, Gone if deleted
  marker,   \* role, house and place of a marker
  route,    \* the two ends of a connection
  anchor,   \* the connection a marker is fixed to (map_route_objects)
  req,      \* the request each worker is running
  skewed,   \* history: connections whose two ends moved in overlapping requests
  commits   \* number of commits so far

tables == <<house, marker, route, anchor>>
vars == <<house, marker, route, anchor, req, skewed, commits>>

-----------------------------------------------------------------------------
(* Tables *)

Roles == {"none", "reference", "represents"}
Absent == [role |-> "absent", house |-> None, place |-> None]
Unbuilt == [from |-> None, to |-> None]

Present == {m \in Markers : marker[m] # Absent}
Built == {c \in Connections : route[c] # Unbuilt}
Standing == {h \in Houses : house[h] # Gone}

(* The marker that represents a house has no place of its own.               *)
PlaceOf(e) ==
  CASE e \in Standing -> house[e]
    [] e \in Present /\ marker[e].role = "represents" /\ marker[e].house \in Standing ->
         house[marker[e].house]
    [] e \in Present /\ marker[e].role # "represents" -> marker[e].place
    [] OTHER -> None

Ends(c) == {route[c].from, route[c].to}
Line(c) == <<PlaceOf(route[c].from), PlaceOf(route[c].to)>>
EndingAt(e) == {c \in Built : e \in Ends(c)}
Anchored(c) == {m \in Present : anchor[m] = c}

(* The line once the end e is at p.                                          *)
LineWith(c, e, p) ==
  <<IF route[c].from = e THEN p ELSE PlaceOf(route[c].from),
    IF route[c].to = e THEN p ELSE PlaceOf(route[c].to)>>

(* locate_anchor: the place lies on the line, its ends included, and the     *)
(* line has a length.                                                        *)
Within(p, line) ==
  /\ None \notin {line[1], line[2]} /\ line[1] # line[2]
  /\ \/ line[1] <= p /\ p <= line[2]
     \/ line[2] <= p /\ p <= line[1]

Inside(p, line) == Within(p, line) /\ p \notin {line[1], line[2]}

-----------------------------------------------------------------------------
(* Requests *)

Blank == [kind |-> "boundary", marker |-> None, connection |-> None, house |-> None,
          place |-> None, clears |-> FALSE, role |-> "keep", from |-> None, to |-> None,
          tail |-> None]

SaveKinds == {"create", "update"}
RouteKinds == {"place", "split", "detach", "boundary"}
HouseKinds == {"move", "demolish"}

Kinds == SaveKinds \cup RouteKinds \cup HouseKinds \cup {"connect", "erase", "remove"}

Things == Houses \cup Markers
Rows == [role : Roles \cup {"absent"}, house : Houses \cup {None}, place : Places \cup {None}]

Asked == [kind : Kinds, marker : Markers \cup {None}, connection : Connections \cup {None},
          house : Houses \cup {None}, place : Places \cup {None}, clears : BOOLEAN,
          role : Roles \cup {"keep"},
          from : Things \cup {None}, to : Things \cup {None}, tail : Connections \cup {None}]

(* `was` is the marker as first read, `line` the geometry the client saw,    *)
(* `stale` the ids whose rows changed since the request began, `late` those  *)
(* that changed since it decided, `houses` and `rows` what is locked.        *)
Requests ==
  [pc : {"idle", "houses", "rows", "commit"}, op : Asked, was : Rows,
   line : (Places \cup {None}) \X (Places \cup {None}),
   stale : SUBSET (Things \cup Connections), late : SUBSET (Things \cup Connections),
   houses : SUBSET Houses, rows : SUBSET Markers]

Idle == [pc |-> "idle", op |-> Blank, was |-> Absent, line |-> <<None, None>>,
         stale |-> {}, late |-> {}, houses |-> {}, rows |-> {}]

At(w, pc) == req[w].pc = pc
Op(w) == req[w].op
OnMap(op) == op.kind \notin HouseKinds

NewMarkers == Markers \ Present
NewConnections == Connections \ Built

(* Bodies a client may send, given what it sees. A place in a body that      *)
(* binds a marker as the one that represents is `building_position`.         *)
SaveBody(kind, m, role, h, p) ==
  [Blank EXCEPT !.kind = kind, !.marker = m, !.role = role, !.house = h, !.place = p]

(* An update whose latitude and longitude are null on purpose.               *)
ClearBody(m, role, h) ==
  [Blank EXCEPT !.kind = "update", !.marker = m, !.role = role, !.house = h, !.clears = TRUE]

GivesPoint(op) == op.place # None \/ op.clears

LineBody(kind, c, p, m, tail) ==
  [Blank EXCEPT !.kind = kind, !.connection = c, !.place = p, !.marker = m, !.tail = tail]

ConnectBody(c, from, to) ==
  [Blank EXCEPT !.kind = "connect", !.connection = c, !.from = from, !.to = to]

HouseBody(kind, h, p) == [Blank EXCEPT !.kind = kind, !.house = h, !.place = p]

SaveBodies ==
  {SaveBody("create", m, "none", None, p) : m \in NewMarkers, p \in Places}
  \cup {SaveBody("create", m, "reference", h, p) :
          m \in NewMarkers, h \in Standing, p \in Places}
  \cup {SaveBody("create", m, "represents", h, p) :
          m \in NewMarkers, h \in Standing, p \in Places \cup {None}}
  \cup {SaveBody("update", m, role, None, p) :
          m \in Present, role \in {"keep", "none"}, p \in Places \cup {None}}
  \cup {SaveBody("update", m, role, h, p) :
          m \in Present, role \in {"reference", "represents"}, h \in Standing,
          p \in Places \cup {None}}
  \cup {ClearBody(m, role, None) : m \in Present, role \in {"keep", "none"}}
  \cup {ClearBody(m, "reference", h) : m \in Present, h \in Standing}

ConnectBodies ==
  {op \in {ConnectBody(c, e, f) : c \in Connections,
                                 e \in Standing \cup Present, f \in Standing \cup Present} :
     op.from # op.to}

RouteBodies ==
  {LineBody("boundary", c, None, None, None) : c \in Built}
  \cup {LineBody("place", c, p, m, None) : c \in Built, p \in Places, m \in NewMarkers}
  \cup {LineBody("split", c, p, m, t) :
          c \in Built, p \in Places, m \in NewMarkers, t \in NewConnections}
  \cup {LineBody("detach", anchor[m], None, m, None) : m \in {n \in Present : anchor[n] # None}}

DeleteBodies ==
  {LineBody("erase", None, None, m, None) : m \in Present}
  \cup {LineBody("remove", c, None, None, None) : c \in Built}

HouseBodies ==
  {HouseBody("move", h, p) : h \in Standing, p \in Places \cup {None}}
  \cup {HouseBody("demolish", h, None) : h \in Standing}

Bodies == SaveBodies \cup ConnectBodies \cup RouteBodies \cup DeleteBodies \cup HouseBodies

Become(w, r) ==
  /\ req' = [req EXCEPT ![w] = r]
  /\ UNCHANGED <<tables, skewed, commits>>

-----------------------------------------------------------------------------
(* Locks *)

(* pg_advisory_xact_lock of the company: from the first read to the end.     *)
HasCompany(w) == OnMap(Op(w)) /\ ~At(w, "idle")

(* The house a marker will have after the update.                            *)
HouseAfter(r) == IF r.op.role = "keep" THEN r.was.house ELSE r.op.house
RoleAfter(r) == IF r.op.role = "keep" THEN r.was.role ELSE r.op.role

(* lock_buildings                                                            *)
HousesOf(r) ==
  {h \in Standing :
     \/ r.op.kind \in SaveKinds /\ h \in {HouseAfter(r), r.was.house}
     \/ r.op.kind = "connect" /\ h \in {r.op.from, r.op.to}
     \/ r.op.kind \in RouteKinds /\ h \in Ends(r.op.connection)
     \/ ~OnMap(r.op) /\ h = r.op.house}

(* The marker that represents the house so far.                              *)
Occupants(r) ==
  {m \in Present \ {r.op.marker} :
     RoleAfter(r) = "represents" /\ marker[m].role = "represents" /\ marker[m].house = HouseAfter(r)}

(* Rows of markers, last of all. The rows of one statement are taken in the  *)
(* order of their ids: at once here.                                         *)
RowsOf(r) ==
  {m \in Present :
     \/ r.op.kind \in {"update", "erase"} /\ m = r.op.marker
     \/ r.op.kind \in SaveKinds /\ m \in Occupants(r)
     \/ r.op.kind = "connect" /\ m \in {r.op.from, r.op.to}
     \/ r.op.kind \in RouteKinds /\ m \in Ends(r.op.connection)
     \/ r.op.kind = "demolish" /\ marker[m].house = r.op.house}

(* Variant for mutation: the guard of a move takes the lock of the company.  *)
GuardWaits(w) == At(w, "rows") /\ Op(w).kind = "move"

(* guard_endpoint_position never takes the lock of the company: a request    *)
(* that has begun does not wait for it.                                      *)
WaitsForCompany(w) == FALSE

(* Variant for mutation: houses at the ends of a line are read, not locked.  *)
HousesUnlocked(r) == IF r.op.kind \in RouteKinds THEN {} ELSE HousesOf(r)

Locked(r) == HousesOf(r)

(* PostgreSQL: who has what a request waits for.                             *)
Blockers(w) ==
  {v \in Workers \ {w} :
     \/ WaitsForCompany(w) /\ HasCompany(v)
     \/ At(w, "houses") /\ HousesOf(req[w]) \cap req[v].houses # {}
     \/ At(w, "rows") /\ RowsOf(req[w]) \cap req[v].rows # {}}

Goes(w, pc) == At(w, pc) /\ Blockers(w) = {}

-----------------------------------------------------------------------------
(* Reads *)

(* The map starts empty; houses are there, with a place or without.          *)
Init ==
  /\ house \in [Houses -> Places \cup {None}]
  /\ marker = [m \in Markers |-> Absent]
  /\ route = [c \in Connections |-> Unbuilt]
  /\ anchor = [m \in Markers |-> None]
  /\ req = [w \in Workers |-> Idle]
  /\ skewed = {}
  /\ commits = 0

(* Variant for mutation: the marker stays the end though it represents.      *)
EndpointAsGiven(e) == e

(* _endpoint: a marker that represents a house stands for the house.         *)
Resolve(e) == IF e \in Present /\ marker[e].role = "represents" THEN marker[e].house ELSE e

(* A request of the map waits for the company and reads its row.             *)
Begin(w, op) ==
  /\ At(w, "idle") /\ commits + Cardinality({v \in Workers : ~At(v, "idle")}) < MaxCommits
  /\ OnMap(op) => ~\E v \in Workers : HasCompany(v)
  /\ Become(w, [Idle EXCEPT
       !.pc = "houses",
       !.op = IF op.kind = "connect"
              THEN [op EXCEPT !.from = Resolve(op.from), !.to = Resolve(op.to)] ELSE op,
       !.was = IF op.kind = "update" THEN marker[op.marker] ELSE @,
       !.line = IF op.kind \in RouteKinds THEN Line(op.connection) ELSE @])

(* The house a request is about must still be there.                         *)
NeedsHouse(r) ==
  CASE r.op.kind \in SaveKinds -> {HouseAfter(r)} \ {None}
    [] ~OnMap(r.op) -> {r.op.house}
    [] OTHER -> {}

LockHouses(w) ==
  LET r == req[w]
  IN  /\ Goes(w, "houses")
      /\ \/ /\ NeedsHouse(r) \subseteq Standing
            /\ Become(w, [r EXCEPT !.pc = "rows", !.houses = Locked(r)])
         \/ ~(NeedsHouse(r) \subseteq Standing) /\ Become(w, Idle)

-----------------------------------------------------------------------------
(* Decisions *)

(* guard_endpoint_position: what is fixed to a line stays on it.             *)
GuardHolds(e, p) ==
  \A c \in EndingAt(e) : \A m \in Anchored(c) : Within(marker[m].place, LineWith(c, e, p))

(* An object on a line keeps its role, house and place.                      *)
ChangesFixed(r) ==
  /\ anchor[r.op.marker] # None
  /\ \/ r.op.role \notin {"keep", marker[r.op.marker].role}
     \/ GivesPoint(r.op) /\ r.op.place # marker[r.op.marker].place

Rebinds(r) ==
  /\ {None} \cap {marker[r.op.marker].house, HouseAfter(r)} = {}
  /\ marker[r.op.marker].house # HouseAfter(r)

(* binding_confirmation: the token covers the versions of what it names.     *)
Confirmed(r) ==
  r.stale \cap ({r.op.marker, marker[r.op.marker].house, HouseAfter(r)} \cup Occupants(r)) = {}

(* building_position: the marker that represents a house moves it.           *)
MovesHouse(r) == r.op.kind \in SaveKinds /\ r.op.role = "represents" /\ r.op.place # None

SavePermits(r) ==
  LET m == r.op.marker
  IN  /\ ~ChangesFixed(r)
      /\ MovesHouse(r) => GuardHolds(r.op.house, r.op.place)
      /\ ~MovesHouse(r) /\ GivesPoint(r.op) => GuardHolds(m, r.op.place)
      /\ RoleAfter(r) = "represents" /\ marker[m].role # "represents" => EndingAt(m) = {}
      /\ Occupants(r) # {} \/ Rebinds(r) => Confirmed(r)

(* A deletion can win after the read and before the lock.                    *)
EndsStand(r) == {r.op.from, r.op.to} \subseteq Standing \cup Present

ConnectPermits(r) ==
  LET line == <<PlaceOf(r.op.from), PlaceOf(r.op.to)>>
  IN  /\ EndsStand(r) /\ r.op.from # r.op.to
      /\ None \notin {line[1], line[2]} /\ line[1] # line[2]
      /\ \A m \in Anchored(r.op.connection) : Within(marker[m].place, line)

(* The geometry token of the client, then the rules of the operation.        *)
RoutePermits(r) ==
  LET c == r.op.connection
      onLine == \A m \in Anchored(c) : Within(marker[m].place, Line(c))
  IN  /\ Line(c) = r.line
      /\ r.op.kind \in {"place", "split"} => Inside(r.op.place, Line(c))
      /\ r.op.kind = "split" => onLine
      /\ r.op.kind = "boundary" =>
           None \notin {r.line[1], r.line[2]} /\ r.line[1] # r.line[2] /\ onLine
      /\ r.op.kind = "detach" => anchor[r.op.marker] = c

Permits(r) ==
  CASE r.op.kind \in SaveKinds -> SavePermits(r)
    [] r.op.kind = "erase" -> EndingAt(r.op.marker) = {}
    [] r.op.kind = "connect" -> ConnectPermits(r)
    [] r.op.kind = "remove" -> Anchored(r.op.connection) = {}
    [] r.op.kind = "move" -> GuardHolds(r.op.house, r.op.place)
    [] r.op.kind = "demolish" -> EndingAt(r.op.house) = {}
    [] OTHER -> RoutePermits(r)

Decide(w) ==
  LET r == req[w]
  IN  /\ Goes(w, "rows")
      /\ \/ Permits(r) /\ Become(w, [r EXCEPT !.pc = "commit", !.rows = RowsOf(r)])
         \/ ~Permits(r) /\ Become(w, Idle)

-----------------------------------------------------------------------------
(* Commits *)

(* What a request puts at another place, or at none.                         *)
Moved(r) ==
  CASE r.op.kind = "move" \/ MovesHouse(r) -> {r.op.house}
    [] r.op.kind = "update" /\ ~MovesHouse(r) /\ GivesPoint(r.op) -> {r.op.marker}
    [] OTHER -> {}

(* Connections of a moved end whose other end moved after the decision: the  *)
(* guard had read it without a lock.                                         *)
Skews(r) == {c \in Built : \E e \in Moved(r) : e \in Ends(c) /\ (Ends(c) \ {e}) \cap r.late # {}}

(* A commit is seen by the requests still running.                           *)
Commit(w, changed) ==
  /\ req' = [v \in Workers |->
       IF v = w \/ At(v, "idle") THEN Idle
       ELSE IF ~At(v, "commit") THEN [req[v] EXCEPT !.stale = IF OnMap(Op(v)) THEN @ \cup changed ELSE @]
       ELSE [req[v] EXCEPT !.late = IF Moved(req[v]) # {} THEN @ \cup changed ELSE @]]
  /\ commits' = commits + 1

(* Every column of the row as first read, with the changes of the body; the  *)
(* place of a house that is no longer represented is kept. Only a new marker *)
(* has to have a point: an update may empty it.                              *)
PointAfter(r) ==
  LET current == marker[r.op.marker]
  IN  IF GivesPoint(r.op) THEN r.op.place
      ELSE IF current.role = "represents" /\ current.house \in r.houses THEN house[current.house]
      ELSE r.was.place

SaveMarker(w) ==
  LET r == req[w]
      h == HouseAfter(r)
      binds == RoleAfter(r) = "represents"
      saved == [role |-> RoleAfter(r), house |-> h, place |-> IF binds THEN None ELSE PointAfter(r)]
      displaced == Occupants(r)
  IN  /\ At(w, "commit") /\ r.op.kind \in SaveKinds
      /\ marker' = [n \in Markers |->
           IF n = r.op.marker THEN saved
           ELSE IF n \in displaced THEN [role |-> "reference", house |-> h, place |-> house[h]]
           ELSE marker[n]]
      /\ house' = IF MovesHouse(r) THEN [house EXCEPT ![h] = r.op.place] ELSE house
      /\ skewed' = skewed \cup Skews(r)
      /\ UNCHANGED <<route, anchor>>
      /\ Commit(w, {r.op.marker} \cup displaced \cup IF MovesHouse(r) THEN {h} ELSE {})

(* ON DELETE CASCADE takes the anchor along.                                 *)
DeleteMarker(w) ==
  LET m == Op(w).marker
  IN  /\ At(w, "commit") /\ Op(w).kind = "erase"
      /\ marker' = [marker EXCEPT ![m] = Absent]
      /\ anchor' = [anchor EXCEPT ![m] = None]
      /\ UNCHANGED <<house, route, skewed>>
      /\ Commit(w, {m})

SaveConnection(w) ==
  LET op == Op(w)
  IN  /\ At(w, "commit") /\ op.kind = "connect"
      /\ route' = [route EXCEPT ![op.connection] = [from |-> op.from, to |-> op.to]]
      /\ UNCHANGED <<house, marker, anchor, skewed>>
      /\ Commit(w, {op.connection})

DeleteConnection(w) ==
  LET c == Op(w).connection
  IN  /\ At(w, "commit") /\ Op(w).kind = "remove"
      /\ route' = [route EXCEPT ![c] = Unbuilt]
      /\ skewed' = skewed \ {c}
      /\ UNCHANGED <<house, marker, anchor>>
      /\ Commit(w, {c})

PlaceRouteObject(w) ==
  LET op == Op(w)
  IN  /\ At(w, "commit") /\ op.kind = "place"
      /\ marker' = [marker EXCEPT ![op.marker] = [role |-> "none", house |-> None, place |-> op.place]]
      /\ anchor' = [anchor EXCEPT ![op.marker] = op.connection]
      /\ UNCHANGED <<house, route, skewed>>
      /\ Commit(w, {op.connection, op.marker})

(* The objects of the second part.                                           *)
Beyond(c, p) == {m \in Anchored(c) : ~Within(marker[m].place, <<Line(c)[1], p>>)}

SplitConnection(w) ==
  LET op == Op(w)
      c == op.connection
  IN  /\ At(w, "commit") /\ op.kind = "split"
      /\ marker' = [marker EXCEPT ![op.marker] = [role |-> "none", house |-> None, place |-> op.place]]
      /\ route' = [route EXCEPT ![c].to = op.marker,
                                ![op.tail] = [from |-> op.marker, to |-> route[c].to]]
      /\ anchor' = [m \in Markers |-> IF m \in Beyond(c, op.place) THEN op.tail ELSE anchor[m]]
      /\ UNCHANGED <<house, skewed>>
      /\ Commit(w, {c, op.tail, op.marker})

DetachRouteObject(w) ==
  /\ At(w, "commit") /\ Op(w).kind = "detach"
  /\ anchor' = [anchor EXCEPT ![Op(w).marker] = None]
  /\ UNCHANGED <<house, marker, route, skewed>>
  /\ Commit(w, {Op(w).connection})

(* Vertices and methods are abstracted: what is left is the new version.     *)
SetInstallationBoundary(w) ==
  /\ At(w, "commit") /\ Op(w).kind = "boundary"
  /\ UNCHANGED <<tables, skewed>>
  /\ Commit(w, {Op(w).connection})

UpdateBuilding(w) ==
  LET h == Op(w).house
  IN  /\ At(w, "commit") /\ Op(w).kind = "move"
      /\ house' = [house EXCEPT ![h] = Op(w).place]
      /\ skewed' = skewed \cup Skews(req[w])
      /\ UNCHANGED <<marker, route, anchor>>
      /\ Commit(w, {h})

(* Variant for mutation: the markers lose the point with the house.          *)
PointLost(m) == marker[m].place

PointKept(m) == PlaceOf(m)

(* detach_deleted_building, then the DELETE.                                 *)
DeleteBuilding(w) ==
  LET h == Op(w).house
      bound == {m \in Present : marker[m].house = h}
  IN  /\ At(w, "commit") /\ Op(w).kind = "demolish"
      /\ marker' = [m \in Markers |->
           IF m \in bound THEN [role |-> "none", house |-> None, place |-> PointKept(m)] ELSE marker[m]]
      /\ house' = [house EXCEPT ![h] = Gone]
      /\ UNCHANGED <<route, anchor, skewed>>
      /\ Commit(w, {h} \cup bound)

(* A lost connection, a dead process: the transaction is rolled back.        *)
CutOff(w) == ~At(w, "idle") /\ Become(w, Idle)

(* The bound is reached and nothing is in flight.                            *)
Rest == commits = MaxCommits /\ (\A w \in Workers : At(w, "idle")) /\ UNCHANGED vars

Next ==
  \/ Rest
  \/ \E w \in Workers :
       \/ \E op \in Bodies : Begin(w, op)
       \/ LockHouses(w) \/ Decide(w)
       \/ SaveMarker(w) \/ DeleteMarker(w) \/ SaveConnection(w) \/ DeleteConnection(w)
       \/ PlaceRouteObject(w) \/ SplitConnection(w) \/ DetachRouteObject(w)
       \/ SetInstallationBoundary(w) \/ UpdateBuilding(w) \/ DeleteBuilding(w) \/ CutOff(w)

Spec == Init /\ [][Next]_vars

-----------------------------------------------------------------------------
(* Properties *)

TypeOK ==
  /\ house \in [Houses -> Places \cup {None, Gone}]
  /\ marker \in [Markers -> Rows]
  /\ route \in [Connections -> [from : Things \cup {None}, to : Things \cup {None}]]
  /\ anchor \in [Markers -> Connections \cup {None}]
  /\ req \in [Workers -> Requests]
  /\ skewed \subseteq Connections /\ commits \in Nat

(* A line ends at two different things that exist, and at the house itself   *)
(* where a marker represents one.                                            *)
EndsExist ==
  \A c \in Built :
    /\ route[c].from # route[c].to
    /\ \A e \in Ends(c) : e \in Standing \/ (e \in Present /\ marker[e].role # "represents")

(* A marker is bound to a house that stands, or to none, and one marker at   *)
(* most represents a house.                                                  *)
BindingsSound ==
  \A m \in Present :
    /\ marker[m].role = "none" <=> marker[m].house = None
    /\ marker[m].house \in Standing \cup {None}
    /\ \A n \in Present \ {m} :
         ~(marker[m].role = "represents" /\ marker[n].role = "represents" /\ marker[m].house = marker[n].house)

(* What is fixed to a line is a marker of its own on a line that exists.     *)
AnchorsSound ==
  \A m \in Markers : anchor[m] # None => marker[m].role = "none" /\ anchor[m] \in Built

(* The graph is sound by the order of locks and checks alone: no constraint  *)
(* of the tables (RESTRICT, the unique index, CHECK) is ever what refuses a  *)
(* write, whatever two requests do to houses, markers and lines.             *)
GraphSound == TypeOK /\ EndsExist /\ BindingsSound /\ AnchorsSound

(* An object fixed to a line is on the line, however its ends move, unless   *)
(* two overlapping requests moved both ends: each guard reads the other end  *)
(* without a lock.                                                           *)
ObjectsOnLine ==
  \A m \in Markers : anchor[m] \in Built \ skewed => Within(marker[m].place, Line(anchor[m]))

(* Locks are taken in one order, the company, houses, markers, so no set of  *)
(* requests waits for itself.                                                *)
NoDeadlock ==
  \A S \in (SUBSET Workers) \ {{}} : \E w \in S : Blockers(w) \cap S = {}

(* The step that saves an update of m.                                       *)
Saves(w, m) ==
  /\ At(w, "commit") /\ req'[w] = Idle
  /\ Op(w).kind = "update" /\ Op(w).marker = m

(* m was read as the marker of a house and is no marker of a house any more. *)
Overtaken(w, m) == req[w].was.role = "represents" /\ marker[m].role # "represents"

(* A marker that has a point keeps one when it is unbound, displaced by      *)
(* another marker or loses its house, whoever does it and whatever else is   *)
(* under way. Only a save of the marker itself can empty its point: because  *)
(* the client sent a latitude and a longitude of null, or because the house  *)
(* the marker represented was deleted after the save had read the marker.    *)
PointsKept ==
  [][\A m \in Markers :
       PlaceOf(m) # None =>
         \/ marker'[m].role \in {"absent", "represents"}
         \/ marker'[m].place # None
         \/ \E w \in Workers : Saves(w, m) /\ (Op(w).clears \/ Overtaken(w, m))]_vars

(* The same, but for what the client asked for: markers are kept when their  *)
(* house goes, and the one that represented it keeps its last point          *)
(* (docs/map-address-bugfix.md).                                             *)
PointsAlwaysKept ==
  [][\A m \in Markers :
       PlaceOf(m) # None =>
         \/ marker'[m].role \in {"absent", "represents"}
         \/ marker'[m].place # None
         \/ \E w \in Workers : Saves(w, m) /\ Op(w).clears]_vars
-----------------------------------------------------------------------------
(* The inductive invariant                                                   *)

(* A row is there or it is not; what is fixed to a line has a place, and     *)
(* only lines that exist have a history.                                     *)
RowsSound ==
  /\ \A m \in Present : marker[m].role # "absent"
  /\ \A m \in Markers : anchor[m] # None => marker[m].place # None
  /\ skewed \subseteq Built

(* What a request asks for still makes sense: under the lock of the company  *)
(* nobody else adds or removes markers and lines.                            *)
AsksWell(r) ==
  LET op == r.op
  IN  /\ op.kind = "create" =>
           /\ op.marker \in NewMarkers
           /\ \/ op.role = "none" /\ op.house = None
              \/ op.role \in {"reference", "represents"} /\ op.house \in Houses
      /\ op.kind = "update" =>
           /\ op.marker \in Present
           /\ op.house = None <=> op.role \in {"none", "keep"}
      /\ op.kind = "connect" =>
           /\ op.connection \in Connections
           /\ \A e \in {op.from, op.to} :
                e \in Houses \/ (e \in Present /\ marker[e].role # "represents")
      /\ op.kind \in RouteKinds => op.connection \in Built
      /\ op.kind \in {"place", "split"} => op.place \in Places /\ op.marker \in NewMarkers
      /\ op.kind = "split" => op.tail \in NewConnections
      /\ op.kind \in {"detach", "erase"} => op.marker \in Markers
      /\ op.kind = "remove" => op.connection \in Connections
      /\ ~OnMap(op) => op.house \in Houses

(* An update has the marker as it is, or the house that it was bound to is   *)
(* gone, and the request will notice. Such a marker is fixed to no line.     *)
Remembers(r) ==
  r.op.kind = "update" =>
    LET now == marker[r.op.marker]
    IN  \/ r.was = now
        \/ /\ r.op.marker \in r.stale
           /\ r.was.role \in {"reference", "represents"} /\ r.was.house \in Houses \ Standing
           /\ now.role = "none" /\ now.house = None
           /\ r.was.role = "reference" => now.place = r.was.place
           /\ r.was.role = "represents" => EndingAt(r.op.marker) = {}
           /\ anchor[r.op.marker] = None

(* What a request has locked, and that it is enough.                         *)
Holds(r) ==
  /\ r.houses = IF r.pc \in {"rows", "commit"} THEN HousesOf(r) ELSE {}
  /\ r.pc \in {"rows", "commit"} => NeedsHouse(r) \subseteq r.houses
  /\ r.pc # "commit" => r.rows = {} /\ r.late = {}
  /\ r.pc = "commit" /\ r.op.kind = "update" => r.op.marker \in r.rows
  /\ r.pc = "commit" /\ r.op.kind = "demolish" =>
       {m \in Present : marker[m].house = r.op.house} \subseteq r.rows

(* The guard of a move still holds where the other end is what it was.       *)
StillGuarded(r) ==
  \A e \in Moved(r) : \A c \in EndingAt(e) :
    \/ (Ends(c) \ {e}) \cap r.late # {}
    \/ \A m \in Anchored(c) : Within(marker[m].place, LineWith(c, e, r.op.place))

(* What was permitted is permitted still.                                    *)
StillPermits(r) ==
  LET op == r.op
  IN  /\ op.kind \in SaveKinds =>
           /\ ~ChangesFixed(r)
           /\ RoleAfter(r) = "represents" /\ marker[op.marker].role # "represents" =>
                EndingAt(op.marker) = {}
      /\ StillGuarded(r)
      /\ op.kind = "erase" => EndingAt(op.marker) = {}
      /\ op.kind = "connect" => ConnectPermits(r)
      /\ op.kind = "remove" => Anchored(op.connection) = {}
      /\ op.kind = "demolish" => EndingAt(op.house) = {}
      /\ op.kind \in RouteKinds => RoutePermits(r)

RequestOK(w) ==
  ~At(w, "idle") =>
    /\ AsksWell(req[w]) /\ Remembers(req[w]) /\ Holds(req[w])
    /\ At(w, "commit") => StillPermits(req[w])

(* A lock has one owner.                                                     *)
Apart(v, w) ==
  /\ ~(HasCompany(v) /\ HasCompany(w))
  /\ req[v].houses \cap req[w].houses = {}
  /\ req[v].rows \cap req[w].rows = {}

(* The inductive invariant behind GraphSound, ObjectsOnLine, NoDeadlock and  *)
(* PointsKept.                                                               *)
MapInductive ==
  /\ GraphSound /\ RowsSound /\ ObjectsOnLine
  /\ \A w \in Workers : RequestOK(w) /\ (At(w, "idle") => req[w] = Idle)
  /\ \A v, w \in Workers : v # w => Apart(v, w)
=============================================================================
