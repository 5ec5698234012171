--------------------------- MODULE MapGraphProofs ---------------------------
(***************************************************************************)
(* The map of a company, for any number of houses, markers, lines, places  *)
(* and requests. The argument (MapInductive): one request at a time has    *)
(* the map of the company, so the lines and the roles that it has checked  *)
(* are still there when it commits. What it cannot count on are the places *)
(* of houses and markers: a building is moved without that lock. Holds is  *)
(* what its row locks give it, StillPermits is what is left of its checks  *)
(* when it commits, with an exception for the rows that it read too early  *)
(* (late). Each commit is then a small change of the tables:               *)
(* MapCommit and HouseCommit say once what every other request keeps, and  *)
(* each operation has one lemma.                                           *)
(***************************************************************************)
EXTENDS MapGraph, TLAPS

-----------------------------------------------------------------------------

(* A worker without a request.                                               *)
LEMMA IdleTyped == Idle \in Requests
  BY IdAssumption DEF Idle, Requests, Blank, Asked, Kinds, SaveKinds, RouteKinds, HouseKinds,
     Things, Rows, Roles, Absent

(* What RequestOK says after a step, about the request that is there then.   *)
LEMMA AskedOfRequest ==
  ASSUME NEW w, NEW r, req'[w] = r,
         r.pc # "idle" =>
           /\ AsksWell(r)' /\ Remembers(r)' /\ Holds(r)'
           /\ r.pc = "commit" => StillPermits(r)'
  PROVE  RequestOK(w)'
  BY DEF RequestOK, At

(* Where a thing is.                                                         *)
LEMMA PlaceCases ==
  ASSUME TypeOK
  PROVE  /\ \A h \in Standing : PlaceOf(h) = house[h]
         /\ \A m \in Present : marker[m].role # "represents" => PlaceOf(m) = marker[m].place
         /\ \A m \in Present : marker[m].role = "represents" /\ marker[m].house \in Standing =>
              PlaceOf(m) = house[marker[m].house]
         /\ \A e : PlaceOf(e) \in Places \cup {None}
<1>1. \A h \in Standing : h \in Houses /\ h \notin Markers
  BY IdAssumption DEF Standing
<1>2. \A m \in Present : m \in Markers /\ m \notin Standing
  BY IdAssumption DEF Standing, Present
<1>3. \A h \in Standing : PlaceOf(h) = house[h]
  BY <1>1, <1>2 DEF PlaceOf
<1>4. \A m \in Present : marker[m].role # "represents" => PlaceOf(m) = marker[m].place
  BY <1>2 DEF PlaceOf
<1>5. \A m \in Present : marker[m].role = "represents" /\ marker[m].house \in Standing =>
              PlaceOf(m) = house[marker[m].house]
  BY <1>2 DEF PlaceOf
<1>6. \A h \in Standing : house[h] \in Places \cup {None}
  BY DEF TypeOK, Standing
<1>7. \A m \in Present : marker[m].place \in Places \cup {None}
  BY <1>2 DEF TypeOK, Rows
<1>8. ASSUME NEW e PROVE PlaceOf(e) \in Places \cup {None}
  BY <1>2, <1>6, <1>7 DEF PlaceOf
<1> QED
  BY <1>3, <1>4, <1>5, <1>8

(* A request that finds the tables as they were.                             *)
LEMMA TablesSame ==
  ASSUME UNCHANGED tables, NEW r
  PROVE  /\ AsksWell(r) => AsksWell(r)'
         /\ Remembers(r) => Remembers(r)'
         /\ Holds(r) => Holds(r)'
         /\ StillPermits(r) => StillPermits(r)'
<1>1. house' = house /\ marker' = marker /\ route' = route /\ anchor' = anchor
  BY DEF tables
<1>2. Present' = Present /\ Built' = Built /\ Standing' = Standing
  BY <1>1 DEF Present, Built, Standing
<1>3. \A e : PlaceOf(e)' = PlaceOf(e)
  BY <1>1, <1>2 DEF PlaceOf
<1>4. \A c : Ends(c)' = Ends(c) /\ Line(c)' = Line(c) /\ Anchored(c)' = Anchored(c)
  BY <1>1, <1>2, <1>3 DEF Ends, Line, Anchored
<1>5. \A e : EndingAt(e)' = EndingAt(e)
  BY <1>2, <1>4 DEF EndingAt
<1>6. \A c, e, p : LineWith(c, e, p)' = LineWith(c, e, p)
  BY <1>1, <1>3 DEF LineWith
<1>7. AsksWell(r) => AsksWell(r)'
  BY <1>1, <1>2 DEF AsksWell, NewMarkers, NewConnections
<1>8. Remembers(r) => Remembers(r)'
  BY <1>1, <1>2, <1>5 DEF Remembers
<1>9. Holds(r) => Holds(r)'
  BY <1>1, <1>2, <1>4 DEF Holds, HousesOf, NeedsHouse
<1>10. StillPermits(r) => StillPermits(r)'
  BY <1>1, <1>2, <1>3, <1>4, <1>5, <1>6
     DEF StillPermits, ChangesFixed, GivesPoint, StillGuarded, ConnectPermits, EndsStand, RoutePermits
<1> QED
  BY <1>7, <1>8, <1>9, <1>10

(* A step of one request that commits nothing.                               *)
LEMMA BecomeStep ==
  ASSUME MapInductive, NEW w \in Workers, NEW r \in Requests, Become(w, r),
         r.pc = "idle" => r = Idle,
         r.pc # "idle" =>
           /\ AsksWell(r) /\ Remembers(r) /\ Holds(r)
           /\ r.pc = "commit" => StillPermits(r),
         \A v \in Workers \ {w} :
           /\ ~(HasCompany(v) /\ OnMap(r.op) /\ r.pc # "idle")
           /\ req[v].houses \cap r.houses = {}
           /\ req[v].rows \cap r.rows = {}
  PROVE  MapInductive'
<1>1. /\ UNCHANGED tables /\ UNCHANGED <<house, marker, route, anchor, skewed, commits>>
      /\ req' = [req EXCEPT ![w] = r] /\ req \in [Workers -> Requests]
  BY DEF Become, MapInductive, GraphSound, TypeOK, tables
<1>2. req'[w] = r /\ \A v \in Workers \ {w} : req'[v] = req[v]
  BY <1>1
<1>3. GraphSound' /\ RowsSound' /\ ObjectsOnLine'
  <2>1. TypeOK'
    BY <1>1 DEF MapInductive, GraphSound, TypeOK
  <2>2. Present' = Present /\ Built' = Built /\ Standing' = Standing
    BY <1>1 DEF Present, Built, Standing
  <2>3. \A c : Ends(c)' = Ends(c) /\ Line(c)' = Line(c)
    BY <1>1, <2>2 DEF Ends, Line, PlaceOf
  <2>4. EndsExist' /\ BindingsSound' /\ AnchorsSound' /\ RowsSound'
    BY <1>1, <2>2, <2>3
       DEF MapInductive, GraphSound, EndsExist, BindingsSound, AnchorsSound, RowsSound
  <2>5. ObjectsOnLine'
    BY <1>1, <2>2, <2>3 DEF MapInductive, ObjectsOnLine
  <2> QED
    BY <2>1, <2>4, <2>5 DEF GraphSound
<1>4. ASSUME NEW v \in Workers
      PROVE  RequestOK(v)' /\ (At(v, "idle") => req[v] = Idle)'
  <2>1. CASE v = w
    <3>1. r.pc # "idle" =>
             /\ AsksWell(r)' /\ Remembers(r)' /\ Holds(r)'
             /\ r.pc = "commit" => StillPermits(r)'
      BY <1>1, TablesSame
    <3> QED
      BY <1>2, <2>1, <3>1, AskedOfRequest DEF At
  <2>2. CASE v # w
    <3>1. RequestOK(v) /\ (At(v, "idle") => req[v] = Idle)
      BY DEF MapInductive
    <3>2. PICK s : s = req[v]
      OBVIOUS
    <3>3. s.pc # "idle" =>
             /\ AsksWell(s) /\ Remembers(s) /\ Holds(s)
             /\ s.pc = "commit" => StillPermits(s)
      BY <3>1, <3>2 DEF RequestOK, At
    <3>4. s.pc # "idle" =>
             /\ AsksWell(s)' /\ Remembers(s)' /\ Holds(s)'
             /\ s.pc = "commit" => StillPermits(s)'
      BY <1>1, <3>3, TablesSame
    <3>5. req'[v] = s
      BY <1>2, <2>2, <3>2
    <3> QED
      BY <3>1, <3>2, <3>4, <3>5, AskedOfRequest DEF At
  <2> QED
    BY <2>1, <2>2
<1>5. ASSUME NEW u \in Workers, NEW v \in Workers, u # v
      PROVE  Apart(u, v)'
  <2>1. CASE u # w /\ v # w
    BY <1>2, <1>5, <2>1 DEF MapInductive, Apart, HasCompany, At, Op, OnMap
  <2>2. CASE u = w
    BY <1>2, <1>5, <2>2 DEF Apart, HasCompany, At, Op, OnMap
  <2>3. CASE v = w
    BY <1>2, <1>5, <2>3 DEF Apart, HasCompany, At, Op, OnMap
  <2> QED
    BY <2>1, <2>2, <2>3
<1> QED
  BY <1>3, <1>4, <1>5 DEF MapInductive

(* A request that is refused, or that loses its connection.                  *)
LEMMA CutOffStep ==
  ASSUME MapInductive, NEW w \in Workers, Become(w, Idle)
  PROVE  MapInductive'
  BY IdleTyped, BecomeStep DEF Idle

(* What a client may ask for.                                                *)
LEMMA BodiesAsk ==
  ASSUME MapInductive, NEW op \in Bodies
  PROVE  /\ op \in Asked
         /\ op.kind # "connect" => \A r : r.op = op => AsksWell(r)
         /\ op.kind = "connect" =>
              /\ op.connection \in Connections
              /\ {op.from, op.to} \subseteq Standing \cup Present
<1> USE DEF SaveKinds, RouteKinds, HouseKinds
<1>1. /\ Present \subseteq Markers /\ Standing \subseteq Houses /\ Built \subseteq Connections
      /\ anchor \in [Markers -> Connections \cup {None}]
  BY DEF Present, Standing, Built, MapInductive, GraphSound, TypeOK
<1>2. Blank \in Asked
  BY DEF Blank, Asked, Kinds, Roles
<1>3. None \notin Houses
  BY IdAssumption
<1>4. CASE op \in SaveBodies
  <2>1. ASSUME NEW kind \in {"create", "update"}, NEW m \in Markers, NEW role \in Roles \cup {"keep"},
               NEW h \in Houses \cup {None}, NEW p \in Places \cup {None},
               op = SaveBody(kind, m, role, h, p)
        PROVE  /\ op \in Asked
               /\ op.kind = kind /\ op.marker = m /\ op.role = role /\ op.house = h
    BY <1>2, <2>1 DEF SaveBody, Asked, Kinds
  <2>2. ASSUME NEW m \in Markers, NEW role \in Roles \cup {"keep"}, NEW h \in Houses \cup {None},
               op = ClearBody(m, role, h)
        PROVE  /\ op \in Asked
               /\ op.kind = "update" /\ op.marker = m /\ op.role = role /\ op.house = h
    BY <1>2, <2>2 DEF ClearBody, Asked, Kinds
  <2>3. \/ \E m \in NewMarkers, p \in Places : op = SaveBody("create", m, "none", None, p)
        \/ \E m \in NewMarkers, h \in Standing, p \in Places :
             op = SaveBody("create", m, "reference", h, p)
        \/ \E m \in NewMarkers, h \in Standing, p \in Places \cup {None} :
             op = SaveBody("create", m, "represents", h, p)
        \/ \E m \in Present, role \in {"keep", "none"}, p \in Places \cup {None} :
             op = SaveBody("update", m, role, None, p)
        \/ \E m \in Present, role \in {"reference", "represents"}, h \in Standing,
              p \in Places \cup {None} : op = SaveBody("update", m, role, h, p)
        \/ \E m \in Present, role \in {"keep", "none"} : op = ClearBody(m, role, None)
        \/ \E m \in Present, h \in Standing : op = ClearBody(m, "reference", h)
    BY <1>4 DEF SaveBodies
  <2>4. /\ op \in Asked
        /\ \/ /\ op.kind = "create" /\ op.marker \in NewMarkers
              /\ \/ op.role = "none" /\ op.house = None
                 \/ op.role \in {"reference", "represents"} /\ op.house \in Houses
           \/ /\ op.kind = "update" /\ op.marker \in Present
              /\ op.house = None <=> op.role \in {"none", "keep"}
    <3> DEFINE New(role, h) ==
                 /\ op \in Asked /\ op.kind = "create" /\ op.marker \in NewMarkers
                 /\ op.role = role /\ op.house = h
               Old(role, h) ==
                 /\ op \in Asked /\ op.kind = "update" /\ op.marker \in Present
                 /\ op.role = role /\ op.house = h
    <3>1. ASSUME NEW m \in NewMarkers, NEW p \in Places, op = SaveBody("create", m, "none", None, p)
          PROVE  New("none", None)
      BY <2>1, <3>1 DEF NewMarkers, Roles
    <3>2. ASSUME NEW m \in NewMarkers, NEW role \in {"reference", "represents"}, NEW h \in Standing,
                 NEW p \in Places \cup {None}, op = SaveBody("create", m, role, h, p)
          PROVE  New(role, h)
      BY <1>1, <2>1, <3>2 DEF NewMarkers, Roles
    <3>3. ASSUME NEW m \in Present, NEW role \in {"keep", "none"}, NEW p \in Places \cup {None},
                 op = SaveBody("update", m, role, None, p)
          PROVE  Old(role, None)
      BY <1>1, <2>1, <3>3 DEF Roles
    <3>4. ASSUME NEW m \in Present, NEW role \in {"reference", "represents"}, NEW h \in Standing,
                 NEW p \in Places \cup {None}, op = SaveBody("update", m, role, h, p)
          PROVE  Old(role, h)
      BY <1>1, <2>1, <3>4 DEF Roles
    <3>5. ASSUME NEW m \in Present, NEW role \in {"keep", "none"}, op = ClearBody(m, role, None)
          PROVE  Old(role, None)
      BY <1>1, <2>2, <3>5 DEF Roles
    <3>6. ASSUME NEW m \in Present, NEW h \in Standing, op = ClearBody(m, "reference", h)
          PROVE  Old("reference", h)
      BY <1>1, <2>2, <3>6 DEF Roles
    <3> HIDE DEF New, Old
    <3>7. \/ New("none", None)
          \/ \E role \in {"reference", "represents"}, h \in Standing : New(role, h) \/ Old(role, h)
          \/ \E role \in {"keep", "none"} : Old(role, None)
      <4>1. CASE \E m \in NewMarkers, p \in Places : op = SaveBody("create", m, "none", None, p)
        BY <3>1, <4>1
      <4>2. CASE \E m \in NewMarkers, h \in Standing, p \in Places :
                   op = SaveBody("create", m, "reference", h, p)
        BY <3>2, <4>2
      <4>3. CASE \E m \in NewMarkers, h \in Standing, p \in Places \cup {None} :
                   op = SaveBody("create", m, "represents", h, p)
        BY <3>2, <4>3
      <4>4. CASE \E m \in Present, role \in {"keep", "none"}, p \in Places \cup {None} :
                   op = SaveBody("update", m, role, None, p)
        BY <3>3, <4>4
      <4>5. CASE \E m \in Present, role \in {"reference", "represents"}, h \in Standing,
                     p \in Places \cup {None} : op = SaveBody("update", m, role, h, p)
        BY <3>4, <4>5
      <4>6. CASE \E m \in Present, role \in {"keep", "none"} : op = ClearBody(m, role, None)
        BY <3>5, <4>6
      <4>7. CASE \E m \in Present, h \in Standing : op = ClearBody(m, "reference", h)
        BY <3>6, <4>7
      <4> QED
        BY <2>3, <4>1, <4>2, <4>3, <4>4, <4>5, <4>6, <4>7
    <3> QED
      BY <1>1, <1>3, <3>7 DEF New, Old
  <2> QED
    BY <2>4 DEF AsksWell, OnMap
<1>5. ASSUME NEW kind \in RouteKinds \cup {"erase", "remove"}, NEW c \in Connections \cup {None},
             NEW p \in Places \cup {None}, NEW m \in Markers \cup {None}, NEW t \in Connections \cup {None},
             op = LineBody(kind, c, p, m, t)
      PROVE  /\ op \in Asked /\ op.kind = kind
             /\ op.connection = c /\ op.place = p /\ op.marker = m /\ op.tail = t
  BY <1>2, <1>5 DEF LineBody, Asked, Kinds
<1>6. CASE op \in ConnectBodies
  <2>1. PICK c \in Connections, e \in Standing \cup Present, f \in Standing \cup Present :
          op = ConnectBody(c, e, f)
    BY <1>6 DEF ConnectBodies
  <2>2. op \in Asked /\ op.kind = "connect" /\ op.connection = c /\ op.from = e /\ op.to = f
    BY <1>1, <1>2, <2>1 DEF ConnectBody, Asked, Kinds, Things
  <2> QED
    BY <2>2
<1>7. CASE op \in RouteBodies
  <2>1. \/ \E c \in Built : op = LineBody("boundary", c, None, None, None)
        \/ \E c \in Built, p \in Places, m \in NewMarkers : op = LineBody("place", c, p, m, None)
        \/ \E c \in Built, p \in Places, m \in NewMarkers, t \in NewConnections :
             op = LineBody("split", c, p, m, t)
        \/ \E m \in Present : anchor[m] # None /\ op = LineBody("detach", anchor[m], None, m, None)
    BY <1>7 DEF RouteBodies
  <2>2. \A m \in Present : anchor[m] # None => anchor[m] \in Built
    BY <1>1 DEF MapInductive, GraphSound, AnchorsSound
  <2>3. /\ op \in Asked /\ op.connection \in Built
        /\ \/ op.kind = "boundary"
           \/ op.kind = "place" /\ op.place \in Places /\ op.marker \in NewMarkers
           \/ op.kind = "split" /\ op.place \in Places /\ op.marker \in NewMarkers /\ op.tail \in NewConnections
           \/ op.kind = "detach" /\ op.marker \in Markers
    <3>1. CASE \E c \in Built : op = LineBody("boundary", c, None, None, None)
      BY <1>1, <1>5, <3>1
    <3>2. CASE \E c \in Built, p \in Places, m \in NewMarkers : op = LineBody("place", c, p, m, None)
      BY <1>1, <1>5, <3>2 DEF NewMarkers
    <3>3. CASE \E c \in Built, p \in Places, m \in NewMarkers, t \in NewConnections :
                 op = LineBody("split", c, p, m, t)
      BY <1>1, <1>5, <3>3 DEF NewMarkers, NewConnections
    <3>4. CASE \E m \in Present : anchor[m] # None /\ op = LineBody("detach", anchor[m], None, m, None)
      BY <1>1, <1>5, <2>2, <3>4
    <3> QED
      BY <2>1, <3>1, <3>2, <3>3, <3>4
  <2> QED
    BY <2>3 DEF AsksWell, OnMap
<1>8. CASE op \in DeleteBodies
  <2>1. \/ \E m \in Present : op = LineBody("erase", None, None, m, None)
        \/ \E c \in Built : op = LineBody("remove", c, None, None, None)
    BY <1>8 DEF DeleteBodies
  <2>2. \A m \in Present : op = LineBody("erase", None, None, m, None) =>
          op \in Asked /\ op.kind = "erase" /\ op.marker \in Markers
    BY <1>1, <1>5
  <2>3. \A c \in Built : op = LineBody("remove", c, None, None, None) =>
          op \in Asked /\ op.kind = "remove" /\ op.connection \in Connections
    BY <1>1, <1>5
  <2> QED
    BY <2>1, <2>2, <2>3 DEF AsksWell, OnMap
<1>9. CASE op \in HouseBodies
  <2>1. \/ \E h \in Standing, p \in Places \cup {None} : op = HouseBody("move", h, p)
        \/ \E h \in Standing : op = HouseBody("demolish", h, None)
    BY <1>9 DEF HouseBodies
  <2>2. ASSUME NEW kind \in HouseKinds, NEW h \in Houses, NEW p \in Places \cup {None},
               op = HouseBody(kind, h, p)
        PROVE  op \in Asked /\ op.kind \in HouseKinds /\ op.house \in Houses
    BY <1>2, <2>2 DEF HouseBody, Asked, Kinds
  <2>3. op \in Asked /\ op.kind \in HouseKinds /\ op.house \in Houses
    BY <1>1, <2>1, <2>2
  <2> QED
    BY <2>3 DEF AsksWell, OnMap
<1> QED
  BY <1>4, <1>6, <1>7, <1>8, <1>9 DEF Bodies

(* A request begins: what it reads and asks for makes sense at that moment.  *)
LEMMA BeginStep ==
  ASSUME MapInductive, NEW w \in Workers, NEW op \in Bodies, Begin(w, op)
  PROVE  MapInductive'
<1> DEFINE asked == IF op.kind = "connect"
                    THEN [op EXCEPT !.from = Resolve(op.from), !.to = Resolve(op.to)] ELSE op
           r == [Idle EXCEPT
             !.pc = "houses", !.op = asked,
             !.was = IF op.kind = "update" THEN marker[op.marker] ELSE @,
             !.line = IF op.kind \in RouteKinds THEN Line(op.connection) ELSE @]
<1>1. TypeOK /\ BindingsSound /\ Present \subseteq Markers /\ Standing \subseteq Houses
  BY DEF Present, Standing, MapInductive, GraphSound
<1>2. op \in Asked
  BY BodiesAsk
<1>3. ASSUME NEW e \in Standing \cup Present
      PROVE  Resolve(e) \in Houses \/ (Resolve(e) \in Present /\ marker[Resolve(e)].role # "represents")
  BY <1>1, <1>3, IdAssumption DEF Resolve, BindingsSound
<1>4. asked \in Asked /\ asked.kind = op.kind
  <2>1. CASE op.kind = "connect"
    <3>1. Resolve(op.from) \in Things /\ Resolve(op.to) \in Things
      BY <1>1, <1>3, <2>1, BodiesAsk DEF Things
    <3> QED
      BY <1>2, <2>1, <3>1 DEF Asked
  <2> QED
    BY <1>2, <2>1
<1>5. r.op = asked /\ r.pc = "houses" /\ r.houses = {} /\ r.rows = {} /\ r.late = {}
      /\ (op.kind = "update" => r.was = marker[op.marker])
  BY DEF Idle
<1>6. AsksWell(r)
  <2>1. CASE op.kind = "connect"
    <3>1. op.from \in Standing \cup Present /\ op.to \in Standing \cup Present /\ op.connection \in Connections
      BY <2>1, BodiesAsk
    <3>2. asked.from = Resolve(op.from) /\ asked.to = Resolve(op.to) /\ asked.connection = op.connection
          /\ asked.kind = "connect"
      BY <1>2, <2>1 DEF Asked
    <3> HIDE DEF asked, r
    <3>3. \A e \in {asked.from, asked.to} :
            e \in Houses \/ (e \in Present /\ marker[e].role # "represents")
      BY <1>3, <3>1, <3>2
    <3> QED
      BY <1>5, <3>1, <3>2, <3>3 DEF AsksWell, RouteKinds, OnMap, HouseKinds
  <2>2. CASE op.kind # "connect"
    BY <1>5, <2>2, BodiesAsk
  <2> QED
    BY <2>1, <2>2
<1>7. r \in Requests
  <2>1. op.kind = "update" => marker[op.marker] \in Rows
    <3>1. SUFFICES ASSUME op.kind = "update" PROVE op.marker \in Present
      BY <1>1 DEF TypeOK
    <3>2. AsksWell([op |-> op])
      BY <3>1, BodiesAsk
    <3> QED
      BY <3>1, <3>2 DEF AsksWell
  <2>2. Line(op.connection) \in (Places \cup {None}) \X (Places \cup {None})
    BY <1>1, PlaceCases DEF Line
  <2> HIDE DEF asked
  <2> QED
    BY <1>4, <2>1, <2>2, IdleTyped DEF Requests
<1>8. Remembers(r) /\ Holds(r)
  <2>1. r.op.kind = "update" => r.op = op
    BY <1>4, <1>5
  <2> HIDE DEF asked, r
  <2> QED
    BY <1>5, <2>1 DEF Remembers, Holds
<1>9. \A v \in Workers : ~(HasCompany(v) /\ OnMap(r.op))
  BY <1>4, <1>5 DEF Begin, OnMap
<1>10. Become(w, r)
  BY DEF Begin
<1> HIDE DEF r
<1> QED
  BY <1>5, <1>6, <1>7, <1>8, <1>9, <1>10, BecomeStep

(* The houses a request may lock are free, and they are those it needs.      *)
LEMMA LockHousesStep ==
  ASSUME MapInductive, NEW w \in Workers, LockHouses(w)
  PROVE  MapInductive'
<1>1. PICK r : r = req[w]
  OBVIOUS
<1>2. r \in Requests /\ RequestOK(w)
  BY <1>1 DEF MapInductive, GraphSound, TypeOK
<1>3. r.pc = "houses" /\ Blockers(w) = {}
  BY <1>1 DEF LockHouses, Goes, At
<1>4. AsksWell(r) /\ Remembers(r) /\ Holds(r)
  BY <1>1, <1>2, <1>3 DEF RequestOK, At
<1>5. CASE Become(w, Idle)
  BY <1>5, CutOffStep
<1>6. CASE NeedsHouse(r) \subseteq Standing /\ Become(w, [r EXCEPT !.pc = "rows", !.houses = HousesOf(r)])
  <2> DEFINE s == [r EXCEPT !.pc = "rows", !.houses = HousesOf(r)]
  <2>1. HousesOf(r) \subseteq Houses
    BY DEF HousesOf, Standing
  <2>2. s \in Requests
    BY <1>2, <2>1 DEF Requests
  <2>3. s.pc = "rows" /\ s.op = r.op /\ s.was = r.was /\ s.houses = HousesOf(r) /\ s.stale = r.stale
        /\ s.rows = r.rows /\ s.late = r.late
    BY <1>2 DEF Requests
  <2> HIDE DEF s
  <2>4. AsksWell(s) /\ Remembers(s)
    BY <1>4, <2>3 DEF AsksWell, Remembers
  <2>5. HousesOf(s) = HousesOf(r) /\ NeedsHouse(s) = NeedsHouse(r)
    BY <2>3 DEF HousesOf, NeedsHouse, HouseAfter
  <2>6. NeedsHouse(r) \subseteq HousesOf(r)
    BY <1>6 DEF HousesOf, NeedsHouse, OnMap
  <2>7. Holds(s)
    BY <1>3, <1>4, <2>3, <2>5, <2>6 DEF Holds
  <2>8. ASSUME NEW v \in Workers \ {w}
        PROVE  /\ ~(HasCompany(v) /\ OnMap(s.op))
               /\ req[v].houses \cap s.houses = {} /\ req[v].rows \cap s.rows = {}
    <3>1. req[v].houses \cap HousesOf(r) = {}
      BY <1>1, <1>3, <2>8 DEF Blockers, At
    <3>2. Apart(v, w) /\ (OnMap(s.op) => HasCompany(w))
      BY <1>1, <1>3, <2>3, <2>8 DEF MapInductive, HasCompany, At, Op
    <3> QED
      BY <1>1, <2>3, <3>1, <3>2 DEF Apart
  <2> QED
    BY <1>6, <2>2, <2>3, <2>4, <2>7, <2>8, BecomeStep DEF s
<1> QED
  BY <1>1, <1>5, <1>6 DEF LockHouses, Locked

(* The one house or marker that a request moves, if any.                     *)
LEMMA MovedCases ==
  ASSUME NEW r
  PROVE  /\ r.op.kind = "move" \/ MovesHouse(r) => Moved(r) = {r.op.house}
         /\ r.op.kind = "update" /\ ~MovesHouse(r) /\ GivesPoint(r.op) => Moved(r) = {r.op.marker}
         /\ ~(r.op.kind = "move" \/ MovesHouse(r)) /\ ~(r.op.kind = "update" /\ GivesPoint(r.op)) =>
              Moved(r) = {}
  BY DEF Moved

(* The checks: what they let pass is permitted, up to what was read too early.*)
LEMMA DecideStep ==
  ASSUME MapInductive, NEW w \in Workers, Decide(w)
  PROVE  MapInductive'
<1>1. PICK r : r = req[w]
  OBVIOUS
<1>2. r \in Requests /\ RequestOK(w)
  BY <1>1 DEF MapInductive, GraphSound, TypeOK
<1>3. r.pc = "rows" /\ Blockers(w) = {}
  BY <1>1 DEF Decide, Goes, At
<1>4. AsksWell(r) /\ Remembers(r) /\ Holds(r)
  BY <1>1, <1>2, <1>3 DEF RequestOK, At
<1>5. CASE Become(w, Idle)
  BY <1>5, CutOffStep
<1>6. CASE Permits(r) /\ Become(w, [r EXCEPT !.pc = "commit", !.rows = RowsOf(r)])
  <2> DEFINE s == [r EXCEPT !.pc = "commit", !.rows = RowsOf(r)]
  <2>1. RowsOf(r) \subseteq Markers
    BY DEF RowsOf, Present
  <2>2. s \in Requests
    BY <1>2, <2>1 DEF Requests
  <2>3. s.pc = "commit" /\ s.op = r.op /\ s.was = r.was /\ s.houses = r.houses /\ s.stale = r.stale
        /\ s.rows = RowsOf(r) /\ s.late = r.late /\ s.line = r.line
    BY <1>2 DEF Requests
  <2> HIDE DEF s
  <2>4. AsksWell(s) /\ Remembers(s)
    BY <1>4, <2>3 DEF AsksWell, Remembers
  <2>5. HousesOf(s) = HousesOf(r) /\ NeedsHouse(s) = NeedsHouse(r)
    BY <2>3 DEF HousesOf, NeedsHouse, HouseAfter
  <2>6. Holds(s)
    <3>1. r.op.kind = "update" => r.op.marker \in RowsOf(r)
      BY <1>4 DEF AsksWell, RowsOf
    <3>2. r.op.kind = "demolish" => {m \in Present : marker[m].house = r.op.house} \subseteq RowsOf(r)
      BY DEF RowsOf
    <3> QED
      BY <1>3, <1>4, <2>3, <2>5, <3>1, <3>2 DEF Holds
  <2>7. StillPermits(s)
    <3>1. /\ r.op.kind \in SaveKinds => SavePermits(r)
          /\ r.op.kind = "erase" => EndingAt(r.op.marker) = {}
          /\ r.op.kind = "connect" => ConnectPermits(r)
          /\ r.op.kind = "remove" => Anchored(r.op.connection) = {}
          /\ r.op.kind = "move" => GuardHolds(r.op.house, r.op.place)
          /\ r.op.kind = "demolish" => EndingAt(r.op.house) = {}
          /\ r.op.kind \in RouteKinds => RoutePermits(r)
      BY <1>6 DEF Permits, SaveKinds, RouteKinds
    <3>2. MovesHouse(s) = MovesHouse(r) /\ RoleAfter(s) = RoleAfter(r) /\ ChangesFixed(s) = ChangesFixed(r)
          /\ ConnectPermits(s) = ConnectPermits(r) /\ RoutePermits(s) = RoutePermits(r)
      BY <2>3 DEF MovesHouse, RoleAfter, ChangesFixed, ConnectPermits, EndsStand, RoutePermits
    <3>3. \A e \in Moved(s) : GuardHolds(e, s.op.place)
      BY <2>3, <3>1, <3>2, MovedCases DEF SavePermits, SaveKinds, MovesHouse
    <3>4. StillGuarded(s)
      BY <3>3 DEF StillGuarded, GuardHolds
    <3> QED
      BY <2>3, <3>1, <3>2, <3>4 DEF StillPermits, SavePermits
  <2>8. ASSUME NEW v \in Workers \ {w}
        PROVE  /\ ~(HasCompany(v) /\ OnMap(s.op))
               /\ req[v].houses \cap s.houses = {} /\ req[v].rows \cap s.rows = {}
    <3>1. req[v].rows \cap RowsOf(r) = {}
      BY <1>1, <1>3, <2>8 DEF Blockers, At
    <3>2. Apart(v, w) /\ (OnMap(s.op) => HasCompany(w))
      BY <1>1, <1>3, <2>3, <2>8 DEF MapInductive, HasCompany, At, Op
    <3> QED
      BY <1>1, <2>3, <3>1, <3>2 DEF Apart
  <2> QED
    BY <1>6, <2>2, <2>3, <2>4, <2>6, <2>7, <2>8, BecomeStep DEF s
<1> QED
  BY <1>1, <1>5, <1>6 DEF Decide

(* What is known of a request that is about to commit.                       *)
LEMMA Committing ==
  ASSUME MapInductive, NEW w \in Workers, At(w, "commit"), NEW r, r = req[w]
  PROVE  /\ r \in Requests /\ r.pc = "commit"
         /\ AsksWell(r) /\ Remembers(r) /\ Holds(r) /\ StillPermits(r)
         /\ r.houses = HousesOf(r) /\ NeedsHouse(r) \subseteq r.houses /\ r.houses \subseteq Standing
         /\ OnMap(r.op) => \A v \in Workers \ {w} : req[v].pc # "idle" => ~OnMap(req[v].op)
         /\ \A v \in Workers \ {w} :
              req[v].houses \cap r.houses = {} /\ req[v].rows \cap r.rows = {}
<1>1. r \in Requests /\ RequestOK(w) /\ r.pc = "commit"
  BY DEF MapInductive, GraphSound, TypeOK, At
<1>2. AsksWell(r) /\ Remembers(r) /\ Holds(r) /\ StillPermits(r)
  BY <1>1 DEF RequestOK, At
<1>3. r.houses = HousesOf(r) /\ NeedsHouse(r) \subseteq r.houses /\ HousesOf(r) \subseteq Standing
  BY <1>1, <1>2 DEF Holds, HousesOf
<1>4. \A v \in Workers \ {w} : Apart(v, w)
  BY DEF MapInductive
<1>5. OnMap(r.op) => HasCompany(w)
  BY <1>1 DEF HasCompany, At, Op
<1>6. \A v \in Workers : req[v].pc # "idle" /\ OnMap(req[v].op) => HasCompany(v)
  BY DEF HasCompany, At, Op
<1> QED
  BY <1>1, <1>2, <1>3, <1>4, <1>5, <1>6 DEF Apart

(* What the others notice of a commit.                                       *)
LEMMA CommitFrame ==
  ASSUME MapInductive, NEW w \in Workers, NEW changed \in SUBSET (Things \cup Connections),
         Commit(w, changed)
  PROVE  /\ req' \in [Workers -> Requests] /\ req'[w] = Idle /\ commits' \in Nat
         /\ \A v \in Workers \ {w} :
              /\ req[v].pc = "idle" => req'[v] = Idle
              /\ req[v].pc # "idle" =>
                   /\ req'[v].pc = req[v].pc /\ req'[v].op = req[v].op /\ req'[v].was = req[v].was
                   /\ req'[v].line = req[v].line
                   /\ req'[v].houses = req[v].houses /\ req'[v].rows = req[v].rows
                   /\ req[v].stale \subseteq req'[v].stale
                   /\ req[v].pc # "commit" => req'[v].late = req[v].late
                   /\ req[v].pc # "commit" /\ OnMap(req[v].op) => changed \subseteq req'[v].stale
                   /\ req[v].pc = "commit" => req[v].late \subseteq req'[v].late
                   /\ req[v].pc = "commit" /\ Moved(req[v]) # {} => changed \subseteq req'[v].late
<1>1. TypeOK
  BY DEF MapInductive, GraphSound
<1>2. req' \in [Workers -> Requests] /\ req'[w] = Idle
  <2>1. ASSUME NEW v \in Workers, req[v].pc # "idle"
        PROVE  /\ [req[v] EXCEPT !.stale = IF OnMap(Op(v)) THEN @ \cup changed ELSE @] \in Requests
               /\ [req[v] EXCEPT !.late = IF Moved(req[v]) # {} THEN @ \cup changed ELSE @] \in Requests
    <3>1. PICK r \in Requests : r = req[v]
      BY <1>1 DEF TypeOK
    <3>2. \A S \in SUBSET (Things \cup Connections) :
            [r EXCEPT !.stale = S] \in Requests /\ [r EXCEPT !.late = S] \in Requests
      BY <3>1 DEF Requests
    <3>3. r.stale \in SUBSET (Things \cup Connections) /\ r.late \in SUBSET (Things \cup Connections)
      BY <3>1 DEF Requests
    <3>4. r.stale \cup changed \in SUBSET (Things \cup Connections)
          /\ r.late \cup changed \in SUBSET (Things \cup Connections)
      BY <3>3
    <3> QED
      BY <3>1, <3>2, <3>3, <3>4
  <2> QED
    BY <2>1, IdleTyped DEF Commit, At
<1>3. commits' \in Nat
  BY <1>1 DEF TypeOK, Commit
<1>4. ASSUME NEW v \in Workers \ {w}, req[v].pc # "idle"
      PROVE  /\ req'[v].pc = req[v].pc /\ req'[v].op = req[v].op /\ req'[v].was = req[v].was
             /\ req'[v].line = req[v].line
             /\ req'[v].houses = req[v].houses /\ req'[v].rows = req[v].rows
             /\ req[v].stale \subseteq req'[v].stale
             /\ req[v].pc # "commit" => req'[v].late = req[v].late
             /\ req[v].pc # "commit" /\ OnMap(req[v].op) => changed \subseteq req'[v].stale
             /\ req[v].pc = "commit" => req[v].late \subseteq req'[v].late
             /\ req[v].pc = "commit" /\ Moved(req[v]) # {} => changed \subseteq req'[v].late
  <2>1. req[v] \in Requests
    BY <1>1 DEF TypeOK
  <2>2. CASE req[v].pc # "commit"
    <3>1. req'[v] = [req[v] EXCEPT !.stale = IF OnMap(Op(v)) THEN @ \cup changed ELSE @]
      BY <1>4, <2>2 DEF Commit, At
    <3> QED
      BY <2>1, <2>2, <3>1 DEF Requests, Op
  <2>3. CASE req[v].pc = "commit"
    <3>1. req'[v] = [req[v] EXCEPT !.late = IF Moved(req[v]) # {} THEN @ \cup changed ELSE @]
      BY <1>4, <2>3 DEF Commit, At
    <3> QED
      BY <2>1, <2>3, <3>1 DEF Requests
  <2> QED
    BY <2>2, <2>3
<1> QED
  BY <1>2, <1>3, <1>4 DEF Commit, At

(* A commit keeps the invariant when the tables are sound and the others     *)
(* are still right.                                                          *)
LEMMA CommitStep ==
  ASSUME MapInductive, NEW w \in Workers, NEW changed \in SUBSET (Things \cup Connections),
         Commit(w, changed), GraphSound', RowsSound', ObjectsOnLine',
         \A v \in Workers \ {w} : req[v].pc # "idle" => RequestOK(v)'
  PROVE  MapInductive'
<1>1. /\ req'[w] = Idle
      /\ \A v \in Workers \ {w} : req[v].pc = "idle" => req'[v] = Idle
      /\ \A v \in Workers \ {w} : req[v].pc # "idle" =>
           /\ req'[v].pc = req[v].pc /\ req'[v].op = req[v].op
           /\ req'[v].houses = req[v].houses /\ req'[v].rows = req[v].rows
  BY CommitFrame
<1>2. Idle.pc = "idle" /\ Idle.houses = {} /\ Idle.rows = {}
  BY DEF Idle
<1>3. ASSUME NEW v \in Workers
      PROVE  RequestOK(v)' /\ (At(v, "idle") => req[v] = Idle)'
  <2>1. CASE req'[v] = Idle
    BY <1>2, <2>1 DEF RequestOK, At
  <2>2. CASE req'[v] # Idle
    BY <1>1, <2>2 DEF At
  <2> QED
    BY <2>1, <2>2
<1>4. ASSUME NEW u \in Workers, NEW v \in Workers, u # v
      PROVE  Apart(u, v)'
  <2>1. CASE req'[u] = Idle \/ req'[v] = Idle
    BY <1>2, <2>1 DEF Apart, HasCompany, At
  <2>2. CASE req'[u] # Idle /\ req'[v] # Idle
    <3>1. Apart(u, v)
      BY <1>4 DEF MapInductive
    <3>2. \A x \in {u, v} :
            /\ req[x].pc # "idle" /\ req'[x].op = req[x].op
            /\ req'[x].houses = req[x].houses /\ req'[x].rows = req[x].rows
      BY <1>1, <2>2
    <3> QED
      BY <3>1, <3>2 DEF Apart, HasCompany, At, Op, OnMap
  <2> QED
    BY <2>1, <2>2
<1> QED
  BY <1>3, <1>4 DEF MapInductive

(* What a commit may do around a house that another request has locked.      *)
LeavesHouse(h, changed) ==
  /\ h \in Standing'
  /\ \A m \in Present' : marker'[m].house = h => m \in Present /\ marker[m].house = h
  /\ \A c \in EndingAt(h)' :
       /\ c \in EndingAt(h) /\ route'[c] = route[c]
       /\ \A m \in Anchored(c)' : m \in Anchored(c) /\ marker'[m].place = marker[m].place
       /\ \A e \in Ends(c) \ {h} : PlaceOf(e)' = PlaceOf(e) \/ e \in changed

(* A request about a house is still right after the commit of another.       *)
LEMMA HouseRequestKept ==
  ASSUME MapInductive, NEW w \in Workers, NEW changed \in SUBSET (Things \cup Connections),
         Commit(w, changed),
         NEW v \in Workers \ {w}, req[v].pc # "idle", ~OnMap(req[v].op),
         NEW h, h = req[v].op.house, h \in req[v].houses => LeavesHouse(h, changed)
  PROVE  RequestOK(v)'
<1>1. PICK r : r = req[v]
  OBVIOUS
<1>2. PICK s : s = req'[v]
  OBVIOUS
<1>3. r \in Requests /\ AsksWell(r) /\ Holds(r) /\ (r.pc = "commit" => StillPermits(r))
  BY <1>1 DEF MapInductive, GraphSound, TypeOK, RequestOK, At
<1>4. /\ s.pc = r.pc /\ s.op = r.op /\ s.houses = r.houses /\ s.rows = r.rows
      /\ r.pc # "commit" => s.late = r.late
      /\ r.pc = "commit" => r.late \subseteq s.late
      /\ r.pc = "commit" /\ Moved(r) # {} => changed \subseteq s.late
  BY <1>1, <1>2, CommitFrame
<1>5. r.op.kind \in HouseKinds /\ r.op.house = h /\ h \in Houses
  BY <1>1, <1>3 DEF OnMap, AsksWell
<1>6. AsksWell(s)' /\ Remembers(s)'
  BY <1>4, <1>5 DEF AsksWell, Remembers, OnMap, HouseKinds, RouteKinds
<1>7. r.pc \in {"rows", "commit"} => h \in r.houses /\ LeavesHouse(h, changed)
  BY <1>1, <1>3, <1>5 DEF Holds, NeedsHouse, OnMap, HouseKinds, SaveKinds
<1>8. Holds(s)'
  <2>1. HousesOf(r) = {h} \cap Standing /\ HousesOf(s)' = {h} \cap Standing'
    BY <1>4, <1>5 DEF HousesOf, OnMap, HouseKinds, SaveKinds, RouteKinds, Standing
  <2>2. NeedsHouse(s)' = {h}
    BY <1>4, <1>5 DEF NeedsHouse, OnMap, HouseKinds, SaveKinds
  <2>3. r.pc \in {"rows", "commit"} => s.houses = {h} /\ h \in Standing'
    BY <1>3, <1>4, <1>7, <2>1 DEF Holds, LeavesHouse
  <2>4. r.pc = "commit" /\ r.op.kind = "demolish" =>
          {m \in Present' : marker'[m].house = h} \subseteq s.rows
    BY <1>3, <1>4, <1>5, <1>7 DEF Holds, LeavesHouse
  <2> QED
    BY <1>3, <1>4, <1>5, <2>1, <2>2, <2>3, <2>4 DEF Holds, HouseKinds
<1>9. ASSUME r.pc = "commit"
      PROVE  StillPermits(s)'
  <2>1. LeavesHouse(h, changed) /\ StillPermits(r)
    BY <1>3, <1>7, <1>9
  <2>2. r.op.kind = "demolish" => EndingAt(h)' = {}
    BY <1>5, <2>1 DEF StillPermits, LeavesHouse
  <2>3. StillGuarded(s)'
    <3>1. CASE r.op.kind = "demolish"
      <4>1. Moved(s)' = {}
        BY <1>4, <3>1 DEF Moved, MovesHouse, SaveKinds
      <4> QED
        BY <4>1 DEF StillGuarded
    <3>2. CASE r.op.kind = "move"
      <4>1. Moved(s)' = {h} /\ Moved(r) = {h}
        BY <1>4, <1>5, <3>2 DEF Moved, MovesHouse, SaveKinds
      <4>2. changed \subseteq s.late /\ r.late \subseteq s.late
        BY <1>4, <1>9, <4>1
      <4>3. ASSUME NEW c \in EndingAt(h)'
            PROVE  \/ (Ends(c)' \ {h}) \cap s.late # {}
                   \/ \A m \in Anchored(c)' : Within(marker'[m].place, LineWith(c, h, s.op.place)')
        <5>1. /\ c \in EndingAt(h) /\ route'[c] = route[c]
              /\ \A m \in Anchored(c)' : m \in Anchored(c) /\ marker'[m].place = marker[m].place
              /\ \A e \in Ends(c) \ {h} : PlaceOf(e)' = PlaceOf(e) \/ e \in changed
          BY <2>1, <4>3 DEF LeavesHouse
        <5>2. Ends(c)' = Ends(c)
          BY <5>1 DEF Ends
        <5>3. \/ (Ends(c) \ {h}) \cap r.late # {}
              \/ \A m \in Anchored(c) : Within(marker[m].place, LineWith(c, h, r.op.place))
          BY <2>1, <4>1, <5>1 DEF StillPermits, StillGuarded
        <5>4. CASE (Ends(c) \ {h}) \cap s.late # {}
          BY <5>2, <5>4
        <5>5. CASE (Ends(c) \ {h}) \cap s.late = {}
          <6>1. \A e \in Ends(c) \ {h} : PlaceOf(e)' = PlaceOf(e)
            BY <4>2, <5>1, <5>5
          <6>2. LineWith(c, h, s.op.place)' = LineWith(c, h, r.op.place)
            BY <1>4, <5>1, <6>1 DEF LineWith, Ends
          <6>3. \A m \in Anchored(c) : Within(marker[m].place, LineWith(c, h, r.op.place))
            BY <4>2, <5>3, <5>5
          <6> QED
            BY <5>1, <6>2, <6>3
        <5> QED
          BY <5>4, <5>5
      <4> QED
        BY <4>1, <4>3 DEF StillGuarded
    <3> QED
      BY <1>5, <3>1, <3>2 DEF HouseKinds
  <2> QED
    BY <1>4, <1>5, <2>2, <2>3 DEF StillPermits, HouseKinds, SaveKinds, RouteKinds
<1> QED
  BY <1>2, <1>4, <1>6, <1>8, <1>9, AskedOfRequest

(* What the deletion or the move of a house does to the map: markers bound   *)
(* to a deleted house lose it, and nothing else changes.                     *)
ChangesHouse(h, rows, changed) ==
  /\ UNCHANGED <<route, anchor>>
  /\ h \in changed
  /\ Present' = Present /\ Standing' \subseteq Standing /\ Standing \ {h} \subseteq Standing'
  /\ \A g \in Standing \ {h} : house'[g] = house[g]
  /\ \A m \in Markers :
       \/ marker'[m] = marker[m]
       \/ /\ marker[m].house = h /\ h \notin Standing' /\ m \in changed \cap rows
          /\ marker'[m].role = "none" /\ marker'[m].house = None
          /\ marker[m].role # "represents" => marker'[m].place = marker[m].place
  /\ h \notin Standing' => EndingAt(h) = {}

(* Lines keep their ends, and ends other than h their places.                *)
LEMMA EndsKept ==
  ASSUME MapInductive, NEW h \in Houses, NEW rows, NEW changed, ChangesHouse(h, rows, changed)
  PROVE  /\ Built' = Built
         /\ \A c : Ends(c)' = Ends(c)
         /\ \A e : EndingAt(e)' = EndingAt(e)
         /\ \A c : Anchored(c)' = Anchored(c)
         /\ \A m \in Present : marker[m].role # "represents" =>
              marker'[m].role # "represents" /\ marker'[m].place = marker[m].place
         /\ \A e \in Standing \ {h} : PlaceOf(e)' = PlaceOf(e)
         /\ \A e \in Present : marker[e].role # "represents" => PlaceOf(e)' = PlaceOf(e)
         /\ \A c \in Built : \A e \in Ends(c) \ {h} : PlaceOf(e)' = PlaceOf(e)
<1>1. Built' = Built /\ (\A c : Ends(c)' = Ends(c)) /\ (\A e : EndingAt(e)' = EndingAt(e))
  BY DEF ChangesHouse, Built, Ends, EndingAt
<1>2. \A c : Anchored(c)' = Anchored(c)
  BY DEF ChangesHouse, Anchored
<1>3. \A m \in Present : marker[m].role # "represents" =>
        marker'[m].role # "represents" /\ marker'[m].place = marker[m].place
  BY DEF ChangesHouse, Present
<1>4. \A e \in Standing \ {h} : e \in Standing' /\ e \notin Present /\ e \notin Present'
  BY IdAssumption DEF ChangesHouse, Standing, Present
<1>5. \A e \in Standing \ {h} : PlaceOf(e)' = PlaceOf(e)
  BY <1>4 DEF PlaceOf, ChangesHouse
<1>6. \A e \in Present : e \in Present' /\ e \notin Standing /\ e \notin Standing'
  BY IdAssumption DEF ChangesHouse, Standing, Present
<1>7. \A e \in Present : marker[e].role # "represents" => PlaceOf(e)' = PlaceOf(e)
  BY <1>3, <1>6 DEF PlaceOf
<1>8. \A c \in Built : \A e \in Ends(c) :
        e \in Standing \/ (e \in Present /\ marker[e].role # "represents")
  BY DEF MapInductive, GraphSound, EndsExist
<1> QED
  BY <1>1, <1>2, <1>3, <1>5, <1>7, <1>8

(* A request of the map is still right after a house was moved or deleted.   *)
LEMMA MapRequestKept ==
  ASSUME MapInductive, NEW w \in Workers, NEW changed \in SUBSET (Things \cup Connections),
         Commit(w, changed),
         NEW v \in Workers \ {w}, req[v].pc # "idle", OnMap(req[v].op),
         NEW h \in Houses, h \notin req[v].houses,
         NEW rows, rows \cap req[v].rows = {}, ChangesHouse(h, rows, changed)
  PROVE  RequestOK(v)'
<1>1. PICK r : r = req[v]
  OBVIOUS
<1>2. PICK s : s = req'[v]
  OBVIOUS
<1>3. /\ r \in Requests /\ AsksWell(r) /\ Remembers(r) /\ Holds(r)
      /\ r.pc = "commit" => StillPermits(r)
  BY <1>1 DEF MapInductive, GraphSound, TypeOK, RequestOK, At
<1>4. /\ s.pc = r.pc /\ s.op = r.op /\ s.was = r.was /\ s.line = r.line
      /\ s.houses = r.houses /\ s.rows = r.rows /\ r.stale \subseteq s.stale
      /\ r.pc # "commit" => s.late = r.late /\ changed \subseteq s.stale
      /\ r.pc = "commit" => r.late \subseteq s.late
      /\ r.pc = "commit" /\ Moved(r) # {} => changed \subseteq s.late
  BY <1>1, <1>2, CommitFrame
<1>5. /\ TypeOK /\ BindingsSound /\ RowsSound /\ AnchorsSound /\ None \notin Houses
      /\ Present \subseteq Markers
  BY IdAssumption DEF MapInductive, GraphSound, Present
<1>6. AsksWell(s)'
  <2>1. /\ Built' = Built /\ NewMarkers' = NewMarkers /\ NewConnections' = NewConnections
        /\ Present' = Present
    BY EndsKept DEF ChangesHouse, NewMarkers, NewConnections
  <2>2. \A e \in Present : marker[e].role # "represents" => marker'[e].role # "represents"
    BY EndsKept
  <2> QED
    BY <1>3, <1>4, <2>1, <2>2 DEF AsksWell
<1>7. r.op.kind = "update" =>
        r.op.marker \in Present /\ (r.pc = "commit" => marker'[r.op.marker] = marker[r.op.marker])
  <2>1. r.op.kind = "update" => r.op.marker \in Present
    BY <1>3 DEF AsksWell
  <2>2. r.op.kind = "update" /\ r.pc = "commit" => r.op.marker \notin rows
    BY <1>1, <1>3 DEF Holds
  <2> QED
    BY <1>5, <2>1, <2>2 DEF ChangesHouse
<1>8. Remembers(s)'
  <2> SUFFICES ASSUME r.op.kind = "update"
               PROVE  LET now == marker'[r.op.marker]
                      IN  \/ r.was = now
                          \/ /\ r.op.marker \in s.stale
                             /\ r.was.role \in {"reference", "represents"}
                             /\ r.was.house \in Houses \ Standing'
                             /\ now.role = "none" /\ now.house = None
                             /\ r.was.role = "reference" => now.place = r.was.place
                             /\ r.was.role = "represents" => EndingAt(r.op.marker)' = {}
                             /\ anchor'[r.op.marker] = None
    BY <1>4 DEF Remembers
  <2>1. PICK m \in Present : m = r.op.marker
    BY <1>7
  <2>2. CASE marker'[m] = marker[m]
    <3>1. EndingAt(m)' = EndingAt(m) /\ anchor' = anchor /\ Standing' \subseteq Standing
      BY EndsKept DEF ChangesHouse
    <3>2. /\ r.op.marker \in r.stale => r.op.marker \in s.stale
          /\ r.was.house \in Houses \ Standing => r.was.house \in Houses \ Standing'
      BY <1>4, <3>1
    <3>3. Remembers(r)
      BY <1>3
    <3> QED
      BY <2>1, <2>2, <3>1, <3>2, <3>3 DEF Remembers
  <2>3. CASE marker'[m] # marker[m]
    <3>1. /\ marker[m].house = h /\ h \notin Standing' /\ m \in changed
          /\ marker'[m].role = "none" /\ marker'[m].house = None
          /\ marker[m].role # "represents" => marker'[m].place = marker[m].place
      BY <1>5, <2>1, <2>3 DEF ChangesHouse
    <3>2. r.was = marker[m]
      BY <1>3, <1>5, <2>1, <3>1 DEF Remembers
    <3>3. marker[m].role \in {"reference", "represents"}
      BY <1>5, <2>1, <3>1 DEF BindingsSound, RowsSound, TypeOK, Rows, Roles
    <3>4. m \in s.stale
      BY <1>4, <1>7, <2>1, <2>3, <3>1
    <3>5. marker[m].role = "represents" => EndingAt(m) = {}
      BY <1>5, <2>1, IdAssumption DEF MapInductive, GraphSound, EndsExist, EndingAt, Standing
    <3>6. anchor'[m] = None /\ EndingAt(m)' = EndingAt(m)
      BY <1>5, <2>1, <3>3, EndsKept DEF AnchorsSound, ChangesHouse
    <3> QED
      BY <2>1, <3>1, <3>2, <3>3, <3>4, <3>5, <3>6
  <2> QED
    BY <2>2, <2>3
<1>9. ASSUME r.pc \in {"rows", "commit"}
      PROVE  HousesOf(r) = r.houses /\ HousesOf(s)' = r.houses /\ h \notin HousesOf(r)
  <2>1. HousesOf(r) = r.houses /\ h \notin HousesOf(r)
    BY <1>1, <1>3, <1>9 DEF Holds
  <2>2. Standing' \subseteq Standing /\ Standing \ {h} \subseteq Standing'
    BY DEF ChangesHouse
  <2>3. \A c : Ends(c)' = Ends(c)
    BY EndsKept
  <2>4. HousesOf(s)' = HousesOf(r) \cap Standing'
    BY <1>4, <2>2, <2>3 DEF HousesOf, HouseAfter, OnMap
  <2>5. HousesOf(r) \subseteq Standing
    BY DEF HousesOf
  <2> QED
    BY <2>1, <2>2, <2>4, <2>5
<1>10. Holds(s)'
  <2>1. NeedsHouse(s)' = NeedsHouse(r)
    BY <1>4 DEF NeedsHouse, HouseAfter
  <2>2. r.op.kind # "demolish"
    BY <1>1 DEF OnMap, HouseKinds
  <2> QED
    BY <1>3, <1>4, <1>9, <2>1, <2>2 DEF Holds
<1>11. ASSUME r.pc = "commit"
       PROVE  StillPermits(s)'
  <2>1. StillPermits(r) /\ HousesOf(r) = r.houses /\ h \notin HousesOf(r)
    BY <1>3, <1>9, <1>11
  <2>2. /\ Built' = Built
        /\ \A c : Ends(c)' = Ends(c) /\ Anchored(c)' = Anchored(c)
        /\ \A e : EndingAt(e)' = EndingAt(e)
        /\ \A m \in Present : marker[m].role # "represents" =>
              marker'[m].role # "represents" /\ marker'[m].place = marker[m].place
        /\ \A e \in Standing \ {h} : PlaceOf(e)' = PlaceOf(e)
        /\ \A e \in Present : marker[e].role # "represents" => PlaceOf(e)' = PlaceOf(e)
        /\ \A c \in Built : \A e \in Ends(c) \ {h} : PlaceOf(e)' = PlaceOf(e)
    BY EndsKept
  <2>3. \A c \in Connections : \A m \in Anchored(c) :
          marker'[m].role = marker[m].role /\ marker'[m].place = marker[m].place
    <3>1. ASSUME NEW c \in Connections, NEW m \in Anchored(c)
          PROVE  m \in Present /\ marker[m].role = "none"
      BY <1>5, <3>1, IdAssumption DEF Anchored, AnchorsSound
    <3>2. ASSUME NEW m \in Present, marker[m].role = "none"
          PROVE  \/ marker'[m] = marker[m]
                 \/ marker'[m].role = "none" /\ marker'[m].place = marker[m].place
      BY <1>5, <3>2 DEF ChangesHouse
    <3> QED
      BY <3>1, <3>2
  <2>4. /\ route' = route /\ anchor' = anchor /\ Present' = Present /\ h \in changed
        /\ Standing \ {h} \subseteq Standing'
    BY DEF ChangesHouse
  <2>5. ASSUME r.op.kind \in SaveKinds
        PROVE  /\ ~ChangesFixed(s)'
               /\ RoleAfter(s)' = "represents" /\ marker'[s.op.marker].role # "represents" =>
                    EndingAt(s.op.marker)' = {}
    <3>1. marker'[r.op.marker] = marker[r.op.marker]
      <4>1. r.op.kind = "create" => r.op.marker \in Markers /\ marker[r.op.marker] = Absent
        BY <1>3 DEF AsksWell, NewMarkers, Present
      <4>2. Absent.house = None
        BY DEF Absent
      <4> QED
        BY <1>5, <1>7, <1>11, <2>5, <4>1, <4>2 DEF ChangesHouse, SaveKinds
    <3> QED
      BY <1>4, <2>1, <2>2, <2>4, <2>5, <3>1 DEF StillPermits, ChangesFixed, GivesPoint, RoleAfter
  <2>6. StillGuarded(s)'
    <3> SUFFICES ASSUME NEW e \in Moved(s)', NEW c \in EndingAt(e)',
                        (Ends(c)' \ {e}) \cap s.late = {}, NEW m \in Anchored(c)'
                 PROVE  Within(marker'[m].place, LineWith(c, e, s.op.place)')
      BY DEF StillGuarded
    <3>1. Moved(s)' = Moved(r)
      BY <1>4 DEF Moved, MovesHouse
    <3>2. h \in s.late /\ r.late \subseteq s.late
      BY <1>4, <1>11, <2>4, <3>1
    <3>3. c \in Built /\ c \in EndingAt(e) /\ e \in Ends(c) /\ c \in Connections
      BY <2>2 DEF EndingAt, Built
    <3>4. \A f \in Ends(c) \ {e} : PlaceOf(f)' = PlaceOf(f)
      BY <2>2, <3>2, <3>3
    <3>5. LineWith(c, e, s.op.place)' = LineWith(c, e, r.op.place)
      BY <1>4, <2>4, <3>4 DEF LineWith, Ends
    <3>6. Within(marker[m].place, LineWith(c, e, r.op.place))
      BY <2>1, <2>2, <3>1, <3>2, <3>3 DEF StillPermits, StillGuarded
    <3> QED
      BY <2>2, <2>3, <3>3, <3>5, <3>6
  <2>7. ASSUME r.op.kind = "connect"
        PROVE  ConnectPermits(s)'
    <3>1. ConnectPermits(r) /\ r.op.connection \in Connections
      BY <1>3, <2>1, <2>7 DEF StillPermits, AsksWell
    <3>2. ASSUME NEW e \in {r.op.from, r.op.to}
          PROVE  e \in Standing' \cup Present' /\ PlaceOf(e)' = PlaceOf(e)
      <4>1. e \in Standing \cup Present
        BY <3>1 DEF ConnectPermits, EndsStand
      <4>2. e \in Standing => e \in HousesOf(r)
        BY <2>7 DEF HousesOf
      <4>3. e \in Houses \/ (e \in Present /\ marker[e].role # "represents")
        BY <1>3, <2>7 DEF AsksWell
      <4>4. e \in Houses => e \notin Present
        BY <1>5, IdAssumption
      <4> QED
        BY <2>1, <2>2, <2>4, <4>1, <4>2, <4>3, <4>4
    <3> QED
      BY <1>4, <2>2, <2>3, <3>1, <3>2 DEF ConnectPermits, EndsStand
  <2>8. ASSUME r.op.kind \in RouteKinds
        PROVE  RoutePermits(s)'
    <3>1. PICK c \in Built : c = r.op.connection
      BY <1>3, <2>8 DEF AsksWell
    <3>2. RoutePermits(r)
      BY <2>1, <2>8 DEF StillPermits
    <3>3. h \notin Ends(c) \/ h \notin Standing
      BY <2>1, <2>8, <3>1 DEF HousesOf
    <3>4. \A e \in Ends(c) : e \in Standing \/ (e \in Present /\ marker[e].role # "represents")
      BY DEF MapInductive, GraphSound, EndsExist
    <3>5. \A e \in Ends(c) : PlaceOf(e)' = PlaceOf(e)
      BY <2>2, <3>3, <3>4
    <3>6. Line(c)' = Line(c)
      BY <2>4, <3>5 DEF Line, Ends
    <3>7. c \in Connections
      BY DEF Built
    <3> QED
      BY <1>4, <2>2, <2>3, <2>4, <3>1, <3>2, <3>6, <3>7 DEF RoutePermits
  <2>9. r.op.kind # "demolish"
    BY <1>1 DEF OnMap, HouseKinds
  <2> QED
    BY <1>4, <2>1, <2>2, <2>5, <2>6, <2>7, <2>8, <2>9 DEF StillPermits
<1> QED
  BY <1>2, <1>4, <1>6, <1>8, <1>10, <1>11, AskedOfRequest

(* Other houses are left alone.                                              *)
LEMMA OtherHousesLeft ==
  ASSUME MapInductive, NEW h \in Houses, NEW rows, NEW changed, ChangesHouse(h, rows, changed),
         NEW g \in Standing, g # h
  PROVE  LeavesHouse(g, changed)
<1>1. TypeOK /\ AnchorsSound /\ None \notin Houses /\ None \notin Connections
  BY IdAssumption DEF MapInductive, GraphSound
<1>2. g \in Standing' /\ h \in changed /\ route' = route /\ anchor' = anchor /\ Present' = Present
  BY DEF ChangesHouse
<1>3. ASSUME NEW m \in Present', marker'[m].house = g
      PROVE  m \in Present /\ marker[m].house = g
  <2>1. m \in Present /\ m \in Markers /\ g \in Houses
    BY <1>2, <1>3 DEF Present, Standing
  <2> QED
    BY <1>1, <1>3, <2>1 DEF ChangesHouse
<1>4. ASSUME NEW c \in EndingAt(g)'
      PROVE  /\ c \in EndingAt(g) /\ route'[c] = route[c]
             /\ \A m \in Anchored(c)' : m \in Anchored(c) /\ marker'[m].place = marker[m].place
             /\ \A e \in Ends(c) \ {g} : PlaceOf(e)' = PlaceOf(e) \/ e \in changed
  <2>1. c \in EndingAt(g) /\ c \in Built /\ c \in Connections /\ Anchored(c)' = Anchored(c)
    BY <1>4, EndsKept DEF EndingAt, Built
  <2>2. \A e \in Ends(c) \ {h} : PlaceOf(e)' = PlaceOf(e)
    BY <2>1, EndsKept
  <2>3. ASSUME NEW m \in Anchored(c)
        PROVE  marker'[m].place = marker[m].place
    <3>1. m \in Present /\ m \in Markers /\ marker[m].role = "none"
      BY <1>1, <2>1 DEF Anchored, AnchorsSound, Present
    <3> QED
      BY <3>1, EndsKept
  <2> QED
    BY <1>2, <2>1, <2>2, <2>3
<1> QED
  BY <1>2, <1>3, <1>4 DEF LeavesHouse

(* The commit of a request of the map: houses it has not locked stay as they *)
(* are for those who have.                                                   *)
LEMMA MapCommit ==
  ASSUME MapInductive, NEW w \in Workers, At(w, "commit"), OnMap(Op(w)),
         NEW changed \in SUBSET (Things \cup Connections), Commit(w, changed),
         GraphSound', RowsSound', ObjectsOnLine',
         \A h \in Standing \ req[w].houses : LeavesHouse(h, changed)
  PROVE  MapInductive'
<1>1. ASSUME NEW v \in Workers \ {w}, req[v].pc # "idle"
      PROVE  RequestOK(v)'
  <2>1. ~OnMap(req[v].op) /\ req[v].houses \cap req[w].houses = {}
    BY <1>1, Committing DEF Op
  <2>2. Holds(req[v])
    BY <1>1 DEF MapInductive, RequestOK, At
  <2>3. req[v].houses \subseteq Standing
    BY <2>2 DEF Holds, HousesOf
  <2>4. PICK h : h = req[v].op.house
    OBVIOUS
  <2>5. h \in req[v].houses => LeavesHouse(h, changed)
    BY <2>1, <2>3
  <2> QED
    BY <1>1, <2>1, <2>4, <2>5, HouseRequestKept
<1> QED
  BY <1>1, CommitStep

(* The commit of a request about a house.                                    *)
LEMMA HouseCommit ==
  ASSUME MapInductive, NEW w \in Workers, At(w, "commit"), ~OnMap(Op(w)),
         NEW changed \in SUBSET (Things \cup Connections), Commit(w, changed),
         GraphSound', RowsSound', ObjectsOnLine',
         ChangesHouse(Op(w).house, req[w].rows, changed)
  PROVE  MapInductive'
<1>1. PICK h : h = Op(w).house
  OBVIOUS
<1>2. PICK r : r = req[w]
  OBVIOUS
<1>3. AsksWell(r) /\ NeedsHouse(r) \subseteq r.houses /\ ~OnMap(r.op) /\ h = r.op.house
  BY <1>1, <1>2, Committing DEF Op
<1>4. h \in Houses /\ h \in r.houses
  BY <1>3 DEF AsksWell, NeedsHouse, OnMap, HouseKinds, SaveKinds
<1>5. PICK rows : rows = req[w].rows
  OBVIOUS
<1>6. ChangesHouse(h, rows, changed)
  BY <1>1, <1>5
<1>7. ASSUME NEW v \in Workers \ {w}, req[v].pc # "idle"
      PROVE  RequestOK(v)'
  <2>1. h \notin req[v].houses /\ rows \cap req[v].rows = {}
    BY <1>2, <1>4, <1>5, <1>7, Committing
  <2>2. CASE OnMap(req[v].op)
    BY <1>4, <1>6, <1>7, <2>1, <2>2, MapRequestKept
  <2>3. CASE ~OnMap(req[v].op)
    <3>1. Holds(req[v])
      BY <1>7 DEF MapInductive, RequestOK, At
    <3>2. req[v].houses \subseteq Standing
      BY <3>1 DEF Holds, HousesOf
    <3>3. PICK g : g = req[v].op.house
      OBVIOUS
    <3>4. g \in req[v].houses => LeavesHouse(g, changed)
      BY <1>4, <1>6, <2>1, <3>2, OtherHousesLeft
    <3> QED
      BY <1>7, <2>3, <3>3, <3>4, HouseRequestKept
  <2> QED
    BY <2>2, <2>3
<1> QED
  BY <1>7, CommitStep

-----------------------------------------------------------------------------
(* The commits                                                               *)

(* Ends of lines are houses or markers that are there.                       *)
LEMMA EndFacts ==
  ASSUME MapInductive
  PROVE  /\ TypeOK /\ EndsExist /\ BindingsSound /\ AnchorsSound /\ RowsSound /\ ObjectsOnLine
         /\ Present \subseteq Markers /\ Standing \subseteq Houses /\ Built \subseteq Connections
         /\ None \notin Houses /\ None \notin Markers /\ None \notin Connections
         /\ \A m \in Markers : anchor[m] # None =>
              m \in Present /\ marker[m].role = "none" /\ anchor[m] \in Built
         /\ \A c \in Connections : \A m \in Anchored(c) : m \in Present /\ marker[m].role = "none"
<1>1. TypeOK /\ EndsExist /\ BindingsSound /\ AnchorsSound /\ RowsSound /\ ObjectsOnLine
  BY DEF MapInductive, GraphSound
<1>2. None \notin Houses /\ None \notin Markers /\ None \notin Connections
  BY IdAssumption
<1>3. Absent.role = "absent"
  BY DEF Absent
<1>4. \A m \in Markers : anchor[m] # None =>
        m \in Present /\ marker[m].role = "none" /\ anchor[m] \in Built
  BY <1>1, <1>3 DEF AnchorsSound, Present
<1>5. \A c \in Connections : \A m \in Anchored(c) : m \in Present /\ marker[m].role = "none"
  BY <1>2, <1>4 DEF Anchored, Present
<1> QED
  BY <1>1, <1>2, <1>4, <1>5 DEF Present, Standing, Built

(* A commit that leaves houses, markers and lines alone.                     *)
LEMMA AnchorsOnly ==
  ASSUME MapInductive, NEW w \in Workers, At(w, "commit"), OnMap(Op(w)),
         NEW changed \in SUBSET (Things \cup Connections), Commit(w, changed),
         UNCHANGED <<house, marker, route, skewed>>,
         anchor' \in [Markers -> Connections \cup {None}],
         \A m \in Markers : anchor'[m] \in {anchor[m], None}
  PROVE  MapInductive'
<1>1. /\ TypeOK /\ EndsExist /\ BindingsSound /\ AnchorsSound /\ RowsSound /\ ObjectsOnLine
      /\ None \notin Connections
  BY EndFacts
<1>2. Present' = Present /\ Standing' = Standing /\ Built' = Built
  BY DEF Present, Standing, Built
<1>3. \A c : Ends(c)' = Ends(c) /\ Line(c)' = Line(c)
  BY <1>2 DEF Ends, Line, PlaceOf
<1>4. \A e : PlaceOf(e)' = PlaceOf(e) /\ EndingAt(e)' = EndingAt(e)
  BY <1>2, <1>3 DEF PlaceOf, EndingAt
<1>5. \A c \in Connections : Anchored(c)' \subseteq Anchored(c)
  BY <1>1, <1>2 DEF Anchored, Present
<1>6. TypeOK'
  BY <1>1, CommitFrame DEF TypeOK
<1>7. GraphSound' /\ RowsSound'
  BY <1>1, <1>2, <1>3, <1>6
     DEF GraphSound, EndsExist, BindingsSound, AnchorsSound, RowsSound
<1>8. ObjectsOnLine'
  BY <1>1, <1>2, <1>3, IdAssumption DEF ObjectsOnLine, Built
<1>9. \A h \in Standing : LeavesHouse(h, changed)
  BY <1>2, <1>3, <1>4, <1>5 DEF LeavesHouse, EndingAt, Built
<1> QED
  BY <1>7, <1>8, <1>9, MapCommit

(* The boundary of a line: nothing that the graph is made of.                *)
LEMMA SetInstallationBoundaryStep ==
  ASSUME MapInductive, NEW w \in Workers, SetInstallationBoundary(w)
  PROVE  MapInductive'
<1>1. At(w, "commit") /\ Op(w).kind = "boundary" /\ Commit(w, {Op(w).connection})
      /\ UNCHANGED <<house, marker, route, skewed, anchor>>
  BY DEF SetInstallationBoundary, tables
<1>2. Op(w).connection \in Connections
  BY <1>1, Committing DEF AsksWell, Op, RouteKinds, Built
<1>3. anchor \in [Markers -> Connections \cup {None}]
  BY EndFacts DEF TypeOK
<1> QED
  BY <1>1, <1>2, <1>3, AnchorsOnly DEF OnMap, HouseKinds

(* A route object is taken off its line.                                     *)
LEMMA DetachRouteObjectStep ==
  ASSUME MapInductive, NEW w \in Workers, DetachRouteObject(w)
  PROVE  MapInductive'
<1>1. At(w, "commit") /\ Op(w).kind = "detach" /\ Commit(w, {Op(w).connection})
      /\ UNCHANGED <<house, marker, route, skewed>> /\ anchor' = [anchor EXCEPT ![Op(w).marker] = None]
  BY DEF DetachRouteObject
<1>2. Op(w).connection \in Connections
  BY <1>1, Committing DEF AsksWell, Op, RouteKinds, Built
<1>3. anchor \in [Markers -> Connections \cup {None}]
  BY EndFacts DEF TypeOK
<1>4. anchor' \in [Markers -> Connections \cup {None}] /\ \A m \in Markers : anchor'[m] \in {anchor[m], None}
  BY <1>1, <1>3
<1> QED
  BY <1>1, <1>2, <1>4, AnchorsOnly DEF OnMap, HouseKinds

(* A marker goes: it ends no line, and it is taken off its own.              *)
LEMMA DeleteMarkerStep ==
  ASSUME MapInductive, NEW w \in Workers, DeleteMarker(w)
  PROVE  MapInductive'
<1>1. PICK m : m = Op(w).marker
  OBVIOUS
<1>2. /\ At(w, "commit") /\ Op(w).kind = "erase" /\ Commit(w, {m})
      /\ marker' = [marker EXCEPT ![m] = Absent] /\ anchor' = [anchor EXCEPT ![m] = None]
      /\ UNCHANGED <<house, route, skewed>>
  BY <1>1 DEF DeleteMarker
<1>3. m \in Markers /\ EndingAt(m) = {}
  BY <1>1, <1>2, Committing DEF AsksWell, StillPermits, Op
<1>4. /\ TypeOK /\ EndsExist /\ BindingsSound /\ AnchorsSound /\ RowsSound /\ ObjectsOnLine
      /\ None \notin Connections /\ None \notin Houses /\ Built \subseteq Connections
      /\ \A n \in Markers : anchor[n] # None => n \in Present /\ marker[n].role = "none"
  BY EndFacts
<1>5. /\ Present' = Present \ {m} /\ Standing' = Standing /\ Built' = Built
      /\ \A n \in Markers \ {m} : marker'[n] = marker[n] /\ anchor'[n] = anchor[n]
      /\ marker'[m] = Absent /\ anchor'[m] = None
  BY <1>2, <1>3, <1>4 DEF TypeOK, Present, Standing, Built
<1>6. Absent.role = "absent" /\ Absent.house = None /\ Absent \in Rows
  BY DEF Absent, Rows
<1>7. \A c : Ends(c)' = Ends(c)
  BY <1>2 DEF Ends
<1>8. \A c \in Built : m \notin Ends(c)
  BY <1>3 DEF EndingAt
<1>9. \A e : EndingAt(e)' = EndingAt(e)
  BY <1>5, <1>7 DEF EndingAt
<1>10. \A c \in Built : \A e \in Ends(c) : PlaceOf(e)' = PlaceOf(e) /\ e # m
  <2>1. \A c \in Built : \A e \in Ends(c) : e # m
    BY <1>8
  <2>2. ASSUME NEW e, e # m
        PROVE  PlaceOf(e)' = PlaceOf(e)
    BY <1>2, <1>5, <2>2 DEF PlaceOf, Present
  <2> QED
    BY <2>1, <2>2
<1>11. \A c \in Built : Line(c)' = Line(c)
  BY <1>2, <1>10 DEF Line, Ends
<1>12. TypeOK'
  <2>1. {m} \in SUBSET (Things \cup Connections)
    BY <1>3 DEF Things
  <2>2. req' \in [Workers -> Requests] /\ commits' \in Nat
    BY <1>2, <2>1, CommitFrame
  <2>3. marker' \in [Markers -> Rows] /\ anchor' \in [Markers -> Connections \cup {None}]
    BY <1>2, <1>4, <1>6 DEF TypeOK
  <2> QED
    BY <1>2, <1>4, <2>2, <2>3 DEF TypeOK
<1>13. EndsExist'
  BY <1>2, <1>4, <1>5, <1>7, <1>8 DEF EndsExist, Present
<1>14. BindingsSound'
  BY <1>4, <1>5 DEF BindingsSound, Present
<1>15. AnchorsSound' /\ RowsSound'
  BY <1>2, <1>4, <1>5 DEF AnchorsSound, RowsSound, Present
<1>16. ObjectsOnLine'
  BY <1>2, <1>4, <1>5, <1>11 DEF ObjectsOnLine
<1>17. ASSUME NEW h \in Standing
       PROVE  LeavesHouse(h, {m})
  <2>1. \A n \in Present' : n \in Present /\ marker'[n] = marker[n]
    BY <1>5 DEF Present
  <2>2. \A c \in Connections : Anchored(c)' \subseteq Anchored(c)
    BY <1>4, <1>5 DEF Anchored, Present
  <2>3. \A c \in EndingAt(h) : c \in Built /\ c \in Connections
    BY <1>4 DEF EndingAt
  <2>4. \A c : \A n \in Anchored(c)' : n \in Present'
    BY DEF Anchored
  <2> QED
    BY <1>2, <1>5, <1>9, <1>10, <2>1, <2>2, <2>3, <2>4 DEF LeavesHouse
<1> QED
  <2>1. {m} \in SUBSET (Things \cup Connections) /\ OnMap(Op(w))
    BY <1>2, <1>3 DEF Things, OnMap, HouseKinds
  <2> QED
    BY <1>2, <1>12, <1>13, <1>14, <1>15, <1>16, <1>17, <2>1, MapCommit DEF GraphSound

(* A line is drawn or redrawn, between ends that are there.                  *)
LEMMA SaveConnectionStep ==
  ASSUME MapInductive, NEW w \in Workers, SaveConnection(w)
  PROVE  MapInductive'
<1>1. PICK r : r = req[w]
  OBVIOUS
<1>2. PICK c : c = r.op.connection
  OBVIOUS
<1>3. /\ At(w, "commit") /\ r.op.kind = "connect" /\ Commit(w, {c})
      /\ route' = [route EXCEPT ![c] = [from |-> r.op.from, to |-> r.op.to]]
      /\ UNCHANGED <<house, marker, anchor, skewed>>
  BY <1>1, <1>2 DEF SaveConnection, Op
<1>4. AsksWell(r) /\ StillPermits(r) /\ r.houses = HousesOf(r) /\ r \in Requests
  BY <1>1, <1>3, Committing
<1>5. /\ TypeOK /\ EndsExist /\ BindingsSound /\ AnchorsSound /\ RowsSound /\ ObjectsOnLine
      /\ None \notin Connections /\ None \notin Houses /\ Built \subseteq Connections
      /\ Present \subseteq Markers /\ Standing \subseteq Houses
      /\ \A n \in Markers : anchor[n] # None => n \in Present /\ marker[n].role = "none"
  BY EndFacts
<1>6. /\ c \in Connections
      /\ \A e \in {r.op.from, r.op.to} : e \in Houses \/ (e \in Present /\ marker[e].role # "represents")
  BY <1>2, <1>3, <1>4 DEF AsksWell
<1>7. ConnectPermits(r)
  BY <1>3, <1>4 DEF StillPermits
<1>8. /\ r.op.from # r.op.to /\ {r.op.from, r.op.to} \subseteq Standing \cup Present
      /\ None \notin {PlaceOf(r.op.from), PlaceOf(r.op.to)} /\ PlaceOf(r.op.from) # PlaceOf(r.op.to)
      /\ \A m \in Anchored(c) : Within(marker[m].place, <<PlaceOf(r.op.from), PlaceOf(r.op.to)>>)
  BY <1>2, <1>7 DEF ConnectPermits, EndsStand
<1>9. /\ Present' = Present /\ Standing' = Standing
      /\ \A e : PlaceOf(e)' = PlaceOf(e)
      /\ \A d : Anchored(d)' = Anchored(d)
  BY <1>3 DEF Present, Standing, PlaceOf, Anchored
<1>10. /\ \A d \in Connections \ {c} : route'[d] = route[d]
       /\ route'[c].from = r.op.from /\ route'[c].to = r.op.to
  BY <1>3, <1>5, <1>6 DEF TypeOK
<1>11. Built' = Built \cup {c}
  BY <1>6, <1>8, <1>10 DEF Built, Unbuilt
<1>12. \A d \in Connections \ {c} : Ends(d)' = Ends(d) /\ Line(d)' = Line(d)
  BY <1>9, <1>10 DEF Ends, Line
<1>13. Ends(c)' = {r.op.from, r.op.to} /\ Line(c)' = <<PlaceOf(r.op.from), PlaceOf(r.op.to)>>
  BY <1>9, <1>10 DEF Ends, Line
<1>14. TypeOK'
  <2>1. req' \in [Workers -> Requests] /\ commits' \in Nat
    BY <1>3, <1>6, CommitFrame
  <2>2. r.op.from \in Things /\ r.op.to \in Things
    BY <1>5, <1>6 DEF Things
  <2>3. route' \in [Connections -> [from : Things \cup {None}, to : Things \cup {None}]]
    BY <1>3, <1>5, <2>2 DEF TypeOK
  <2> QED
    BY <1>3, <1>5, <2>1, <2>3 DEF TypeOK
<1>15. EndsExist'
  <2> SUFFICES ASSUME NEW d \in Built'
               PROVE  /\ route'[d].from # route'[d].to
                      /\ \A e \in Ends(d)' : e \in Standing \/ (e \in Present /\ marker[e].role # "represents")
    BY <1>3, <1>9 DEF EndsExist
  <2>1. CASE d = c
    <3>1. \A e \in {r.op.from, r.op.to} : e \in Houses => e \notin Present
      BY <1>5, IdAssumption
    <3> QED
      BY <1>6, <1>8, <1>10, <1>13, <2>1, <3>1
  <2>2. CASE d # c
    BY <1>5, <1>10, <1>11, <1>12, <2>2 DEF EndsExist
  <2> QED
    BY <2>1, <2>2
<1>16. BindingsSound' /\ AnchorsSound' /\ RowsSound'
  BY <1>3, <1>5, <1>9, <1>11 DEF BindingsSound, AnchorsSound, RowsSound
<1>17. ObjectsOnLine'
  <2> SUFFICES ASSUME NEW m \in Markers, NEW d \in Built' \ skewed, anchor[m] = d
               PROVE  Within(marker[m].place, Line(d)')
    BY <1>3 DEF ObjectsOnLine
  <2>1. CASE d = c
    <3>1. m \in Anchored(c)
      BY <1>5, <1>6, <2>1 DEF Anchored
    <3> QED
      BY <1>8, <1>13, <2>1, <3>1
  <2>2. CASE d # c
    <3>1. d \in Connections \ {c} /\ d \in Built \ skewed
      BY <1>5, <1>11, <2>2
    <3> QED
      BY <1>5, <1>12, <3>1 DEF ObjectsOnLine
  <2> QED
    BY <2>1, <2>2
<1>18. ASSUME NEW h \in Standing \ r.houses
       PROVE  LeavesHouse(h, {c})
  <2>1. h \notin {r.op.from, r.op.to}
    BY <1>3, <1>4, <1>18 DEF HousesOf
  <2>2. \A d \in EndingAt(h)' : d \in EndingAt(h) /\ d # c /\ d \in Connections
    BY <1>5, <1>11, <1>12, <1>13, <2>1 DEF EndingAt
  <2> QED
    BY <1>3, <1>9, <1>10, <2>2 DEF LeavesHouse
<1> QED
  BY <1>1, <1>3, <1>6, <1>14, <1>15, <1>16, <1>17, <1>18, MapCommit DEF GraphSound, OnMap, HouseKinds, Op

(* A line goes: nothing is fixed to it any more.                             *)
LEMMA DeleteConnectionStep ==
  ASSUME MapInductive, NEW w \in Workers, DeleteConnection(w)
  PROVE  MapInductive'
<1>1. PICK c : c = Op(w).connection
  OBVIOUS
<1>2. /\ At(w, "commit") /\ Op(w).kind = "remove" /\ Commit(w, {c})
      /\ route' = [route EXCEPT ![c] = Unbuilt] /\ skewed' = skewed \ {c}
      /\ UNCHANGED <<house, marker, anchor>>
  BY <1>1 DEF DeleteConnection
<1>3. c \in Connections /\ Anchored(c) = {}
  BY <1>1, <1>2, Committing DEF AsksWell, StillPermits, Op
<1>4. /\ TypeOK /\ EndsExist /\ BindingsSound /\ AnchorsSound /\ RowsSound /\ ObjectsOnLine
      /\ None \notin Connections /\ None \notin Houses /\ Built \subseteq Connections
      /\ \A n \in Markers : anchor[n] # None => n \in Present /\ marker[n].role = "none"
  BY EndFacts
<1>5. /\ Present' = Present /\ Standing' = Standing
      /\ \A e : PlaceOf(e)' = PlaceOf(e)
      /\ \A d : Anchored(d)' = Anchored(d)
  BY <1>2 DEF Present, Standing, PlaceOf, Anchored
<1>6. /\ \A d \in Connections \ {c} : route'[d] = route[d]
      /\ Built' = Built \ {c}
  BY <1>2, <1>3, <1>4 DEF TypeOK, Built
<1>7. \A d \in Built' : d \in Built /\ d \in Connections /\ d # c /\ Ends(d)' = Ends(d) /\ Line(d)' = Line(d)
  BY <1>4, <1>5, <1>6 DEF Ends, Line
<1>8. \A n \in Markers : anchor[n] # c
  BY <1>3, <1>4 DEF Anchored
<1>9. TypeOK'
  <2>1. req' \in [Workers -> Requests] /\ commits' \in Nat
    BY <1>2, <1>3, CommitFrame
  <2>2. route' \in [Connections -> [from : Things \cup {None}, to : Things \cup {None}]]
    BY <1>2, <1>4 DEF TypeOK, Unbuilt
  <2> QED
    BY <1>2, <1>4, <2>1, <2>2 DEF TypeOK
<1>10. EndsExist'
  BY <1>2, <1>4, <1>5, <1>6, <1>7 DEF EndsExist
<1>11. BindingsSound' /\ AnchorsSound' /\ RowsSound'
  BY <1>2, <1>4, <1>5, <1>6, <1>8 DEF BindingsSound, AnchorsSound, RowsSound
<1>12. ObjectsOnLine'
  BY <1>2, <1>4, <1>7, <1>8 DEF ObjectsOnLine
<1>13. ASSUME NEW h \in Standing
       PROVE  LeavesHouse(h, {c})
  <2>1. \A d \in EndingAt(h)' : d \in EndingAt(h) /\ d # c /\ d \in Connections
    BY <1>7 DEF EndingAt
  <2> QED
    BY <1>2, <1>5, <1>6, <2>1 DEF LeavesHouse
<1> QED
  BY <1>2, <1>3, <1>9, <1>10, <1>11, <1>12, <1>13, MapCommit DEF GraphSound, OnMap, HouseKinds

(* A marker that appears on its own.                                         *)
LEMMA NewObject ==
  ASSUME MapInductive, NEW m \in NewMarkers, NEW p \in Places, house' = house,
         marker' = [marker EXCEPT ![m] = [role |-> "none", house |-> None, place |-> p]]
  PROVE  /\ m \in Markers /\ m \notin Houses /\ m \notin Present /\ anchor[m] = None
         /\ \A c \in Built : m \notin Ends(c)
         /\ Present' = Present \cup {m} /\ Standing' = Standing
         /\ \A n \in Markers \ {m} : marker'[n] = marker[n]
         /\ marker'[m].role = "none" /\ marker'[m].house = None /\ marker'[m].place = p
         /\ p # None /\ PlaceOf(m)' = p /\ \A e : e # m => PlaceOf(e)' = PlaceOf(e)
         /\ marker' \in [Markers -> Rows] /\ BindingsSound'
<1> DEFINE row == [role |-> "none", house |-> None, place |-> p]
<1>1. /\ TypeOK /\ EndsExist /\ BindingsSound /\ Present \subseteq Markers /\ Standing \subseteq Houses
      /\ \A n \in Markers : anchor[n] # None => n \in Present
  BY EndFacts
<1>2. m \in Markers /\ m \notin Present /\ m \notin Houses /\ p # None
  BY IdAssumption DEF NewMarkers
<1>3. row.role = "none" /\ row.house = None /\ row.place = p /\ row # Absent /\ row \in Rows
  BY DEF Absent, Rows, Roles
<1>4. marker' = [marker EXCEPT ![m] = row] /\ marker \in [Markers -> Rows]
  BY <1>1 DEF TypeOK
<1> HIDE DEF row
<1>5. marker'[m] = row /\ (\A n \in Markers \ {m} : marker'[n] = marker[n]) /\ marker' \in [Markers -> Rows]
  BY <1>2, <1>3, <1>4
<1>6. Present' = Present \cup {m} /\ Standing' = Standing
  BY <1>2, <1>3, <1>5 DEF Present, Standing
<1>7. \A c \in Built : m \notin Ends(c)
  BY <1>1, <1>2 DEF EndsExist
<1>8. PlaceOf(m)' = p
  BY <1>1, <1>2, <1>3, <1>5, <1>6 DEF PlaceOf
<1>9. ASSUME NEW e, e # m
      PROVE  PlaceOf(e)' = PlaceOf(e)
  BY <1>1, <1>5, <1>6, <1>9 DEF PlaceOf
<1>10. BindingsSound'
  <2>1. ASSUME NEW n \in Present'
        PROVE  /\ marker'[n].role = "none" <=> marker'[n].house = None
               /\ marker'[n].house \in Standing \cup {None}
    BY <1>1, <1>3, <1>5, <1>6, <2>1 DEF BindingsSound
  <2>2. ASSUME NEW n \in Present', NEW k \in Present' \ {n},
               marker'[n].role = "represents", marker'[k].role = "represents"
        PROVE  marker'[n].house # marker'[k].house
    <3>1. n # m /\ k # m
      BY <1>3, <1>5, <2>2
    <3> QED
      BY <1>1, <1>5, <1>6, <2>2, <3>1 DEF BindingsSound
  <2> QED
    BY <1>6, <2>1, <2>2 DEF BindingsSound
<1> QED
  BY <1>1, <1>2, <1>3, <1>5, <1>6, <1>7, <1>8, <1>9, <1>10

(* A new marker is fixed to a line where the line passes.                    *)
LEMMA PlaceRouteObjectStep ==
  ASSUME MapInductive, NEW w \in Workers, PlaceRouteObject(w)
  PROVE  MapInductive'
<1>1. PICK r : r = req[w]
  OBVIOUS
<1>2. PICK c, m, p : c = r.op.connection /\ m = r.op.marker /\ p = r.op.place
  OBVIOUS
<1>3. /\ At(w, "commit") /\ r.op.kind = "place" /\ Commit(w, {c, m})
      /\ marker' = [marker EXCEPT ![m] = [role |-> "none", house |-> None, place |-> p]]
      /\ anchor' = [anchor EXCEPT ![m] = c]
      /\ UNCHANGED <<house, route, skewed>>
  BY <1>1, <1>2 DEF PlaceRouteObject, Op
<1>4. AsksWell(r) /\ StillPermits(r) /\ r.houses = HousesOf(r)
  BY <1>1, <1>3, Committing
<1>5. m \in NewMarkers /\ p \in Places /\ c \in Built /\ Inside(p, Line(c))
  BY <1>2, <1>3, <1>4 DEF AsksWell, StillPermits, RoutePermits, RouteKinds
<1>6. /\ TypeOK /\ EndsExist /\ AnchorsSound /\ RowsSound /\ ObjectsOnLine
      /\ None \notin Connections /\ None \notin Houses /\ Built \subseteq Connections
      /\ \A n \in Markers : anchor[n] # None => n \in Present /\ marker[n].role = "none"
      /\ \A d \in Connections : \A n \in Anchored(d) : n \in Present /\ marker[n].role = "none"
  BY EndFacts
<1>7. /\ m \in Markers /\ m \notin Houses /\ m \notin Present /\ anchor[m] = None
      /\ \A d \in Built : m \notin Ends(d)
      /\ Present' = Present \cup {m} /\ Standing' = Standing
      /\ \A n \in Markers \ {m} : marker'[n] = marker[n]
      /\ marker'[m].role = "none" /\ marker'[m].house = None /\ marker'[m].place = p
      /\ p # None /\ PlaceOf(m)' = p /\ (\A e : e # m => PlaceOf(e)' = PlaceOf(e))
      /\ marker' \in [Markers -> Rows] /\ BindingsSound'
  BY <1>3, <1>5, NewObject
<1>8. anchor'[m] = c /\ \A n \in Markers \ {m} : anchor'[n] = anchor[n]
  BY <1>3, <1>6, <1>7 DEF TypeOK
<1>9. Built' = Built /\ \A d : Ends(d)' = Ends(d)
  BY <1>3 DEF Built, Ends
<1>10. \A d \in Built : Line(d)' = Line(d) /\ \A e \in Ends(d) : PlaceOf(e)' = PlaceOf(e)
  BY <1>3, <1>7 DEF Line, Ends
<1>11. TypeOK'
  <2>1. {c, m} \in SUBSET (Things \cup Connections)
    BY <1>5, <1>6, <1>7 DEF Things
  <2>2. req' \in [Workers -> Requests] /\ commits' \in Nat
    BY <1>3, <2>1, CommitFrame
  <2>3. anchor' \in [Markers -> Connections \cup {None}]
    BY <1>3, <1>5, <1>6 DEF TypeOK
  <2> QED
    BY <1>3, <1>6, <1>7, <2>2, <2>3 DEF TypeOK
<1>12. EndsExist'
  BY <1>3, <1>6, <1>7, <1>9 DEF EndsExist, Present
<1>13. AnchorsSound' /\ RowsSound'
  BY <1>3, <1>5, <1>6, <1>7, <1>8, <1>9 DEF AnchorsSound, RowsSound, Present
<1>14. ObjectsOnLine'
  <2> SUFFICES ASSUME NEW n \in Markers, NEW d \in Built \ skewed, anchor'[n] = d
               PROVE  Within(marker'[n].place, Line(d)')
    BY <1>3, <1>9 DEF ObjectsOnLine
  <2>1. CASE n = m
    BY <1>5, <1>7, <1>8, <1>10, <2>1 DEF Inside
  <2>2. CASE n # m
    BY <1>6, <1>7, <1>8, <1>10, <2>2 DEF ObjectsOnLine
  <2> QED
    BY <2>1, <2>2
<1>15. ASSUME NEW h \in Standing \ r.houses
       PROVE  LeavesHouse(h, {c, m})
  <2>1. h \notin Ends(c) /\ h \in Houses
    BY <1>2, <1>3, <1>4, <1>15 DEF HousesOf, RouteKinds, Standing
  <2>2. \A d \in EndingAt(h)' : d \in EndingAt(h) /\ d # c /\ d \in Built /\ d \in Connections
    BY <1>6, <1>9, <2>1 DEF EndingAt
  <2>3. ASSUME NEW d \in EndingAt(h)', NEW n \in Anchored(d)'
        PROVE  n \in Anchored(d) /\ marker'[n].place = marker[n].place
    <3>1. n \in Present' /\ anchor'[n] = d /\ d # c /\ d # None
      BY <1>6, <2>2, <2>3 DEF Anchored
    <3>2. n # m /\ n \in Present /\ n \in Markers
      BY <1>7, <1>8, <3>1 DEF Present
    <3> QED
      BY <1>7, <1>8, <3>1, <3>2 DEF Anchored
  <2>4. \A n \in Present' : marker'[n].house = h => n \in Present /\ marker[n].house = h
    BY <1>6, <1>7, <2>1 DEF Present
  <2> QED
    BY <1>3, <1>7, <1>10, <1>15, <2>2, <2>3, <2>4 DEF LeavesHouse
<1> QED
  <2>1. {c, m} \in SUBSET (Things \cup Connections)
    BY <1>5, <1>6, <1>7 DEF Things
  <2> QED
    BY <1>1, <1>3, <1>7, <1>11, <1>12, <1>13, <1>14, <1>15, <2>1, MapCommit
       DEF GraphSound, OnMap, HouseKinds, Op

(* What is not before the new point of a line is behind it.                  *)
LEMMA BehindPoint ==
  ASSUME NEW x \in Places, NEW p \in Places, NEW a \in Places \cup {None}, NEW b \in Places \cup {None},
         Inside(p, <<a, b>>), Within(x, <<a, b>>), ~Within(x, <<a, p>>)
  PROVE  Within(x, <<p, b>>)
<1>1. a \in Places /\ b \in Places /\ a # b /\ p # a /\ p # b
  BY DEF Inside, Within
<1>2. None \notin Places /\ Places \subseteq Int
  BY IdAssumption, PlaceAssumption
<1>3. x \in Int /\ p \in Int /\ a \in Int /\ b \in Int
  BY <1>1, <1>2
<1>4. (a <= p /\ p <= b) \/ (b <= p /\ p <= a)
  BY DEF Inside, Within
<1>5. (a <= x /\ x <= b) \/ (b <= x /\ x <= a)
  BY DEF Within
<1>6. ~((a <= x /\ x <= p) \/ (p <= x /\ x <= a))
  BY <1>1, <1>2 DEF Within
<1>7. (p <= x /\ x <= b) \/ (b <= x /\ x <= p)
  BY <1>1, <1>3, <1>4, <1>5, <1>6
<1> QED
  BY <1>1, <1>2, <1>7 DEF Within

(* A line is cut in two at a new marker: what was fixed to it is fixed to    *)
(* one of its halves.                                                        *)
LEMMA SplitConnectionStep ==
  ASSUME MapInductive, NEW w \in Workers, SplitConnection(w)
  PROVE  MapInductive'
<1>1. PICK r : r = req[w]
  OBVIOUS
<1>2. PICK c, m, p, t : c = r.op.connection /\ m = r.op.marker /\ p = r.op.place /\ t = r.op.tail
  OBVIOUS
<1>3. /\ At(w, "commit") /\ r.op.kind = "split" /\ Commit(w, {c, t, m})
      /\ marker' = [marker EXCEPT ![m] = [role |-> "none", house |-> None, place |-> p]]
      /\ route' = [route EXCEPT ![c].to = m, ![t] = [from |-> m, to |-> route[c].to]]
      /\ anchor' = [n \in Markers |-> IF n \in Beyond(c, p) THEN t ELSE anchor[n]]
      /\ UNCHANGED <<house, skewed>>
  BY <1>1, <1>2 DEF SplitConnection, Op
<1>4. AsksWell(r) /\ StillPermits(r) /\ r.houses = HousesOf(r)
  BY <1>1, <1>3, Committing
<1>5. /\ m \in NewMarkers /\ p \in Places /\ c \in Built /\ t \in NewConnections /\ Inside(p, Line(c))
      /\ \A n \in Anchored(c) : Within(marker[n].place, Line(c))
  BY <1>2, <1>3, <1>4 DEF AsksWell, StillPermits, RoutePermits, RouteKinds
<1>6. /\ TypeOK /\ EndsExist /\ AnchorsSound /\ RowsSound /\ ObjectsOnLine
      /\ None \notin Connections /\ None \notin Houses /\ Built \subseteq Connections
      /\ \A n \in Markers : anchor[n] # None =>
           n \in Present /\ marker[n].role = "none" /\ anchor[n] \in Built
      /\ \A d \in Connections : \A n \in Anchored(d) : n \in Present /\ marker[n].role = "none"
  BY EndFacts
<1>7. /\ m \in Markers /\ m \notin Houses /\ m \notin Present /\ anchor[m] = None
      /\ \A d \in Built : m \notin Ends(d)
      /\ Present' = Present \cup {m} /\ Standing' = Standing
      /\ \A n \in Markers \ {m} : marker'[n] = marker[n]
      /\ marker'[m].role = "none" /\ marker'[m].house = None /\ marker'[m].place = p
      /\ p # None /\ PlaceOf(m)' = p /\ (\A e : e # m => PlaceOf(e)' = PlaceOf(e))
      /\ marker' \in [Markers -> Rows] /\ BindingsSound'
  BY <1>3, <1>5, NewObject
<1>8. t \in Connections /\ t \notin Built /\ t # c /\ c \in Connections /\ t # None
  BY <1>5, <1>6 DEF NewConnections
<1>9. /\ route[c].from # route[c].to /\ route[c].from # m /\ route[c].to # m
      /\ m # None
  BY <1>5, <1>6, <1>7, IdAssumption DEF EndsExist, Ends
<1>10. /\ route'[c].from = route[c].from /\ route'[c].to = m
       /\ route'[t].from = m /\ route'[t].to = route[c].to
       /\ \A d \in Connections \ {c, t} : route'[d] = route[d]
       /\ route' \in [Connections -> [from : Things \cup {None}, to : Things \cup {None}]]
  <2>1. route \in [Connections -> [from : Things \cup {None}, to : Things \cup {None}]] /\ m \in Things
    BY <1>6, <1>7 DEF TypeOK, Things
  <2> DEFINE first == [route[c] EXCEPT !.to = m]
             tail == [from |-> m, to |-> route[c].to]
  <2>2. /\ first.from = route[c].from /\ first.to = m /\ tail.from = m /\ tail.to = route[c].to
        /\ first \in [from : Things \cup {None}, to : Things \cup {None}]
        /\ tail \in [from : Things \cup {None}, to : Things \cup {None}]
    BY <1>8, <2>1
  <2>3. route' = [route EXCEPT ![c] = first, ![t] = tail]
    BY <1>3
  <2> HIDE DEF first, tail
  <2> QED
    BY <1>8, <2>1, <2>2, <2>3
<1>11. Built' = Built \cup {t}
  <2>1. route'[c] # Unbuilt /\ route'[t] # Unbuilt
    BY <1>9, <1>10 DEF Unbuilt
  <2> QED
    BY <1>5, <1>8, <1>10, <2>1 DEF Built
<1>12. /\ Ends(c)' = {route[c].from, m} /\ Ends(t)' = {m, route[c].to}
       /\ \A d \in Connections \ {c, t} : Ends(d)' = Ends(d)
  BY <1>10 DEF Ends
<1>13. PICK a \in Places \cup {None}, b \in Places \cup {None} : Line(c) = <<a, b>>
  BY <1>6, PlaceCases DEF Line
<1>14. /\ Line(c)' = <<a, p>> /\ Line(t)' = <<p, b>>
       /\ \A d \in Built \ {c} : Line(d)' = Line(d)
  <2>1. PlaceOf(route[c].from) = a /\ PlaceOf(route[c].to) = b
    BY <1>13 DEF Line
  <2>2. \A e : e # m => PlaceOf(e)' = PlaceOf(e)
    BY <1>7
  <2>3. Line(c)' = <<a, p>>
    BY <1>7, <1>9, <1>10, <2>1, <2>2 DEF Line
  <2>4. Line(t)' = <<p, b>>
    BY <1>7, <1>9, <1>10, <2>1, <2>2 DEF Line
  <2>5. ASSUME NEW d \in Built \ {c}
        PROVE  Line(d)' = Line(d)
    <3>1. route'[d] = route[d]
      BY <1>6, <1>8, <1>10
    <3>2. route[d].from # m /\ route[d].to # m
      BY <1>7 DEF Ends
    <3> QED
      BY <2>2, <3>1, <3>2 DEF Line
  <2> QED
    BY <2>3, <2>4, <2>5
<1>15. /\ Beyond(c, p) \subseteq Anchored(c) /\ m \notin Anchored(c)
       /\ anchor'[m] = None
       /\ \A n \in Anchored(c) : n \in Markers /\ anchor[n] = c /\ marker[n].place \in Places
  <2>1. Beyond(c, p) \subseteq Anchored(c) /\ m \notin Anchored(c)
    BY <1>7 DEF Beyond, Anchored
  <2>2. ASSUME NEW n \in Anchored(c)
        PROVE  n \in Markers /\ anchor[n] = c /\ marker[n].place \in Places
    <3>1. n \in Markers /\ anchor[n] = c
      BY DEF Anchored, Present
    <3> QED
      BY <1>6, <1>8, <3>1 DEF RowsSound, TypeOK, Rows
  <2> QED
    BY <1>3, <1>7, <2>1, <2>2
<1>16. TypeOK'
  <2>1. {c, t, m} \in SUBSET (Things \cup Connections)
    BY <1>7, <1>8 DEF Things
  <2>2. req' \in [Workers -> Requests] /\ commits' \in Nat
    BY <1>3, <2>1, CommitFrame
  <2>3. anchor' \in [Markers -> Connections \cup {None}]
    BY <1>3, <1>6, <1>8 DEF TypeOK
  <2> QED
    BY <1>3, <1>6, <1>7, <1>10, <2>2, <2>3 DEF TypeOK
<1>17. EndsExist'
  <2> SUFFICES ASSUME NEW d \in Built'
               PROVE  /\ route'[d].from # route'[d].to
                      /\ \A e \in Ends(d)' : e \in Standing' \/ (e \in Present' /\ marker'[e].role # "represents")
    BY DEF EndsExist
  <2>1. ASSUME NEW e, NEW f \in Built, e \in Ends(f)
        PROVE  e \in Standing' \/ (e \in Present' /\ marker'[e].role # "represents")
    BY <1>6, <1>7, <2>1 DEF EndsExist, Present
  <2>2. m \in Present' /\ marker'[m].role # "represents"
    BY <1>7
  <2>3. route[c].from \in Ends(c) /\ route[c].to \in Ends(c)
    BY DEF Ends
  <2>4. CASE d \in {c, t}
    BY <1>5, <1>9, <1>10, <1>12, <2>1, <2>2, <2>3, <2>4
  <2>5. CASE d \notin {c, t}
    <3>1. d \in Built /\ d \in Connections \ {c, t}
      BY <1>6, <1>11, <2>5
    <3> QED
      BY <1>6, <1>10, <1>12, <2>1, <3>1 DEF EndsExist
  <2> QED
    BY <2>4, <2>5
<1>18. AnchorsSound' /\ RowsSound'
  <2>1. ASSUME NEW n \in Markers, anchor'[n] # None
        PROVE  marker'[n].role = "none" /\ anchor'[n] \in Built' /\ marker'[n].place # None
    <3>1. n # m /\ anchor[n] # None
      <4>1. n \in Beyond(c, p) => anchor[n] # None
        BY <1>6, <1>8, <1>15
      <4> QED
        BY <1>3, <1>15, <2>1, <4>1
    <3>2. anchor'[n] \in Built'
      BY <1>3, <1>6, <1>11, <3>1
    <3> QED
      BY <1>6, <1>7, <3>1, <3>2 DEF RowsSound
  <2>2. \A n \in Present' : marker'[n].role # "absent"
    BY <1>6, <1>7 DEF RowsSound, Present
  <2>3. skewed' \subseteq Built'
    BY <1>3, <1>6, <1>11 DEF RowsSound
  <2> QED
    BY <2>1, <2>2, <2>3 DEF AnchorsSound, RowsSound
<1>19. ObjectsOnLine'
  <2> SUFFICES ASSUME NEW n \in Markers, NEW d \in Built' \ skewed', anchor'[n] = d
               PROVE  Within(marker'[n].place, Line(d)')
    BY DEF ObjectsOnLine
  <2>1. n # m /\ d # None /\ marker'[n].place = marker[n].place
    BY <1>6, <1>7, <1>8, <1>11, <1>15
  <2>2. CASE n \in Beyond(c, p)
    <3>1. d = t /\ n \in Anchored(c) /\ ~Within(marker[n].place, <<a, p>>)
      BY <1>3, <1>13, <1>15, <2>2 DEF Beyond
    <3>2. Within(marker[n].place, <<p, b>>)
      BY <1>5, <1>13, <1>15, <3>1, BehindPoint
    <3> QED
      BY <1>14, <2>1, <3>1, <3>2
  <2>3. CASE n \notin Beyond(c, p) /\ d = c
    <3>1. n \in Anchored(c)
      BY <1>3, <1>6, <1>8, <2>1, <2>3 DEF Anchored
    <3>2. Within(marker[n].place, <<a, p>>)
      BY <1>13, <2>3, <3>1 DEF Beyond
    <3> QED
      BY <1>14, <2>1, <2>3, <3>2
  <2>4. CASE n \notin Beyond(c, p) /\ d # c
    <3>1. anchor[n] = d /\ d \in Built \ skewed /\ d # c
      BY <1>3, <1>6, <2>1, <2>4
    <3> QED
      BY <1>6, <1>14, <2>1, <3>1 DEF ObjectsOnLine
  <2> QED
    BY <2>2, <2>3, <2>4
<1>20. ASSUME NEW h \in Standing \ r.houses
       PROVE  LeavesHouse(h, {c, t, m})
  <2>1. h \notin Ends(c) /\ h \in Houses /\ h # m
    BY <1>2, <1>3, <1>4, <1>7, <1>20 DEF HousesOf, RouteKinds, Standing
  <2>2. \A d \in EndingAt(h)' : d \in EndingAt(h) /\ d \notin {c, t} /\ d \in Built /\ d \in Connections
    BY <1>6, <1>11, <1>12, <2>1 DEF EndingAt, Ends
  <2>3. ASSUME NEW d \in EndingAt(h)', NEW n \in Anchored(d)'
        PROVE  n \in Anchored(d) /\ marker'[n].place = marker[n].place
    <3>1. n \in Present' /\ anchor'[n] = d /\ d \notin {c, t} /\ d # None
      BY <1>6, <2>2, <2>3 DEF Anchored
    <3>2. n # m /\ n \in Present /\ n \in Markers /\ anchor[n] = d
      BY <1>3, <1>7, <1>15, <3>1 DEF Present
    <3> QED
      BY <1>7, <3>2 DEF Anchored
  <2>4. \A n \in Present' : marker'[n].house = h => n \in Present /\ marker[n].house = h
    BY <1>6, <1>7, <2>1 DEF Present
  <2>5. \A d \in EndingAt(h)' : route'[d] = route[d] /\ \A e \in Ends(d) : PlaceOf(e)' = PlaceOf(e)
    BY <1>7, <1>10, <2>2
  <2> QED
    BY <1>7, <1>20, <2>2, <2>3, <2>4, <2>5 DEF LeavesHouse
<1> QED
  <2>1. {c, t, m} \in SUBSET (Things \cup Connections)
    BY <1>7, <1>8 DEF Things
  <2> QED
    BY <1>1, <1>3, <1>7, <1>16, <1>17, <1>18, <1>19, <1>20, <2>1, MapCommit
       DEF GraphSound, OnMap, HouseKinds, Op

(* An end moves only where the guard let it: objects stay on their lines,    *)
(* except on a line whose other end moved after the guard had looked.        *)
LEMMA MovedOnLine ==
  ASSUME MapInductive, NEW r, StillGuarded(r),
         UNCHANGED <<route, anchor>>, skewed' = skewed \cup Skews(r), Built' = Built,
         \A m \in Markers : anchor[m] # None => marker'[m].place = marker[m].place,
         \A c \in Built : \A e \in Ends(c) :
           PlaceOf(e)' = IF e \in Moved(r) THEN r.op.place ELSE PlaceOf(e)
  PROVE  ObjectsOnLine'
<1>1. /\ EndsExist /\ AnchorsSound /\ ObjectsOnLine /\ None \notin Connections /\ Built \subseteq Connections
      /\ \A m \in Markers : anchor[m] # None => m \in Present
  BY EndFacts
<1> SUFFICES ASSUME NEW m \in Markers, NEW c \in Built \ skewed', anchor[m] = c
             PROVE  Within(marker'[m].place, Line(c)')
  BY DEF ObjectsOnLine
<1>2. c \in Built \ skewed /\ c # None /\ m \in Anchored(c) /\ marker'[m].place = marker[m].place
  BY <1>1 DEF Anchored
<1>3. Line(c)' = <<PlaceOf(route[c].from)', PlaceOf(route[c].to)'>>
  <2>1. route' = route
    OBVIOUS
  <2> QED
    BY <2>1 DEF Line
<1>4. route[c].from \in Ends(c) /\ route[c].to \in Ends(c) /\ route[c].from # route[c].to
  BY <1>1 DEF Ends, EndsExist
<1>5. Moved(r) = {} \/ \E e : Moved(r) = {e}
  BY DEF Moved
<1>6. CASE Moved(r) \cap Ends(c) = {}
  <2>1. Line(c)' = Line(c)
    BY <1>3, <1>4, <1>6 DEF Line
  <2> QED
    BY <1>1, <1>2, <2>1 DEF ObjectsOnLine
<1>7. CASE Moved(r) \cap Ends(c) # {}
  <2>1. PICK e \in Ends(c) : Moved(r) = {e}
    BY <1>5, <1>7
  <2>2. Line(c)' = LineWith(c, e, r.op.place)
    BY <1>3, <1>4, <2>1 DEF LineWith
  <2>3. (Ends(c) \ {e}) \cap r.late = {}
    BY <1>2, <2>1 DEF Skews
  <2>4. \A k \in Anchored(c) : Within(marker[k].place, LineWith(c, e, r.op.place))
    BY <2>1, <2>3 DEF StillGuarded, EndingAt
  <2> QED
    BY <1>2, <2>2, <2>4
<1> QED
  BY <1>6, <1>7

(* A building is moved, without the map of its company.                      *)
LEMMA UpdateBuildingStep ==
  ASSUME MapInductive, NEW w \in Workers, UpdateBuilding(w)
  PROVE  MapInductive'
<1>1. PICK r : r = req[w]
  OBVIOUS
<1>2. PICK h, p : h = r.op.house /\ p = r.op.place
  OBVIOUS
<1>3. /\ At(w, "commit") /\ r.op.kind = "move" /\ Commit(w, {h})
      /\ house' = [house EXCEPT ![h] = p]
      /\ skewed' = skewed \cup Skews(r)
      /\ UNCHANGED <<marker, route, anchor>>
  BY <1>1, <1>2 DEF UpdateBuilding, Op
<1>4. AsksWell(r) /\ StillPermits(r) /\ NeedsHouse(r) \subseteq Standing /\ r \in Requests
  BY <1>1, <1>3, Committing
<1>5. h \in Standing /\ h \in Houses /\ p \in Places \cup {None} /\ StillGuarded(r)
  <2>1. NeedsHouse(r) = {h}
    BY <1>2, <1>3 DEF NeedsHouse, SaveKinds, OnMap, HouseKinds
  <2>2. r.op \in Asked
    BY <1>4 DEF Requests
  <2> QED
    BY <1>2, <1>4, <2>1, <2>2 DEF Standing, StillPermits, Asked
<1>6. /\ TypeOK /\ EndsExist /\ BindingsSound /\ AnchorsSound /\ RowsSound /\ Built \subseteq Connections
      /\ Present \subseteq Markers
  BY EndFacts
<1>7. p # Gone
  BY <1>5, IdAssumption
<1>8. /\ \A g \in Houses \ {h} : house'[g] = house[g]
      /\ house'[h] = p /\ house' \in [Houses -> Places \cup {None, Gone}]
  BY <1>3, <1>5, <1>6 DEF TypeOK
<1>9. Standing' = Standing /\ Present' = Present /\ Built' = Built /\ \A c : Ends(c)' = Ends(c)
  BY <1>3, <1>5, <1>7, <1>8 DEF Standing, Present, Built, Ends
<1>10. Moved(r) = {h}
  BY <1>2, <1>3, MovedCases
<1>11. \A c \in Built : \A e \in Ends(c) :
         PlaceOf(e)' = IF e \in Moved(r) THEN r.op.place ELSE PlaceOf(e)
  <2>1. ASSUME NEW c \in Built, NEW e \in Ends(c)
        PROVE  e \in Standing \/ (e \in Present /\ e \notin Standing /\ marker[e].role # "represents")
    BY <1>6, IdAssumption DEF EndsExist, Standing
  <2>2. \A e \in Standing : PlaceOf(e)' = house'[e] /\ PlaceOf(e) = house[e]
    <3>1. \A e \in Standing : e \notin Present
      BY <1>6, IdAssumption DEF Standing
    <3> QED
      BY <1>9, <3>1 DEF PlaceOf
  <2>3. \A e \in Present : e \notin Standing /\ marker[e].role # "represents" => PlaceOf(e)' = PlaceOf(e)
    BY <1>3, <1>9 DEF PlaceOf
  <2> QED
    BY <1>2, <1>5, <1>8, <1>10, <2>1, <2>2, <2>3 DEF Standing
<1>12. ObjectsOnLine'
  BY <1>3, <1>5, <1>9, <1>11, MovedOnLine
<1>13. {h} \in SUBSET (Things \cup Connections)
  BY <1>5 DEF Things
<1>14. TypeOK'
  <2>1. req' \in [Workers -> Requests] /\ commits' \in Nat
    BY <1>3, <1>13, CommitFrame
  <2>2. skewed' \subseteq Connections
    BY <1>3, <1>6 DEF TypeOK, Skews
  <2> QED
    BY <1>3, <1>6, <1>8, <2>1, <2>2 DEF TypeOK
<1>15. EndsExist' /\ BindingsSound' /\ AnchorsSound' /\ RowsSound'
  BY <1>3, <1>6, <1>9 DEF EndsExist, BindingsSound, AnchorsSound, RowsSound, Skews
<1>16. ChangesHouse(h, req[w].rows, {h})
  BY <1>3, <1>5, <1>8, <1>9 DEF ChangesHouse, Standing
<1>17. ~OnMap(Op(w)) /\ h = Op(w).house
  BY <1>1, <1>2, <1>3 DEF OnMap, HouseKinds, Op
<1> QED
  BY <1>3, <1>12, <1>13, <1>14, <1>15, <1>16, <1>17, HouseCommit DEF GraphSound

(* A building goes: it ends no line, and its markers are let go.             *)
LEMMA DeleteBuildingStep ==
  ASSUME MapInductive, NEW w \in Workers, DeleteBuilding(w)
  PROVE  MapInductive'
<1>1. PICK r : r = req[w]
  OBVIOUS
<1>2. PICK h : h = r.op.house
  OBVIOUS
<1>3. PICK bound : bound = {m \in Present : marker[m].house = h}
  OBVIOUS
<1>4. /\ At(w, "commit") /\ r.op.kind = "demolish" /\ Commit(w, {h} \cup bound)
      /\ marker' = [m \in Markers |->
           IF m \in bound THEN [role |-> "none", house |-> None, place |-> PointKept(m)] ELSE marker[m]]
      /\ house' = [house EXCEPT ![h] = Gone]
      /\ UNCHANGED <<route, anchor, skewed>>
  BY <1>1, <1>2, <1>3 DEF DeleteBuilding, Op
<1>5. AsksWell(r) /\ StillPermits(r) /\ Holds(r) /\ r.pc = "commit" /\ NeedsHouse(r) \subseteq Standing
  BY <1>1, <1>4, Committing
<1>6. h \in Standing /\ h \in Houses /\ EndingAt(h) = {} /\ bound \subseteq r.rows
  <2>1. NeedsHouse(r) = {h}
    BY <1>2, <1>4 DEF NeedsHouse, SaveKinds, OnMap, HouseKinds
  <2> QED
    BY <1>2, <1>3, <1>4, <1>5, <2>1 DEF Standing, StillPermits, Holds
<1>7. /\ TypeOK /\ EndsExist /\ BindingsSound /\ AnchorsSound /\ RowsSound /\ ObjectsOnLine
      /\ Built \subseteq Connections /\ Present \subseteq Markers /\ Standing \subseteq Houses
      /\ None \notin Houses
      /\ \A m \in Markers : anchor[m] # None => m \in Present /\ marker[m].role = "none"
  BY EndFacts
<1>8. /\ \A g \in Houses \ {h} : house'[g] = house[g]
      /\ house'[h] = Gone /\ house' \in [Houses -> Places \cup {None, Gone}]
  BY <1>4, <1>6, <1>7 DEF TypeOK
<1>9. Standing' = Standing \ {h}
  BY <1>6, <1>8 DEF Standing
<1>10. ASSUME NEW m \in bound
       PROVE  /\ m \in Markers /\ m \in Present /\ marker[m].house = h
              /\ marker[m].role \in {"reference", "represents"} /\ anchor[m] = None
              /\ marker'[m].role = "none" /\ marker'[m].house = None /\ marker'[m].place = PlaceOf(m)
              /\ marker'[m] \in Rows /\ marker'[m] # Absent
  <2>1. m \in Markers /\ m \in Present /\ marker[m].house = h /\ marker[m] \in Rows
    BY <1>3, <1>7 DEF TypeOK
  <2>2. marker[m].role \in {"reference", "represents"}
    BY <1>6, <1>7, <2>1 DEF BindingsSound, RowsSound, Rows, Roles
  <2>3. PlaceOf(m) \in Places \cup {None}
    BY <1>7, PlaceCases
  <2>4. marker'[m] = [role |-> "none", house |-> None, place |-> PlaceOf(m)]
    BY <1>4, <1>10, <2>1 DEF PointKept
  <2>5. marker'[m].role = "none" /\ marker'[m].house = None /\ marker'[m].place = PlaceOf(m)
        /\ marker'[m] \in Rows /\ marker'[m] # Absent
    BY <2>3, <2>4 DEF Rows, Roles, Absent
  <2> QED
    BY <1>7, <2>1, <2>2, <2>5
<1>11. \A m \in Markers \ bound : marker'[m] = marker[m]
  BY <1>4
<1>12. Present' = Present /\ Built' = Built /\ \A c : Ends(c)' = Ends(c)
  BY <1>4, <1>7, <1>10, <1>11 DEF Present, Built, Ends
<1>13. {h} \cup bound \in SUBSET (Things \cup Connections)
  BY <1>6, <1>10 DEF Things
<1>14. ChangesHouse(h, r.rows, {h} \cup bound)
  <2>1. ASSUME NEW m \in Markers
        PROVE  \/ marker'[m] = marker[m]
               \/ /\ marker[m].house = h /\ h \notin Standing' /\ m \in ({h} \cup bound) \cap r.rows
                  /\ marker'[m].role = "none" /\ marker'[m].house = None
                  /\ marker[m].role # "represents" => marker'[m].place = marker[m].place
    <3>1. CASE m \in bound
      <4>1. marker[m].role # "represents" => PlaceOf(m) = marker[m].place
        BY <1>7, <1>10, <3>1, PlaceCases
      <4> QED
        BY <1>6, <1>9, <1>10, <3>1, <4>1
    <3> QED
      BY <1>11, <3>1
  <2> QED
    BY <1>4, <1>6, <1>7, <1>8, <1>9, <1>12, <2>1 DEF ChangesHouse
<1>15. TypeOK'
  <2>1. req' \in [Workers -> Requests] /\ commits' \in Nat
    BY <1>4, <1>13, CommitFrame
  <2>2. marker' \in [Markers -> Rows]
    <3>1. \A m \in Markers : marker'[m] \in Rows
      BY <1>7, <1>10, <1>11 DEF TypeOK
    <3> QED
      BY <1>4, <3>1
  <2> QED
    BY <1>4, <1>7, <1>8, <2>1, <2>2 DEF TypeOK
<1>16. EndsExist'
  <2> SUFFICES ASSUME NEW c \in Built
               PROVE  /\ route[c].from # route[c].to
                      /\ \A e \in Ends(c) : e \in Standing' \/ (e \in Present' /\ marker'[e].role # "represents")
    BY <1>4, <1>12 DEF EndsExist
  <2>1. h \notin Ends(c)
    BY <1>6 DEF EndingAt
  <2> QED
    BY <1>7, <1>9, <1>10, <1>11, <1>12, <2>1 DEF EndsExist
<1>17. BindingsSound'
  <2>1. ASSUME NEW m \in Present
        PROVE  /\ marker'[m].role = "none" <=> marker'[m].house = None
               /\ marker'[m].house \in Standing' \cup {None}
    <3>1. CASE m \in bound
      BY <1>10, <3>1
    <3>2. CASE m \notin bound
      <4>1. marker[m].house # h /\ marker'[m] = marker[m]
        BY <1>3, <1>7, <1>11, <3>2
      <4> QED
        BY <1>7, <1>9, <4>1 DEF BindingsSound
    <3> QED
      BY <3>1, <3>2
  <2>2. ASSUME NEW m \in Present, NEW n \in Present \ {m},
               marker'[m].role = "represents", marker'[n].role = "represents"
        PROVE  marker'[m].house # marker'[n].house
    <3>1. m \notin bound /\ n \notin bound
      BY <1>10, <2>2
    <3> QED
      BY <1>7, <1>11, <2>2, <3>1 DEF BindingsSound
  <2> QED
    BY <1>12, <2>1, <2>2 DEF BindingsSound
<1>18. AnchorsSound' /\ RowsSound'
  <2>1. \A m \in Markers : anchor[m] # None => m \notin bound
    BY <1>10
  <2>2. AnchorsSound'
    BY <1>4, <1>7, <1>11, <1>12, <2>1 DEF AnchorsSound
  <2>3. \A m \in Present' : marker'[m].role # "absent"
    BY <1>7, <1>10, <1>11, <1>12 DEF RowsSound
  <2> QED
    BY <1>4, <1>7, <1>11, <1>12, <2>1, <2>2, <2>3 DEF RowsSound
<1>19. ObjectsOnLine'
  <2> SUFFICES ASSUME NEW m \in Markers, NEW c \in Built \ skewed, anchor[m] = c
               PROVE  Within(marker'[m].place, Line(c)')
    BY <1>4, <1>12 DEF ObjectsOnLine
  <2>1. h \notin Ends(c)
    BY <1>6 DEF EndingAt
  <2>2. \A e \in Ends(c) : PlaceOf(e)' = PlaceOf(e)
    BY <1>6, <1>14, <2>1, EndsKept
  <2>3. Line(c)' = Line(c)
    BY <1>4, <2>2 DEF Line, Ends
  <2>4. c # None
    BY <1>7, IdAssumption
  <2>5. marker'[m] = marker[m]
    BY <1>10, <1>11, <2>4
  <2> QED
    BY <1>7, <2>3, <2>5 DEF ObjectsOnLine
<1>20. ~OnMap(Op(w)) /\ h = Op(w).house /\ r.rows = req[w].rows
  BY <1>1, <1>2, <1>4 DEF OnMap, HouseKinds, Op
<1> QED
  BY <1>4, <1>13, <1>14, <1>15, <1>16, <1>17, <1>18, <1>19, <1>20, HouseCommit DEF GraphSound

(* The row a save writes.                                                    *)
LEMMA SavedRow ==
  ASSUME MapInductive, NEW w \in Workers, At(w, "commit"), NEW r, r = req[w], r.op.kind \in SaveKinds,
         NEW m, m = r.op.marker, NEW h, h = HouseAfter(r), NEW role, role = RoleAfter(r)
  PROVE  /\ m \in Markers /\ role \in Roles
         /\ role = "none" <=> h = None
         /\ h # None => h \in Standing /\ h \in r.houses
         /\ PointAfter(r) \in Places \cup {None}
         /\ role = "represents" => EndingAt(m) = {}
         /\ anchor[m] # None => role = "none" /\ PointAfter(r) = marker[m].place
         /\ \A c \in Built : m \in Ends(c) =>
              /\ m \in Present /\ role # "represents" /\ marker[m].role # "represents" /\ m \notin Standing
              /\ PointAfter(r) = IF m \in Moved(r) THEN r.op.place ELSE marker[m].place
         /\ MovesHouse(r) => r.op.house = h /\ role = "represents" /\ r.op.place \in Places
<1>1. /\ r \in Requests /\ AsksWell(r) /\ Remembers(r) /\ StillPermits(r)
      /\ r.houses \subseteq Standing /\ NeedsHouse(r) \subseteq r.houses
  BY Committing
<1>2. /\ TypeOK /\ EndsExist /\ BindingsSound /\ RowsSound
      /\ Present \subseteq Markers /\ Standing \subseteq Houses
      /\ None \notin Houses /\ None \notin Markers
      /\ \A n \in Markers : anchor[n] # None => n \in Present /\ marker[n].role = "none"
  BY EndFacts
<1>3. r.op \in Asked /\ r.was \in Rows /\ r.op.place \in Places \cup {None}
  BY <1>1 DEF Requests, Asked
<1>4. /\ r.op.kind = "create" =>
           /\ m \in NewMarkers
           /\ \/ r.op.role = "none" /\ r.op.house = None
              \/ r.op.role \in {"reference", "represents"} /\ r.op.house \in Houses
      /\ r.op.kind = "update" => m \in Present /\ (r.op.house = None <=> r.op.role \in {"none", "keep"})
      /\ r.op.role \in Roles \cup {"keep"}
  <2>1. r.op.role \in Roles \cup {"keep"}
    BY <1>3 DEF Asked
  <2> QED
    BY <1>1, <2>1 DEF AsksWell
<1>5. r.op.kind \in {"create", "update"} /\ m \in Markers
  BY <1>2, <1>4 DEF SaveKinds, NewMarkers
<1>6. h # None => h \in Standing /\ h \in r.houses
  BY <1>1 DEF NeedsHouse, OnMap, HouseKinds, SaveKinds
<1>7. r.op.kind = "update" =>
        LET now == marker[m]
        IN  \/ r.was = now
            \/ /\ r.was.role \in {"reference", "represents"} /\ r.was.house \in Houses \ Standing
               /\ now.role = "none" /\ now.house = None
               /\ r.was.role = "reference" => now.place = r.was.place
               /\ r.was.role = "represents" => EndingAt(m) = {}
               /\ anchor[m] = None
  BY <1>1 DEF Remembers
<1>8. r.op.role = "keep" => r.op.kind = "update" /\ r.was = marker[m] /\ m \in Present
  <2> SUFFICES ASSUME r.op.role = "keep" PROVE r.op.kind = "update" /\ r.was = marker[m] /\ m \in Present
    OBVIOUS
  <2>1. r.op.kind = "update" /\ m \in Present /\ h = r.was.house
    BY <1>4, <1>5 DEF HouseAfter
  <2> QED
    BY <1>2, <1>6, <1>7, <2>1
<1>9. role \in Roles /\ (role = "none" <=> h = None)
  <2>1. CASE r.op.role = "keep"
    <3>1. role = marker[m].role /\ h = marker[m].house /\ m \in Present
      BY <1>8, <2>1 DEF RoleAfter, HouseAfter
    <3>2. marker[m].role \in Roles
      BY <1>2, <3>1 DEF TypeOK, Rows, RowsSound
    <3> QED
      BY <1>2, <3>1, <3>2 DEF BindingsSound
  <2>2. CASE r.op.role # "keep"
    <3>1. role = r.op.role /\ h = r.op.house
      BY <2>2 DEF RoleAfter, HouseAfter
    <3> QED
      BY <1>2, <1>4, <1>5, <2>2, <3>1 DEF Roles
  <2> QED
    BY <2>1, <2>2
<1>10. PointAfter(r) \in Places \cup {None}
  <2>1. \A g \in Standing : house[g] \in Places \cup {None}
    BY <1>2 DEF TypeOK, Standing
  <2>2. r.was.place \in Places \cup {None}
    BY <1>3 DEF Rows
  <2> QED
    BY <1>1, <1>3, <2>1, <2>2 DEF PointAfter
<1>11. role = "represents" => EndingAt(m) = {}
  <2>1. CASE marker[m].role = "represents"
    <3>1. m \notin Standing
      BY <1>2, <1>5, IdAssumption
    <3> QED
      BY <1>2, <2>1, <3>1 DEF EndsExist, EndingAt
  <2>2. CASE marker[m].role # "represents"
    BY <1>1, <2>2 DEF StillPermits
  <2> QED
    BY <2>1, <2>2
<1>12. ASSUME anchor[m] # None
       PROVE  role = "none" /\ PointAfter(r) = marker[m].place
  <2>1. m \in Present /\ marker[m].role = "none" /\ r.op.kind = "update"
    BY <1>2, <1>4, <1>5, <1>12 DEF NewMarkers
  <2>2. r.was = marker[m]
    BY <1>7, <1>12, <2>1
  <2>3. r.op.role \in {"keep", "none"} /\ (GivesPoint(r.op) => r.op.place = marker[m].place)
    BY <1>1, <1>12, <2>1 DEF StillPermits, ChangesFixed
  <2> QED
    BY <2>1, <2>2, <2>3 DEF RoleAfter, PointAfter
<1>13. ASSUME NEW c \in Built, m \in Ends(c)
       PROVE  /\ m \in Present /\ role # "represents" /\ marker[m].role # "represents" /\ m \notin Standing
              /\ PointAfter(r) = IF m \in Moved(r) THEN r.op.place ELSE marker[m].place
  <2>1. m \notin Standing /\ m \notin Houses
    BY <1>2, <1>5, IdAssumption
  <2>2. m \in Present /\ marker[m].role # "represents" /\ EndingAt(m) # {}
    BY <1>2, <1>13, <2>1 DEF EndsExist, EndingAt
  <2>3. role # "represents" /\ r.op.kind = "update"
    BY <1>4, <1>5, <1>11, <2>2 DEF NewMarkers
  <2>4. ~MovesHouse(r)
    BY <2>3 DEF MovesHouse, RoleAfter
  <2>5. CASE GivesPoint(r.op)
    <3>1. Moved(r) = {m}
      BY <2>3, <2>4, <2>5, MovedCases
    <3> QED
      BY <2>1, <2>2, <2>3, <2>5, <3>1 DEF PointAfter
  <2>6. CASE ~GivesPoint(r.op)
    <3>1. Moved(r) = {}
      BY <2>3, <2>4, <2>6 DEF Moved
    <3>2. PointAfter(r) = r.was.place
      BY <2>2, <2>6 DEF PointAfter
    <3>3. r.was.place = marker[m].place
      BY <1>7, <2>2, <2>3
    <3> QED
      BY <2>1, <2>2, <2>3, <3>1, <3>2, <3>3
  <2> QED
    BY <2>5, <2>6
<1>14. MovesHouse(r) => r.op.house = h /\ role = "represents" /\ r.op.place \in Places
  BY <1>3 DEF MovesHouse, HouseAfter, RoleAfter
<1> QED
  BY <1>5, <1>6, <1>9, <1>10, <1>11, <1>12, <1>13, <1>14

(* A marker is made or changed, with the house that it is bound to and the   *)
(* markers that this displaces.                                              *)
LEMMA SaveMarkerStep ==
  ASSUME MapInductive, NEW w \in Workers, SaveMarker(w)
  PROVE  MapInductive'
<1>1. PICK r : r = req[w]
  OBVIOUS
<1>2. PICK m, h, role, point : m = r.op.marker /\ h = HouseAfter(r) /\ role = RoleAfter(r) /\ point = PointAfter(r)
  OBVIOUS
<1>3. PICK displaced : displaced = Occupants(r)
  OBVIOUS
<1>4. PICK changed : changed = {m} \cup displaced \cup IF MovesHouse(r) THEN {h} ELSE {}
  OBVIOUS
<1> DEFINE saved == [role |-> role, house |-> h, place |-> IF role = "represents" THEN None ELSE point]
           ousted == [role |-> "reference", house |-> h, place |-> house[h]]
<1>5. /\ At(w, "commit") /\ r.op.kind \in SaveKinds /\ Commit(w, changed)
      /\ marker' = [n \in Markers |->
           IF n = m THEN saved ELSE IF n \in displaced THEN ousted ELSE marker[n]]
      /\ house' = IF MovesHouse(r) THEN [house EXCEPT ![h] = r.op.place] ELSE house
      /\ skewed' = skewed \cup Skews(r)
      /\ UNCHANGED <<route, anchor>>
  BY <1>1, <1>2, <1>3, <1>4 DEF SaveMarker, Op
<1>6. /\ m \in Markers /\ role \in Roles
      /\ role = "none" <=> h = None
      /\ h # None => h \in Standing /\ h \in r.houses
      /\ point \in Places \cup {None}
      /\ role = "represents" => EndingAt(m) = {}
      /\ anchor[m] # None => role = "none" /\ point = marker[m].place
      /\ \A c \in Built : m \in Ends(c) =>
           /\ m \in Present /\ role # "represents" /\ marker[m].role # "represents" /\ m \notin Standing
           /\ point = IF m \in Moved(r) THEN r.op.place ELSE marker[m].place
      /\ MovesHouse(r) => r.op.house = h /\ role = "represents" /\ r.op.place \in Places
  BY <1>1, <1>2, <1>5, SavedRow
<1>7. /\ TypeOK /\ EndsExist /\ BindingsSound /\ AnchorsSound /\ RowsSound
      /\ Present \subseteq Markers /\ Standing \subseteq Houses /\ Built \subseteq Connections
      /\ None \notin Houses /\ None \notin Markers /\ None \notin Connections
      /\ \A n \in Markers : anchor[n] # None => n \in Present /\ marker[n].role = "none"
      /\ \A c \in Connections : \A n \in Anchored(c) : n \in Present /\ marker[n].role = "none"
  BY EndFacts
<1>8. /\ displaced \subseteq Present \ {m}
      /\ \A n \in Present \ {m} :
           n \in displaced <=> role = "represents" /\ marker[n].role = "represents" /\ marker[n].house = h
  BY <1>2, <1>3 DEF Occupants
<1>9. saved.role = role /\ saved.house = h /\ saved.place = IF role = "represents" THEN None ELSE point
  OBVIOUS
<1>10. ousted.role = "reference" /\ ousted.house = h /\ ousted.place = house[h]
  OBVIOUS
<1>11. saved \in Rows /\ saved # Absent
  BY <1>6, <1>7 DEF Rows, Roles, Absent
<1>12. displaced # {} => ousted \in Rows /\ ousted # Absent /\ h \in Standing
  <2>1. displaced # {} => h \in Standing /\ house[h] \in Places \cup {None}
    BY <1>6, <1>7, <1>8 DEF TypeOK, Standing
  <2> QED
    BY <1>7, <2>1 DEF Rows, Roles, Absent
<1> HIDE DEF saved, ousted
<1>13. /\ marker'[m] = saved /\ (\A n \in displaced : marker'[n] = ousted)
       /\ \A n \in Markers \ (displaced \cup {m}) : marker'[n] = marker[n]
  BY <1>5, <1>6, <1>7, <1>8
<1>14. Present' = Present \cup {m}
  BY <1>6, <1>7, <1>8, <1>11, <1>12, <1>13 DEF Present
<1>15. /\ house' \in [Houses -> Places \cup {None, Gone}]
       /\ \A g \in Houses : house'[g] = IF MovesHouse(r) /\ g = h THEN r.op.place ELSE house[g]
       /\ Standing' = Standing
  <2>1. MovesHouse(r) => h \in Houses /\ r.op.place \in Places /\ r.op.place # Gone /\ h \in Standing
    BY <1>6, <1>7, IdAssumption DEF MovesHouse
  <2>2. /\ house' \in [Houses -> Places \cup {None, Gone}]
        /\ \A g \in Houses : house'[g] = IF MovesHouse(r) /\ g = h THEN r.op.place ELSE house[g]
    BY <1>5, <1>7, <2>1 DEF TypeOK
  <2> QED
    BY <2>1, <2>2 DEF Standing
<1>16. Built' = Built /\ \A c : Ends(c)' = Ends(c)
  BY <1>5 DEF Built, Ends
<1>17. /\ MovesHouse(r) => Moved(r) = {h} /\ h \in Houses
       /\ ~MovesHouse(r) => Moved(r) \subseteq {m}
       /\ Moved(r) \subseteq changed
  <2>1. r.op.kind # "move"
    BY <1>5 DEF SaveKinds
  <2>2. MovesHouse(r) => Moved(r) = {h} /\ h \in Houses
    BY <1>6, <1>7, MovedCases DEF MovesHouse
  <2>3. ~MovesHouse(r) => Moved(r) \subseteq {m}
    BY <1>2, <2>1, MovedCases
  <2> QED
    BY <1>4, <2>2, <2>3
<1>18. ASSUME NEW c \in Built, NEW e \in Ends(c)
       PROVE  /\ PlaceOf(e)' = IF e \in Moved(r) THEN r.op.place ELSE PlaceOf(e)
              /\ e \in Standing' \/ (e \in Present' /\ marker'[e].role # "represents")
  <2>1. CASE e \in Standing
    <3>1. e \in Houses /\ e \notin Markers /\ e # m /\ e \notin Present /\ e \notin Present'
      BY <1>6, <1>7, <1>14, <2>1, IdAssumption
    <3>2. PlaceOf(e) = house[e] /\ PlaceOf(e)' = house'[e]
      BY <1>15, <2>1, <3>1 DEF PlaceOf
    <3>3. e \in Moved(r) <=> MovesHouse(r) /\ e = h
      BY <1>17, <3>1
    <3> QED
      BY <1>15, <2>1, <3>1, <3>2, <3>3
  <2>2. CASE e \notin Standing
    <3>1. e \in Present /\ marker[e].role # "represents" /\ e \in Markers /\ e \notin Houses
      BY <1>7, <2>2, IdAssumption DEF EndsExist
    <3>2. PlaceOf(e) = marker[e].place
      BY <2>2, <3>1 DEF PlaceOf
    <3>3. e \in Present' /\ e \notin Standing' /\ e \notin displaced
      BY <1>8, <1>14, <1>15, <2>2, <3>1
    <3>4. CASE e = m
      <4>1. marker'[e].role # "represents" /\ marker'[e].place = point
        BY <1>6, <1>9, <1>13, <3>4
      <4>2. PlaceOf(e)' = point
        BY <3>3, <4>1 DEF PlaceOf
      <4> QED
        BY <1>6, <3>2, <3>3, <3>4, <4>1, <4>2
    <3>5. CASE e # m
      <4>1. marker'[e] = marker[e] /\ e \notin Moved(r)
        BY <1>13, <1>17, <3>1, <3>3, <3>5
      <4>2. PlaceOf(e)' = marker[e].place
        BY <3>1, <3>3, <4>1 DEF PlaceOf
      <4> QED
        BY <3>1, <3>2, <3>3, <4>1, <4>2
    <3> QED
      BY <3>4, <3>5
  <2> QED
    BY <2>1, <2>2
<1>19. ASSUME NEW n \in Markers, anchor[n] # None
       PROVE  marker'[n].role = "none" /\ marker'[n].place = marker[n].place
  <2>1. n \in Present /\ marker[n].role = "none" /\ n \notin displaced
    BY <1>7, <1>8, <1>19
  <2>2. CASE n = m
    BY <1>6, <1>9, <1>13, <1>19, <2>2
  <2>3. CASE n # m
    BY <1>13, <2>1, <2>3
  <2> QED
    BY <2>2, <2>3
<1>20. changed \in SUBSET (Things \cup Connections)
  BY <1>4, <1>6, <1>7, <1>8, <1>17 DEF Things
<1>21. TypeOK'
  <2>1. req' \in [Workers -> Requests] /\ commits' \in Nat
    BY <1>5, <1>20, CommitFrame
  <2>2. marker' \in [Markers -> Rows]
    <3>1. \A n \in Markers : marker'[n] \in Rows
      BY <1>7, <1>8, <1>11, <1>12, <1>13 DEF TypeOK
    <3> QED
      BY <1>5, <3>1
  <2>3. skewed' \subseteq Connections
    BY <1>5, <1>7 DEF TypeOK, Skews
  <2> QED
    BY <1>5, <1>7, <1>15, <2>1, <2>2, <2>3 DEF TypeOK
<1>22. EndsExist'
  BY <1>5, <1>7, <1>16, <1>18 DEF EndsExist
<1>23. BindingsSound'
  <2>1. ASSUME NEW n \in Present'
        PROVE  /\ marker'[n].role = "none" <=> marker'[n].house = None
               /\ marker'[n].house \in Standing \cup {None}
    <3>1. CASE n = m
      BY <1>6, <1>9, <1>13, <3>1
    <3>2. CASE n \in displaced
      BY <1>7, <1>10, <1>12, <1>13, <3>2
    <3>3. CASE n # m /\ n \notin displaced
      BY <1>7, <1>13, <1>14, <3>3 DEF BindingsSound
    <3> QED
      BY <3>1, <3>2, <3>3
  <2>2. ASSUME NEW n \in Present', NEW k \in Present' \ {n},
               marker'[n].role = "represents", marker'[k].role = "represents"
        PROVE  marker'[n].house # marker'[k].house
    <3>1. n \notin displaced /\ k \notin displaced
      BY <1>10, <1>13, <2>2
    <3>2. CASE n = m
      <4>1. k # m /\ k \in Present /\ marker'[k] = marker[k]
        BY <1>7, <1>13, <1>14, <2>2, <3>1, <3>2
      <4> QED
        BY <1>8, <1>9, <1>13, <2>2, <3>1, <3>2, <4>1
    <3>3. CASE k = m
      <4>1. n # m /\ n \in Present /\ marker'[n] = marker[n]
        BY <1>7, <1>13, <1>14, <2>2, <3>1, <3>3
      <4> QED
        BY <1>8, <1>9, <1>13, <2>2, <3>1, <3>3, <4>1
    <3>4. CASE n # m /\ k # m
      <4>1. n \in Present /\ k \in Present /\ marker'[n] = marker[n] /\ marker'[k] = marker[k]
        BY <1>7, <1>13, <1>14, <2>2, <3>1, <3>4
      <4> QED
        BY <1>7, <2>2, <4>1 DEF BindingsSound
    <3> QED
      BY <3>2, <3>3, <3>4
  <2> QED
    BY <1>15, <2>1, <2>2 DEF BindingsSound
<1>24. AnchorsSound' /\ RowsSound'
  <2>1. ASSUME NEW n \in Present'
        PROVE  marker'[n].role # "absent"
    <3>1. CASE n = m
      BY <1>6, <1>9, <1>13, <3>1 DEF Roles
    <3>2. CASE n \in displaced
      BY <1>10, <1>13, <3>2
    <3>3. CASE n # m /\ n \notin displaced
      BY <1>7, <1>13, <1>14, <3>3 DEF RowsSound
    <3> QED
      BY <3>1, <3>2, <3>3
  <2>2. AnchorsSound'
    BY <1>5, <1>7, <1>16, <1>19 DEF AnchorsSound
  <2>3. skewed' \subseteq Built'
    BY <1>5, <1>7, <1>16 DEF RowsSound, Skews
  <2> QED
    BY <1>5, <1>7, <1>19, <2>1, <2>2, <2>3 DEF RowsSound
<1>25. ObjectsOnLine'
  <2>1. StillGuarded(r)
    BY <1>1, <1>5, Committing DEF StillPermits
  <2>2. \A n \in Markers : anchor[n] # None => marker'[n].place = marker[n].place
    BY <1>19
  <2>3. \A c \in Built : \A e \in Ends(c) :
          PlaceOf(e)' = IF e \in Moved(r) THEN r.op.place ELSE PlaceOf(e)
    BY <1>18
  <2> QED
    BY <1>5, <1>16, <2>1, <2>2, <2>3, MovedOnLine
<1>26. ASSUME NEW g \in Standing \ r.houses
       PROVE  LeavesHouse(g, changed)
  <2>1. g # h /\ g \in Houses
    BY <1>6, <1>7, <1>26
  <2>2. ASSUME NEW n \in Present', marker'[n].house = g
        PROVE  n \in Present /\ marker[n].house = g
    <3>1. n # m /\ n \notin displaced
      BY <1>9, <1>10, <1>13, <2>1, <2>2
    <3> QED
      BY <1>7, <1>13, <1>14, <2>2, <3>1
  <2>3. \A c \in EndingAt(g)' : c \in EndingAt(g) /\ c \in Built /\ c \in Connections
    BY <1>7, <1>16 DEF EndingAt
  <2>4. ASSUME NEW c \in Connections, NEW n \in Anchored(c)'
        PROVE  n \in Anchored(c) /\ marker'[n].place = marker[n].place
    <3>1. n \in Present' /\ n \in Markers /\ anchor[n] = c /\ c # None
      BY <1>5, <1>6, <1>7, <1>14 DEF Anchored
    <3> QED
      BY <1>7, <1>19, <3>1 DEF Anchored
  <2>5. \A c \in Built : \A e \in Ends(c) : PlaceOf(e)' = PlaceOf(e) \/ e \in changed
    BY <1>17, <1>18
  <2> QED
    BY <1>5, <1>15, <1>26, <2>2, <2>3, <2>4, <2>5 DEF LeavesHouse
<1>27. OnMap(Op(w)) /\ r.houses = req[w].houses
  BY <1>1, <1>5 DEF OnMap, HouseKinds, SaveKinds, Op
<1> QED
  BY <1>5, <1>20, <1>21, <1>22, <1>23, <1>24, <1>25, <1>26, <1>27, MapCommit DEF GraphSound

-----------------------------------------------------------------------------
(* Theorems                                                                  *)

(* An empty map.                                                             *)
LEMMA InitInductive == Init => MapInductive
<1> SUFFICES ASSUME Init PROVE MapInductive
  OBVIOUS
<1>1. Absent \in Rows /\ Absent.role = "absent"
  BY DEF Absent, Rows
<1>2. /\ house \in [Houses -> Places \cup {None}]
      /\ marker = [m \in Markers |-> Absent] /\ route = [c \in Connections |-> Unbuilt]
      /\ anchor = [m \in Markers |-> None] /\ req = [w \in Workers |-> Idle]
      /\ skewed = {} /\ commits = 0
  BY DEF Init
<1>3. Present = {} /\ Built = {}
  BY <1>2 DEF Present, Built
<1>4. TypeOK
  <2>1. Unbuilt \in [from : Things \cup {None}, to : Things \cup {None}]
    BY DEF Unbuilt
  <2> QED
    BY <1>1, <1>2, <2>1, IdleTyped DEF TypeOK
<1>5. EndsExist /\ BindingsSound /\ AnchorsSound /\ RowsSound /\ ObjectsOnLine
  BY <1>2, <1>3 DEF EndsExist, BindingsSound, AnchorsSound, RowsSound, ObjectsOnLine
<1>6. Idle.pc = "idle" /\ Idle.houses = {} /\ Idle.rows = {}
  BY DEF Idle
<1>7. \A w \in Workers : RequestOK(w) /\ (At(w, "idle") => req[w] = Idle)
  BY <1>2, <1>6 DEF RequestOK, At
<1>8. \A v, w \in Workers : v # w => Apart(v, w)
  BY <1>2, <1>6 DEF Apart, HasCompany, At
<1> QED
  BY <1>4, <1>5, <1>7, <1>8 DEF MapInductive, GraphSound

(* A step that changes nothing the map knows of.                             *)
LEMMA StutterStep ==
  ASSUME MapInductive, UNCHANGED vars
  PROVE  MapInductive'
<1>1. /\ house' = house /\ marker' = marker /\ route' = route /\ anchor' = anchor
      /\ req' = req /\ skewed' = skewed /\ commits' = commits /\ UNCHANGED tables
  BY DEF vars, tables
<1>2. Present' = Present /\ Built' = Built /\ Standing' = Standing
  BY <1>1 DEF Present, Built, Standing
<1>3. \A c : Ends(c)' = Ends(c) /\ Line(c)' = Line(c)
  BY <1>1, <1>2 DEF Ends, Line, PlaceOf
<1>4. GraphSound' /\ RowsSound' /\ ObjectsOnLine'
  BY <1>1, <1>2, <1>3
     DEF MapInductive, GraphSound, TypeOK, EndsExist, BindingsSound, AnchorsSound, RowsSound, ObjectsOnLine
<1>5. ASSUME NEW w \in Workers
      PROVE  RequestOK(w)' /\ (At(w, "idle") => req[w] = Idle)'
  <2>1. PICK r : r = req[w]
    OBVIOUS
  <2>2. r.pc # "idle" =>
          /\ AsksWell(r) /\ Remembers(r) /\ Holds(r)
          /\ r.pc = "commit" => StillPermits(r)
    BY <2>1 DEF MapInductive, RequestOK, At
  <2>3. r.pc # "idle" =>
          /\ AsksWell(r)' /\ Remembers(r)' /\ Holds(r)'
          /\ r.pc = "commit" => StillPermits(r)'
    BY <1>1, <2>2, TablesSame
  <2> QED
    BY <1>1, <2>1, <2>3, AskedOfRequest DEF MapInductive, At
<1>6. ASSUME NEW v \in Workers, NEW w \in Workers, v # w
      PROVE  Apart(v, w)'
  BY <1>1, <1>6 DEF MapInductive, Apart, HasCompany, At, Op, OnMap
<1> QED
  BY <1>4, <1>5, <1>6 DEF MapInductive

(* The steps of a request, in the order of Next.                             *)
LEMMA InductiveStep == MapInductive /\ [Next]_vars => MapInductive'
<1> SUFFICES ASSUME MapInductive, [Next]_vars PROVE MapInductive'
  OBVIOUS
<1>1. CASE UNCHANGED vars
  BY <1>1, StutterStep
<1>2. CASE Rest
  BY <1>2, StutterStep DEF Rest
<1>3. ASSUME NEW w \in Workers, NEW op \in Bodies, Begin(w, op)
      PROVE  MapInductive'
  BY <1>3, BeginStep
<1>4. ASSUME NEW w \in Workers, LockHouses(w) \/ Decide(w) \/ CutOff(w)
      PROVE  MapInductive'
  BY <1>4, LockHousesStep, DecideStep, CutOffStep DEF CutOff
<1>5. ASSUME NEW w \in Workers,
             SaveMarker(w) \/ DeleteMarker(w) \/ SaveConnection(w) \/ DeleteConnection(w)
      PROVE  MapInductive'
  BY <1>5, SaveMarkerStep, DeleteMarkerStep, SaveConnectionStep, DeleteConnectionStep
<1>6. ASSUME NEW w \in Workers,
             PlaceRouteObject(w) \/ SplitConnection(w) \/ DetachRouteObject(w) \/ SetInstallationBoundary(w)
      PROVE  MapInductive'
  BY <1>6, PlaceRouteObjectStep, SplitConnectionStep, DetachRouteObjectStep, SetInstallationBoundaryStep
<1>7. ASSUME NEW w \in Workers, UpdateBuilding(w) \/ DeleteBuilding(w)
      PROVE  MapInductive'
  BY <1>7, UpdateBuildingStep, DeleteBuildingStep
<1> QED
  BY <1>1, <1>2, <1>3, <1>4, <1>5, <1>6, <1>7 DEF Next

(* The invariant behind the map: every request that is under way asks for what*)
(* makes sense, holds the locks it needs, and is still permitted what it was.*)
THEOREM MapInvariant == Spec => []MapInductive
  BY InitInductive, InductiveStep, PTL DEF Spec

(* A line joins two different things that are there, a marker is bound to a  *)
(* house that stands and is the only one to represent it, and what is fixed  *)
(* to a line is a marker of its own (connections.py, map_markers.py,         *)
(* route_objects.py), whatever the requests do.                              *)
THEOREM MapStaysSound == Spec => []GraphSound
<1>1. MapInductive => GraphSound
  BY DEF MapInductive
<1> QED
  BY <1>1, MapInvariant, PTL

(* A route object lies on the line it is fixed to, unless a point of that line*)
(* was moved by a request that had read the other end before it moved.       *)
THEOREM ObjectsStayOnLine == Spec => []ObjectsOnLine
<1>1. MapInductive => ObjectsOnLine
  BY DEF MapInductive
<1> QED
  BY <1>1, MapInvariant, PTL

(* The locks are taken in one order: the company, the houses, the rows. Of those*)
(* that wait, somebody waits for nobody else who does.                       *)
LEMMA SomebodyGoes == MapInductive => NoDeadlock
<1> SUFFICES ASSUME MapInductive, NEW S \in (SUBSET Workers) \ {{}}
             PROVE  \E w \in S : Blockers(w) \cap S = {}
  BY DEF NoDeadlock
<1>1. \A w \in Workers : req[w] \in Requests /\ req[w].pc \in {"idle", "houses", "rows", "commit"}
  BY DEF MapInductive, GraphSound, TypeOK, Requests
<1>2. \A v \in Workers : req[v].pc = "idle" => req[v] = Idle
  BY DEF MapInductive, At
<1>3. \A v \in Workers : req[v].pc # "idle" => Holds(req[v])
  BY DEF MapInductive, RequestOK, At
<1>4. \A v \in Workers : req[v].pc # "commit" => req[v].rows = {}
  BY <1>2, <1>3 DEF Holds, Idle
<1>5. \A v \in Workers : req[v].pc = "houses" => req[v].houses = {}
  BY <1>3 DEF Holds
<1>6. CASE \E w \in S : req[w].pc \in {"idle", "commit"}
  BY <1>6 DEF Blockers, At, WaitsForCompany
<1>7. CASE \A w \in S : req[w].pc \notin {"idle", "commit"}
  <2>1. CASE \E w \in S : req[w].pc = "rows"
    <3>1. PICK w \in S : req[w].pc = "rows"
      BY <2>1
    <3>2. \A v \in S : req[v].rows = {}
      BY <1>4, <1>7
    <3> QED
      BY <3>1, <3>2 DEF Blockers, At, WaitsForCompany
  <2>2. CASE \A w \in S : req[w].pc # "rows"
    <3>1. \A v \in S : req[v].pc = "houses" /\ req[v].houses = {}
      BY <1>1, <1>5, <1>7, <2>2
    <3>2. PICK w \in S : TRUE
      OBVIOUS
    <3> QED
      BY <3>1, <3>2 DEF Blockers, At, WaitsForCompany
  <2> QED
    BY <2>1, <2>2
<1> QED
  BY <1>6, <1>7

(* Requests never wait for each other in a circle (lock_company_map_graph and*)
(* the locks on buildings and rows).                                         *)
THEOREM NoWaitingCircle == Spec => []NoDeadlock
  BY SomebodyGoes, MapInvariant, PTL

(* What PointsKept says of one marker in one step.                           *)
Keeps(m) ==
  PlaceOf(m) # None =>
    \/ marker'[m].role \in {"absent", "represents"}
    \/ marker'[m].place # None
    \/ \E w \in Workers : Saves(w, m) /\ (Op(w).clears \/ Overtaken(w, m))

(* A marker whose row stays keeps its place.                                 *)
LEMMA SameRowKeeps ==
  ASSUME MapInductive, NEW m \in Markers, marker'[m] = marker[m]
  PROVE  Keeps(m)
<1>1. m \notin Standing
  BY IdAssumption DEF Standing
<1> QED
  BY <1>1 DEF Keeps, PlaceOf

(* Saving a marker, for every marker there is.                               *)
LEMMA SaveKeeps ==
  ASSUME MapInductive, NEW w \in Workers, SaveMarker(w), NEW m \in Markers
  PROVE  Keeps(m)
<1>1. PICK r : r = req[w]
  OBVIOUS
<1>2. PICK h : h = HouseAfter(r)
  OBVIOUS
<1>3. /\ At(w, "commit") /\ r.op.kind \in SaveKinds
      /\ marker' = [n \in Markers |->
           IF n = r.op.marker
           THEN [role |-> RoleAfter(r), house |-> h,
                 place |-> IF RoleAfter(r) = "represents" THEN None ELSE PointAfter(r)]
           ELSE IF n \in Occupants(r) THEN [role |-> "reference", house |-> h, place |-> house[h]]
           ELSE marker[n]]
  BY <1>1, <1>2 DEF SaveMarker, Op
<1>4. AsksWell(r) /\ Remembers(r) /\ r.houses = HousesOf(r)
  BY <1>1, <1>3, Committing
<1>5. TypeOK /\ BindingsSound /\ Present \subseteq Markers /\ Standing \subseteq Houses /\ None \notin Houses
  BY EndFacts
<1>6. m \notin Standing
  BY IdAssumption DEF Standing
<1> SUFFICES ASSUME PlaceOf(m) # None
             PROVE  \/ marker'[m].role = "represents"
                    \/ marker'[m].place # None
                    \/ /\ r.op.kind = "update" /\ r.op.marker = m
                       /\ r.op.clears \/ (r.was.role = "represents" /\ marker[m].role # "represents")
  <2>1. req'[w] = Idle
    BY DEF SaveMarker, Commit
  <2> QED
    BY <1>1, <1>3, <2>1 DEF Keeps, Saves, Overtaken, Op
<1>7. m \in Present
  BY <1>6 DEF PlaceOf
<1>8. marker[m].role = "represents" =>
        marker[m].house \in Standing /\ PlaceOf(m) = house[marker[m].house]
  BY <1>5, <1>7, PlaceCases DEF BindingsSound
<1>9. marker[m].role # "represents" => PlaceOf(m) = marker[m].place
  BY <1>5, <1>7, PlaceCases
<1>10. CASE m = r.op.marker
  <2>1. r.op.kind = "update"
    BY <1>3, <1>4, <1>7, <1>10 DEF AsksWell, SaveKinds, NewMarkers
  <2>2. marker'[m].role = RoleAfter(r)
        /\ (RoleAfter(r) # "represents" => marker'[m].place = PointAfter(r))
    BY <1>3, <1>10
  <2>3. CASE ~r.op.clears /\ (r.was.role = "represents" => marker[m].role = "represents")
    <3>1. GivesPoint(r.op) => r.op.place # None
      BY <2>3 DEF GivesPoint
    <3>2. CASE marker[m].role = "represents"
      <4>1. r.was = marker[m]
        BY <1>4, <1>10, <2>1, <3>2 DEF Remembers
      <4>2. marker[m].house \in r.houses
        BY <1>3, <1>4, <1>8, <3>2, <4>1 DEF HousesOf
      <4> QED
        BY <1>8, <1>10, <2>2, <3>1, <3>2, <4>2 DEF PointAfter
    <3>3. CASE marker[m].role # "represents"
      <4>1. r.was.place = marker[m].place
        BY <1>4, <1>10, <2>1, <2>3, <3>3 DEF Remembers
      <4> QED
        BY <1>9, <1>10, <2>2, <3>1, <3>3, <4>1 DEF PointAfter
    <3> QED
      BY <3>2, <3>3
  <2> QED
    BY <1>10, <2>1, <2>3
<1>11. CASE m # r.op.marker /\ m \in Occupants(r)
  <2>1. marker'[m].place = house[h]
    BY <1>3, <1>11
  <2>2. marker[m].role = "represents" /\ marker[m].house = h
    BY <1>2, <1>11 DEF Occupants
  <2> QED
    BY <1>8, <2>1, <2>2
<1>12. CASE m # r.op.marker /\ m \notin Occupants(r)
  <2>1. marker'[m] = marker[m]
    BY <1>3, <1>12
  <2> QED
    BY <1>9, <2>1
<1> QED
  BY <1>10, <1>11, <1>12

(* Every step, for every marker there is.                                    *)
LEMMA StepKeeps ==
  ASSUME MapInductive, [Next]_vars, NEW m \in Markers
  PROVE  Keeps(m)
<1>1. marker \in [Markers -> Rows]
  BY DEF MapInductive, GraphSound, TypeOK
<1>2. CASE marker' = marker
  BY <1>2, SameRowKeeps
<1>3. ASSUME NEW w \in Workers, SaveMarker(w)
      PROVE  Keeps(m)
  BY <1>3, SaveKeeps
<1>4. ASSUME NEW w \in Workers, DeleteMarker(w)
      PROVE  Keeps(m)
  <2>1. marker'[m] = marker[m] \/ marker'[m].role = "absent"
    BY <1>1, <1>4 DEF DeleteMarker, Absent
  <2> QED
    BY <2>1, SameRowKeeps DEF Keeps
<1>5. ASSUME NEW w \in Workers, PlaceRouteObject(w) \/ SplitConnection(w)
      PROVE  Keeps(m)
  <2>1. At(w, "commit") /\ Op(w).kind \in {"place", "split"}
    BY <1>5 DEF PlaceRouteObject, SplitConnection
  <2>2. Op(w).place # None
    BY <2>1, Committing, IdAssumption DEF AsksWell, Op
  <2>3. marker' = [marker EXCEPT ![Op(w).marker] = [role |-> "none", house |-> None, place |-> Op(w).place]]
    BY <1>5 DEF PlaceRouteObject, SplitConnection
  <2>4. marker'[m] = marker[m] \/ marker'[m].place = Op(w).place
    BY <1>1, <2>3
  <2> QED
    BY <2>2, <2>4, SameRowKeeps DEF Keeps
<1>6. ASSUME NEW w \in Workers, DeleteBuilding(w)
      PROVE  Keeps(m)
  <2>1. marker'[m] = marker[m] \/ marker'[m].place = PlaceOf(m)
    BY <1>6 DEF DeleteBuilding, PointKept
  <2> QED
    BY <2>1, SameRowKeeps DEF Keeps
<1>7. ASSUME NEW w \in Workers,
             \/ SaveConnection(w) \/ DeleteConnection(w) \/ DetachRouteObject(w)
             \/ SetInstallationBoundary(w) \/ UpdateBuilding(w)
      PROVE  marker' = marker
  BY <1>7 DEF SaveConnection, DeleteConnection, DetachRouteObject, SetInstallationBoundary,
     UpdateBuilding, tables
<1>8. ASSUME NEW w \in Workers,
             (\E op \in Bodies : Begin(w, op)) \/ LockHouses(w) \/ Decide(w) \/ CutOff(w)
      PROVE  marker' = marker
  <2>1. \A r : Become(w, r) => marker' = marker
    BY DEF Become, tables
  <2>2. ASSUME NEW op \in Bodies, Begin(w, op)
        PROVE  marker' = marker
    <3>1. \E r : Become(w, r)
      BY <2>2 DEF Begin
    <3> QED
      BY <2>1, <3>1
  <2>3. LockHouses(w) \/ Decide(w) \/ CutOff(w) => \E r : Become(w, r)
    BY DEF LockHouses, Decide, CutOff
  <2> QED
    BY <1>8, <2>1, <2>2, <2>3
<1>9. UNCHANGED vars => marker' = marker
  BY DEF vars
<1> QED
  BY <1>2, <1>3, <1>4, <1>5, <1>6, <1>7, <1>8, <1>9 DEF Next, Rest

(* A marker never loses its place unless it is removed, comes to stand for a *)
(* house, or is saved by a client that empties its point on purpose or by a  *)
(* request that read it while it stood for a house that has gone since.      *)
THEOREM PointsStay == Spec => PointsKept
<1>1. MapInductive /\ [Next]_vars => \A m \in Markers : Keeps(m)
  BY StepKeeps
<1>2. MapInductive /\ [Next]_vars =>
        [\A m \in Markers :
           PlaceOf(m) # None =>
             \/ marker'[m].role \in {"absent", "represents"}
             \/ marker'[m].place # None
             \/ \E w \in Workers : Saves(w, m) /\ (Op(w).clears \/ Overtaken(w, m))]_vars
  BY <1>1 DEF Keeps
<1> QED
  BY <1>2, MapInvariant, PTL DEF Spec, PointsKept
=============================================================================
