---------------------------- MODULE MCAddresses ----------------------------
(***************************************************************************)
(* Requests two at a time, on an empty catalogue, on a city with two       *)
(* territories, on what two overlapping moves can leave of it, on nested   *)
(* areas, and on a city whose buildings have entrances and a location.     *)
(***************************************************************************)
EXTENDS Addresses, TLC

CONSTANTS zone, o1, o2, o3, o4, b1, b2, e1, e2, l1

Row(t, p) == [type |-> t, parent |-> p]
Site(x) == [state |-> "there", at |-> x]

KnownAll == types = [t \in Types |-> "there"]

Empty ==
  /\ types = [t \in Types |-> "unused"]
  /\ object = [o \in Objects |-> Unused]
  /\ building = [b \in Buildings |-> NoBuilding]
  /\ entrance = [e \in Entrances |-> NoBuilding]
  /\ location = [l \in Locations |-> NoLocation]
  /\ raced = {}

(* A city with two territories, a building in one of them.                   *)
Tree ==
  /\ KnownAll
  /\ object = (o1 :> Row("city", None) @@ o2 :> Row("territory", o1)
               @@ o3 :> Row("territory", o1) @@ o4 :> Unused)
  /\ building = (b1 :> Site(o3) @@ b2 :> NoBuilding)
  /\ entrance = [e \in Entrances |-> NoBuilding]
  /\ location = [l \in Locations |-> NoLocation]
  /\ raced = {}

(* Two moves that overlapped: each territory is below the other.             *)
Knot ==
  /\ KnownAll
  /\ object = (o1 :> Row("city", None) @@ o2 :> Row("territory", o3)
               @@ o3 :> Row("territory", o2) @@ o4 :> Unused)
  /\ building = (b1 :> Site(o2) @@ b2 :> NoBuilding)
  /\ entrance = [e \in Entrances |-> NoBuilding]
  /\ location = [l \in Locations |-> NoLocation]
  /\ raced = {o3}

(* Two buildings of one territory, one entrance each, one location.          *)
Houses ==
  /\ KnownAll
  /\ object = (o1 :> Row("city", None) @@ o2 :> Row("territory", o1) @@ o3 :> Unused @@ o4 :> Unused)
  /\ building = (b1 :> Site(o2) @@ b2 :> Site(o2))
  /\ entrance = (e1 :> Site(b1) @@ e2 :> Site(b2))
  /\ location = (l1 :> [state |-> "there", building |-> b1, entrance |-> None])
  /\ raced = {}

(* Areas of a type made by users, one in the other, a building far below.    *)
Areas ==
  /\ KnownAll
  /\ object = (o1 :> Row("city", None) @@ o2 :> Row(zone, o1)
               @@ o3 :> Row(zone, o2) @@ o4 :> Row("territory", o3))
  /\ building = (b1 :> Site(o4) @@ b2 :> NoBuilding)
  /\ entrance = [e \in Entrances |-> NoBuilding]
  /\ location = [l \in Locations |-> NoLocation]
  /\ raced = {}

MCInit ==
  /\ Empty \/ Tree \/ Knot \/ Areas \/ Houses
  /\ req = [w \in Workers |-> Idle]
  /\ adrift = {}
  /\ requests = 0

(* Nothing is left to do within the bound on requests.                       *)
Rest == requests = MaxRequests /\ (\A w \in Workers : At(w, "idle")) /\ UNCHANGED vars

MCSpec == MCInit /\ [][Next \/ Rest]_vars
=============================================================================
