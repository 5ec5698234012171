----------------------------- MODULE MCMapGraph -----------------------------
(***************************************************************************)
(* Two requests at a time on a map in use, on top of one of four states   *)
(* that a few requests one after the other leave.                          *)
(***************************************************************************)
EXTENDS MapGraph, TLC

CONSTANTS h1, h2, m1, m2, m3, c1, c2

Mark(role, h, p) == [role |-> role, house |-> h, place |-> p]
From(e, f) == [from |-> e, to |-> f]

(* No line yet: a marker that represents a house, another of its own.        *)
NoLine ==
  /\ marker = (m1 :> Mark("represents", h1, None) @@ m2 :> Mark("none", None, 2) @@ m3 :> Absent)
  /\ route = (c1 :> Unbuilt @@ c2 :> Unbuilt)
  /\ anchor = (m1 :> None @@ m2 :> None @@ m3 :> None)

(* A line of two houses with an object on it.                                *)
WithObject ==
  /\ marker = (m1 :> Mark("represents", h1, None) @@ m2 :> Mark("none", None, 3) @@ m3 :> Absent)
  /\ route = (c1 :> From(h1, h2) @@ c2 :> Unbuilt)
  /\ anchor = (m1 :> None @@ m2 :> c1 @@ m3 :> None)

(* A line from a marker to a house.                                          *)
FromMarker ==
  /\ marker = (m1 :> Mark("reference", h1, 1) @@ m2 :> Absent @@ m3 :> Absent)
  /\ route = (c1 :> From(m1, h2) @@ c2 :> Unbuilt)
  /\ anchor = (m1 :> None @@ m2 :> None @@ m3 :> None)

(* What is left of a split: two lines that meet at a marker, an object on    *)
(* the second.                                                               *)
Split ==
  /\ marker = (m1 :> Mark("none", None, 2) @@ m2 :> Mark("none", None, 3) @@ m3 :> Absent)
  /\ route = (c1 :> From(h1, m1) @@ c2 :> From(m1, h2))
  /\ anchor = (m1 :> None @@ m2 :> c2 @@ m3 :> None)

MCInit ==
  /\ house = (h1 :> 1 @@ h2 :> 4)
  /\ NoLine \/ WithObject \/ FromMarker \/ Split
  /\ req = [w \in Workers |-> Idle]
  /\ skewed = {}
  /\ commits = 0

MCSpec == MCInit /\ [][Next]_vars

Symmetry == Permutations(Workers)
=============================================================================
