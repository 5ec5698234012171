--------------------------- MODULE MCMapWorkspace ---------------------------
(***************************************************************************)
(* Two requests at a time, over one of two trees of layers in use: one as  *)
(* deep as it may be, with a line on the map; one whose layers never had   *)
(* an order.                                                               *)
(***************************************************************************)
EXTENDS MapWorkspace, TLC

CONSTANTS h1, m1, m2, c1, c2, u1, a, b

Row(mode, parent, order) ==
  [mode |-> mode, parent |-> parent, text |-> a, order |-> order, version |-> 1]

Standing == [state |-> "there", text |-> a, house |-> None, version |-> 1]

Objects(line) ==
  object = (h1 :> Standing @@ m1 :> [Standing EXCEPT !.house = h1] @@ m2 :> NoObject
            @@ c1 :> line @@ c2 :> NoObject)

Deep ==
  /\ layer = (1 :> Row("group", None, 0) @@ 2 :> Row("group", 1, 0) @@ 3 :> Row("manual", 2, 0)
              @@ 4 :> Row("group", None, 1) @@ 5 :> NoLayer)
  /\ member = {<<3, c1>>, <<3, h1>>}
  /\ Objects(Standing)

Flat ==
  /\ layer = (1 :> Row("group", None, 0) @@ 2 :> Row("manual", None, 0) @@ 3 :> Row("dynamic", None, 0)
              @@ 4 :> NoLayer @@ 5 :> NoLayer)
  /\ member = {<<2, m1>>}
  /\ Objects(NoObject)

MCInit ==
  /\ Deep \/ Flat
  /\ passport = [t \in Targets |-> NoPassport]
  /\ preference = [u \in Users |-> NoPreference]
  /\ req = [w \in Workers |-> Idle]
  /\ requests = 0

(* Nothing is left to do within the bound on requests.                       *)
Rest == requests = MaxRequests /\ (\A w \in Workers : At(w, "idle")) /\ UNCHANGED vars

MCSpec == MCInit /\ [][Next \/ Rest]_vars

Symmetry == Permutations(Workers)
=============================================================================
