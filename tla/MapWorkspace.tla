---------------------------- MODULE MapWorkspace ----------------------------
(***************************************************************************)
(* What a company keeps around its map: the tree of layers and their       *)
(* members, the passports of objects and the display settings of each user *)
(* (app/services/map_layers.py, map_passports.py, map_preferences.py).     *)
(*                                                                         *)
(* A client looks first and saves later, naming the version it saw; what   *)
(* happens between the two is up to the others. Saving is three steps: the *)
(* client has looked, the handler has taken the advisory lock of the       *)
(* company (core/map_domain.py), read and checked, the handler commits.    *)
(* Saving a marker is four: it is read and its version compared before its *)
(* row is locked. A house is demolished by the address catalogue, which    *)
(* takes the rows it needs and not the lock of the company.                *)
(*                                                                         *)
(* Layers, settings and passports are not saved without a version; to save *)
(* a marker or to erase a marker or a line an old client may name none.    *)
(*                                                                         *)
(* The graph of markers and lines is in MapGraph: here they only have a    *)
(* text (all a client may write in them), a version and, for a marker, the *)
(* house it represents, and any of them may be erased. The rules of a      *)
(* dynamic layer and its name are one text, sort orders are in tens, types *)
(* of points and rights are left out. Ids are never used twice.            *)
(***************************************************************************)
EXTENDS Integers, FiniteSets

CONSTANTS
  Layers,       \* ids of layers, numbers: ties of sort_order go by id
  Houses, Markers, Lines,  \* ids of what a layer may hold
  Users,
  Texts,        \* names, descriptions, rules, passport data
  Workers,      \* clients that can be at work together
  MaxLayers,    \* MAX_LAYERS
  MaxDepth,     \* MAX_DEPTH: layers on a path from the root
  MaxRequests,  \* bound on the requests started, for TLC
  None

Targets == Houses \cup Markers \cup Lines

ASSUME LayerAssumption == Layers \subseteq Nat \ {0} /\ IsFiniteSet(Layers)
ASSUME LimitAssumption == MaxLayers \in Nat /\ MaxDepth \in Nat \ {0}
ASSUME TargetAssumption ==
  /\ None \notin Targets \cup Layers \cup {0} \cup Users \cup Texts
  /\ Houses \cap Markers = {} /\ Lines \cap (Houses \cup Markers) = {}
  /\ Layers \cap (Targets \cup Users) = {} /\ Users \cap Targets = {}

VARIABLES
  layer,       \* map_layers
  member,      \* map_layer_members: pairs of a layer and a target
  object,      \* buildings, map_markers, map_connections
  passport,    \* map_passports: version 0 where there is none
  preference,  \* map_preferences: version 0 where there is none
  req,         \* what each client is doing
  requests     \* number of requests so far

tables == <<layer, member, object, passport, preference>>
vars == <<layer, member, object, passport, preference, req, requests>>

-----------------------------------------------------------------------------
(* Tables *)

Modes == {"group", "manual", "dynamic"}
NoLayer == [mode |-> "unused", parent |-> None, text |-> None, order |-> 0, version |-> 0]
Deleted == [NoLayer EXCEPT !.mode = "deleted"]
NoObject == [state |-> "unused", text |-> None, house |-> None, version |-> 0]
Erased == [NoObject EXCEPT !.state = "gone"]
NoPassport == [data |-> None, version |-> 0]
NoPreference == [shown |-> {}, version |-> 0]

LayerRows == [mode : Modes \cup {"unused", "deleted"}, parent : Layers \cup {None},
              text : Texts \cup {None}, order : Int, version : Nat]
ObjectRows == [state : {"unused", "there", "gone"}, text : Texts \cup {None},
               house : Houses \cup {None}, version : Nat]
PassportRows == [data : Texts \cup {None}, version : Nat]
PreferenceRows == [shown : SUBSET Layers, version : Nat]

Existing == {l \in Layers : layer[l].mode \in Modes}
Unused == {l \in Layers : layer[l].mode = "unused"}
Children(l) == {k \in Existing : layer[k].parent = l}
There == {t \in Targets : object[t].state = "there"}
Members(l) == {t \in Targets : <<l, t>> \in member}

Parents == [l \in Existing |-> layer[l].parent]

(* The sequence of the table gives the next id.                              *)
NextLayer == CHOOSE l \in Unused : \A k \in Unused : l <= k

(* The place of l among the layers S, by (sort_order, id).                   *)
Before(k, l) ==
  \/ layer[k].order < layer[l].order
  \/ layer[k].order = layer[l].order /\ k < l

Position(l, S) == Cardinality({k \in S : Before(k, l)})

Above(parents, l) == IF l \in DOMAIN parents THEN parents[l] ELSE None

(* Walking up from `start` through `parents` leaves the tree after at most   *)
(* MaxDepth layers. A walk in a circle never does.                           *)
WalkUp(parents, start) ==
  LET up[n \in 0..MaxDepth] == IF n = 0 THEN start ELSE Above(parents, up[n - 1])
  IN  up

EndsInTime(parents, start) == WalkUp(parents, start)[MaxDepth] = None

(* canonical_target: the marker that represents a house stands for it.       *)
Canonical(t) == IF object[t].house # None THEN object[t].house ELSE t

(* Variant for mutation: a selected group shows its direct children.         *)
ExpandedOnce(selected) == selected \cup {l \in Existing : layer[l].parent \in selected}

(* map_predicates: the selected groups with what is below them.              *)
Rounds(selected) ==
  LET round[n \in 0..MaxDepth] ==
        IF n = 0 THEN selected
        ELSE round[n - 1] \cup {l \in Existing : layer[l].parent \in round[n - 1]}
  IN  round

Expanded(selected) == Rounds(selected)[MaxDepth]

-----------------------------------------------------------------------------
(* Requests *)

Blank == [kind |-> "none", layer |-> None, target |-> None, user |-> None,
          parent |-> None, mode |-> None, text |-> None, direction |-> 0,
          present |-> FALSE, versioned |-> TRUE, shown |-> {}, data |-> None, house |-> None]

Kinds == {"create", "save", "delete", "move", "member", "prefer", "passport", "update", "split", "erase"}

Asked ==
  [kind : Kinds \cup {"none"}, layer : Layers \cup {None}, target : Targets \cup {None},
   user : Users \cup {None}, parent : Layers \cup {None}, mode : Modes \cup {None},
   text : Texts \cup {None}, direction : {-1, 0, 1}, present : BOOLEAN, versioned : BOOLEAN,
   shown : SUBSET Layers, data : Texts \cup {None}, house : Houses \cup {None}]

Views == [layer : LayerRows, object : ObjectRows, passport : PassportRows, preference : PreferenceRows]

NothingSeen == [layer |-> NoLayer, object |-> NoObject,
                passport |-> NoPassport, preference |-> NoPreference]

(* The rows to write, by id; 0 stands for a layer that has no id yet.        *)
RowSets == [Layers \cup {0} -> LayerRows]
NoRows == [l \in Layers \cup {0} |-> NoLayer]

(* `rows` are the layers to write, `target` and `existing` the member meant  *)
(* by a request and whether it was there when read. For an update `target`   *)
(* is the house to save.                                                     *)
Requests ==
  [pc : {"idle", "open", "locked", "rows"}, op : Asked, seen : Views,
   rows : RowSets, target : Targets \cup {None}, existing : BOOLEAN]

Idle == [pc |-> "idle", op |-> Blank, seen |-> NothingSeen,
         rows |-> NoRows, target |-> None, existing |-> FALSE]

At(w, pc) == req[w].pc = pc
Op(w) == req[w].op
Seen(w) == req[w].seen

(* lock_map_company: pg_advisory_xact_lock, held to the end.                 *)
HasCompany(w) == req[w].pc \in {"locked", "rows"}

(* The mode of a layer as it is, or manual.                                  *)
SavedModes(l) == {layer[l].mode, "manual"}

LayerBody(kind, l, m, p, x) ==
  [Blank EXCEPT !.kind = kind, !.layer = l, !.mode = m, !.parent = p, !.text = x]
MoveBody(l, d) == [Blank EXCEPT !.kind = "move", !.layer = l, !.direction = d]
MemberBody(l, t, b) == [Blank EXCEPT !.kind = "member", !.layer = l, !.target = t, !.present = b]
PassportBody(t, x, data) ==
  [Blank EXCEPT !.kind = "passport", !.target = t, !.text = x, !.data = data]
SplitBody(t, b) == [Blank EXCEPT !.kind = "split", !.target = t, !.present = b]
EraseBody(t, v) == [Blank EXCEPT !.kind = "erase", !.target = t, !.versioned = v]

(* `named`: the body says which house, or that it is none.                   *)
UpdateBody(t, x, named, h, v) ==
  [Blank EXCEPT !.kind = "update", !.target = t, !.text = x, !.present = named, !.house = h,
                !.versioned = v]
PreferenceBody(u, shown) == [Blank EXCEPT !.kind = "prefer", !.user = u, !.shown = shown]

View(op) ==
  [layer |-> IF op.layer = None THEN NoLayer ELSE layer[op.layer],
   object |-> IF op.target = None THEN NoObject ELSE object[op.target],
   passport |-> IF op.target = None THEN NoPassport ELSE passport[op.target],
   preference |-> IF op.user = None THEN NoPreference ELSE preference[op.user]]

Become(w, r) == req' = [req EXCEPT ![w] = r]

(* The client loads what it is going to change, and decides.                 *)
Look(w, op) ==
  /\ At(w, "idle")
  /\ requests < MaxRequests
  /\ Become(w, [Idle EXCEPT !.pc = "open", !.op = op, !.seen = View(op)])
  /\ requests' = requests + 1
  /\ UNCHANGED tables

(* What a client may ask for, given what it sees.                            *)
AskLayer(w) ==
  \/ \E m \in Modes, p \in Existing \cup {None}, x \in Texts : Look(w, LayerBody("create", None, m, p, x))
  \/ \E l \in Existing, p \in Existing \cup {None}, x \in Texts :
       \E m \in SavedModes(l) : Look(w, LayerBody("save", l, m, p, x))
  \/ \E l \in Existing : Look(w, LayerBody("delete", l, None, None, None))
  \/ \E l \in Existing, d \in {-1, 1} : Look(w, MoveBody(l, d))
  \/ \E l \in Existing, t \in There, b \in BOOLEAN : Look(w, MemberBody(l, t, b))

AskObject(w) ==
  \/ \E t \in There, x \in Texts, y \in Texts \cup {None} : Look(w, PassportBody(t, y, x))
  \/ \E m \in There \cap Markers, x \in Texts, v \in BOOLEAN :
       \/ Look(w, UpdateBody(m, x, FALSE, None, v))
       \/ \E h \in (There \cap Houses) \cup {None} : Look(w, UpdateBody(m, x, TRUE, h, v))
  \/ \E c \in There \cap Lines, b \in BOOLEAN : Look(w, SplitBody(c, b))
  \/ \E t \in There \ Houses, v \in BOOLEAN : Look(w, EraseBody(t, v))

AskPreference(w) ==
  \E u \in Users, l \in Existing : Look(w, PreferenceBody(u, {l}))

-----------------------------------------------------------------------------
(* Checks, under the lock                                                    *)

(* Variant for mutation: nobody waits for the lock of the company.           *)
NoLock(w) == TRUE

LockFree(w) == \A v \in Workers \ {w} : ~HasCompany(v)

(* The proposed tree: a new layer has no id yet, 0 stands for it.            *)
Proposed(l, parent) == [k \in Existing \cup {l} |-> IF k = l THEN parent ELSE layer[k].parent]

(* Variant for mutation: only the path of the saved layer is walked.         *)
OwnPathEnds(l, parent) == EndsInTime(Proposed(l, parent), l)

TreeEnds(l, parent) == \A start \in Existing \cup {l} : EndsInTime(Proposed(l, parent), start)

ParentFits(parent) == parent # None => parent \in Existing /\ layer[parent].mode = "group"

LayerSeen(op, seen) == op.layer \in Existing /\ layer[op.layer].version = seen.layer.version

CreatePermitted(op) ==
  /\ Cardinality(Existing) < MaxLayers
  /\ ParentFits(op.parent) /\ TreeEnds(0, op.parent)

SavePermitted(op, seen) ==
  /\ LayerSeen(op, seen) /\ layer[op.layer].mode = op.mode
  /\ ParentFits(op.parent) /\ TreeEnds(op.layer, op.parent)

(* Houses have no version; a marker or a line always names its own.          *)
PassportPermitted(op, seen) ==
  /\ op.target \in There
  /\ op.target \in Houses => op.text = None
  /\ op.target \notin Houses => object[op.target].version = seen.object.version
  /\ passport[op.target].version = seen.passport.version

(* check_version lets a request through that names no version.               *)
ObjectSeen(op, seen) ==
  op.target \in There /\ (op.versioned => object[op.target].version = seen.object.version)

Permitted(op, seen) ==
  CASE op.kind = "create" -> CreatePermitted(op)
    [] op.kind = "save" -> SavePermitted(op, seen)
    [] op.kind \in {"delete", "move"} -> LayerSeen(op, seen)
    [] op.kind = "member" ->
         LayerSeen(op, seen) /\ layer[op.layer].mode = "manual" /\ op.target \in There
    [] op.kind = "prefer" -> preference[op.user].version = seen.preference.version
    [] op.kind = "passport" -> PassportPermitted(op, seen)
    [] OTHER -> ObjectSeen(op, seen)

(* The rows a request is going to write, computed from what it has read.     *)
(* Every column is overwritten, the sort order with the default of the body. *)
SavedRows(op) ==
  [NoRows EXCEPT ![op.layer] =
     [mode |-> op.mode, parent |-> op.parent, text |-> op.text, order |-> 0,
      version |-> layer[op.layer].version + 1]]

(* A new row gets its id, and its version 1, when it is inserted.            *)
CreatedRows(op) ==
  [NoRows EXCEPT ![0] =
     [mode |-> op.mode, parent |-> op.parent, text |-> op.text, order |-> 0, version |-> 1]]

(* One step among the siblings; they are numbered again, in tens.            *)
MovedRows(op) ==
  LET siblings == {k \in Existing : layer[k].parent = layer[op.layer].parent}
      from == Position(op.layer, siblings)
      to == from + op.direction
      after == [k \in siblings |->
        IF k = op.layer THEN to ELSE IF Position(k, siblings) = to THEN from ELSE Position(k, siblings)]
      changed == {k \in siblings : k = op.layer \/ layer[k].order # after[k]}
  IN  IF to \in 0..Cardinality(siblings) - 1
      THEN [k \in Layers \cup {0} |->
              IF k \in changed THEN [layer[k] EXCEPT !.order = after[k], !.version = @ + 1] ELSE NoLayer]
      ELSE NoRows

Rows(op) ==
  CASE op.kind = "create" -> CreatedRows(op)
    [] op.kind = "save" -> SavedRows(op)
    [] op.kind = "move" -> MovedRows(op)
    [] op.kind \in {"delete", "member"} -> [NoRows EXCEPT ![op.layer] = layer[op.layer]]
    [] OTHER -> NoRows

(* What an update leaves out it takes from the row as first read.            *)
HouseToSave(op) == IF op.present THEN op.house ELSE object[op.target].house

TargetOf(op) ==
  CASE op.kind = "member" -> Canonical(op.target)
    [] op.kind = "update" -> HouseToSave(op)
    [] OTHER -> op.target

(* The handler gets the lock, reads and checks. A passport, and what is to   *)
(* be erased, is compared once its row is locked; a marker to be updated is  *)
(* compared, and copied, before.                                             *)
Begin(w) ==
  LET op == Op(w)
  IN  /\ At(w, "open") /\ LockFree(w) /\ Permitted(op, Seen(w))
      /\ Become(w, [req[w] EXCEPT
           !.pc = "locked", !.rows = Rows(op), !.target = TargetOf(op),
           !.existing = op.kind = "member" /\ <<op.layer, TargetOf(op)>> \in member])
      /\ UNCHANGED <<tables, requests>>

Refuse(w) ==
  /\ At(w, "open") /\ LockFree(w) /\ ~Permitted(Op(w), Seen(w))
  /\ Become(w, Idle)
  /\ UNCHANGED <<tables, requests>>

(* The marker that represents the house so far.                              *)
Displaced(r) ==
  {m \in Markers \ {r.op.target} : r.target # None /\ object[m].house = r.target}

Rebinds(r) == object[r.op.target].house \notin {None, r.target} /\ r.target # None

(* The house must be there. The version is not compared again, but for the   *)
(* token of a client that rebinds the marker or displaces another: it covers *)
(* the marker as the client has seen it.                                     *)
RowsPermit(r) ==
  /\ r.target \in There \cup {None}
  /\ Rebinds(r) \/ Displaced(r) # {} =>
       object[r.op.target].version = r.seen.object.version

(* lock_buildings, then the row of the marker. One action: who demolishes a  *)
(* house has its row first, so nothing happens to the marker between the two.*)
LockRows(w) ==
  LET r == req[w]
  IN  /\ At(w, "locked") /\ Op(w).kind = "update"
      /\ \/ RowsPermit(r) /\ Become(w, [r EXCEPT !.pc = "rows"])
         \/ ~RowsPermit(r) /\ Become(w, Idle)
      /\ UNCHANGED <<tables, requests>>

-----------------------------------------------------------------------------
(* Commits *)

Commits(w, kinds) ==
  /\ At(w, "locked") /\ Op(w).kind \in kinds
  /\ Become(w, Idle)
  /\ UNCHANGED requests

WriteRows(w) ==
  /\ Commits(w, {"save", "move"})
  /\ layer' = [l \in Layers |-> IF req[w].rows[l] # NoLayer THEN req[w].rows[l] ELSE layer[l]]
  /\ UNCHANGED <<member, object, passport, preference>>

InsertLayer(w) ==
  /\ Commits(w, {"create"}) /\ Unused # {}
  /\ layer' = [layer EXCEPT ![NextLayer] = req[w].rows[0]]
  /\ UNCHANGED <<member, object, passport, preference>>

(* Variant for mutation: the versions of the children stay what they were.   *)
LiftUnseen(l, parent) ==
  [k \in Layers |->
     IF k = l THEN Deleted
     ELSE IF k \in Children(l) THEN [layer[k] EXCEPT !.parent = parent] ELSE layer[k]]

(* The children survive under their grandparent.                             *)
Lift(l, parent) ==
  [k \in Layers |->
     IF k = l THEN Deleted
     ELSE IF k \in Children(l) THEN [layer[k] EXCEPT !.parent = parent, !.version = @ + 1]
     ELSE layer[k]]

DeleteLayer(w) ==
  LET l == Op(w).layer
  IN  /\ Commits(w, {"delete"})
      /\ layer' = Lift(l, req[w].rows[l].parent)
      /\ member' = {lt \in member : lt[1] # l}
      /\ UNCHANGED <<object, passport, preference>>

Adds(w) == Op(w).present /\ ~req[w].existing
Removes(w) == ~Op(w).present /\ req[w].existing

(* The version grows even if the member was there already, or was not.       *)
SetMembership(w) ==
  LET l == Op(w).layer
      pair == {<<l, req[w].target>>}
  IN  /\ Commits(w, {"member"})
      /\ Adds(w) => req[w].target \in There
      /\ member' = (member \cup IF Adds(w) THEN pair ELSE {}) \ IF Removes(w) THEN pair ELSE {}
      /\ layer' = [layer EXCEPT ![l].version = req[w].rows[l].version + 1]
      /\ UNCHANGED <<object, passport, preference>>

(* The house went away meanwhile: the foreign key refuses the member.        *)
MembershipChanged(w) ==
  /\ Commits(w, {"member"})
  /\ Adds(w) /\ req[w].target \notin There
  /\ UNCHANGED tables

(* normalized_settings: only layers that are there, and no groups.           *)
SavePreferences(w) ==
  LET u == Op(w).user
  IN  /\ Commits(w, {"prefer"})
      /\ preference' = [preference EXCEPT ![u] =
           [shown |-> {l \in Op(w).shown \cap Existing : layer[l].mode # "group"}, version |-> @.version + 1]]
      /\ UNCHANGED <<layer, member, object, passport>>

(* An empty text is none: the object keeps what it has.                      *)
NewText(t, x) == IF x = None THEN object[t].text ELSE x

WithText(t, x) ==
  [object EXCEPT ![t] = [object[t] EXCEPT !.text = NewText(t, x), !.version = @ + 1]]

(* The name and the description are those of the object itself.              *)
SavePassport(w) ==
  LET t == Op(w).target
  IN  /\ Commits(w, {"passport"})
      /\ passport' = [passport EXCEPT ![t] = [data |-> Op(w).data, version |-> @.version + 1]]
      /\ object' = IF t \in Houses THEN object ELSE WithText(t, Op(w).text)
      /\ UNCHANGED <<layer, member, preference>>

(* update_marker: the marker that represented the house so far is displaced. *)
UpdateMarker(w) ==
  LET r == req[w]
  IN  /\ At(w, "rows") /\ Become(w, Idle)
      /\ object' = [t \in Targets |->
           IF t = r.op.target
           THEN [object[t] EXCEPT !.text = r.op.text, !.house = r.target, !.version = @ + 1]
           ELSE IF t \in Displaced(r) THEN [object[t] EXCEPT !.house = None, !.version = @ + 1]
           ELSE object[t]]
      /\ UNCHANGED <<layer, member, passport, preference, requests>>

NewIds(S) == {t \in S : object[t].state = "unused"}

(* inherit_route_layers                                                      *)
Inherited(c, m, tail) ==
  {<<l, t>> : l \in {k \in Layers : <<k, c>> \in member}, t \in {m, tail} \ {None}}

(* split_connection, or place_route_object when there is no second part.     *)
SplitConnection(w) ==
  LET c == Op(w).target
  IN  /\ Commits(w, {"split"})
      /\ \E m \in NewIds(Markers), tail \in IF Op(w).present THEN NewIds(Lines) ELSE {None} :
           /\ object' = [t \in Targets |->
                IF t = c THEN [object[c] EXCEPT !.version = @ + 1]
                ELSE IF t \in {m, tail} THEN [object[c] EXCEPT !.version = 1]
                ELSE object[t]]
           /\ member' = member \cup Inherited(c, m, tail)
      /\ layer' = [l \in Layers |->
           IF <<l, c>> \in member THEN [layer[l] EXCEPT !.version = @ + 1] ELSE layer[l]]
      /\ UNCHANGED <<passport, preference>>

(* Members and passports go with their object.                               *)
Without(t) ==
  /\ member' = {lt \in member : lt[2] # t}
  /\ passport' = [passport EXCEPT ![t] = NoPassport]
  /\ UNCHANGED <<layer, preference>>

(* delete_marker, delete_connection                                          *)
EraseObject(w) ==
  /\ Commits(w, {"erase"})
  /\ object' = [object EXCEPT ![Op(w).target] = Erased]
  /\ Without(Op(w).target)

(* Rows of houses and markers a handler has locked besides the company.      *)
RowsOf(w) ==
  CASE At(w, "rows") -> {Op(w).target, req[w].target}
    [] At(w, "locked") /\ Op(w).kind \in {"passport", "erase"} -> {Op(w).target}
    [] OTHER -> {}

(* delete_building: the markers that represented the house stay behind.      *)
Demolish(h) ==
  LET left == {m \in Markers : object[m].house = h}
  IN  /\ h \in There
      /\ \A w \in Workers : RowsOf(w) \cap (left \cup {h}) = {}
      /\ object' = [t \in Targets |->
           IF t = h THEN Erased
           ELSE IF t \in left THEN [object[t] EXCEPT !.house = None, !.version = @ + 1] ELSE object[t]]
      /\ Without(h)
      /\ UNCHANGED <<req, requests>>

(* The client turns away, or its request is cut off and rolled back.         *)
CutOff(w) ==
  /\ ~At(w, "idle")
  /\ Become(w, Idle)
  /\ UNCHANGED <<tables, requests>>

Init ==
  /\ layer = [l \in Layers |-> NoLayer]
  /\ member = {}
  /\ object \in [Targets -> {NoObject, [NoObject EXCEPT !.state = "there", !.version = 1]}]
  /\ passport = [t \in Targets |-> NoPassport]
  /\ preference = [u \in Users |-> NoPreference]
  /\ req = [w \in Workers |-> Idle]
  /\ requests = 0

Next ==
  \/ \E w \in Workers :
       \/ AskLayer(w) \/ AskObject(w) \/ AskPreference(w)
       \/ Begin(w) \/ Refuse(w) \/ LockRows(w) \/ CutOff(w)
       \/ WriteRows(w) \/ InsertLayer(w) \/ DeleteLayer(w)
       \/ SetMembership(w) \/ MembershipChanged(w)
       \/ SavePreferences(w) \/ SavePassport(w)
       \/ UpdateMarker(w) \/ SplitConnection(w) \/ EraseObject(w)
  \/ \E h \in Houses : Demolish(h)

Spec == Init /\ [][Next]_vars

-----------------------------------------------------------------------------
(* Properties *)

TablesOK ==
  /\ layer \in [Layers -> LayerRows]
  /\ member \subseteq Layers \X Targets
  /\ object \in [Targets -> ObjectRows]
  /\ passport \in [Targets -> PassportRows]
  /\ preference \in [Users -> PreferenceRows]

TypeOK == TablesOK /\ req \in [Workers -> Requests] /\ requests \in Nat

(* Part: the tree of layers.                                                 *)
TreeSound ==
  /\ Cardinality(Existing) <= MaxLayers
  /\ \A l \in Existing : ParentFits(layer[l].parent)
  /\ \A l \in Existing : EndsInTime(Parents, l)

(* Part: only manual layers have members, and only what is on the map.       *)
MembersSound ==
  \A l \in Layers : Members(l) # {} => layer[l].mode = "manual" /\ Members(l) \subseteq There

(* The layers of a company are a forest of at most MAX_DEPTH levels whose    *)
(* inner nodes are groups, at most MAX_LAYERS of them, and only manual       *)
(* layers have members, all of which are still on the map: whatever the      *)
(* order of saves, moves, deletions that lift children, splits that copy     *)
(* members and demolitions that take them away.                              *)
LayersSound == TypeOK /\ TreeSound /\ MembersSound

(* A filter that names a group finds every layer below it: the rounds of     *)
(* map_predicates are enough for any tree that saves, moves and deletions    *)
(* can leave.                                                                *)
ExpansionComplete ==
  \A l \in Existing : \A k \in Existing :
    layer[k].parent \in Expanded({l}) => k \in Expanded({l})

Content(l) == [layer[l] EXCEPT !.version = 0]
Text(t) == <<[object[t] EXCEPT !.version = 0], passport[t].data>>

(* A version names one content for good: what a layer is, where it stands    *)
(* and what it holds (but for objects that are gone), what an object and its *)
(* passport say and what a user shows never change under the same version,   *)
(* and versions never come back, so that a client with an old copy can       *)
(* always be told from one with the current copy.                            *)
VersionsNameContent ==
  [][/\ \A l \in Existing \cap Existing' :
          \/ /\ Content(l)' = Content(l) /\ Members(l)' = Members(l) \cap There'
             /\ layer'[l].version >= layer[l].version
          \/ layer'[l].version > layer[l].version
     /\ \A t \in (There \cap There') \ Houses :
          Text(t)' = Text(t) \/ object'[t].version > object[t].version
     /\ \A t \in There \cap There' :
          passport'[t] = passport[t] \/ passport'[t].version > passport[t].version
     /\ \A u \in Users :
          preference'[u] = preference[u] \/ preference'[u].version > preference[u].version
    ]_vars

(* The store of OptimisticStore: members are left out, they are not part of  *)
(* what a client loads with a layer.                                         *)
Records == Layers \cup Targets \cup Users
Empty == [body |-> <<>>, place |-> None]
Lost == [body |-> <<None>>, place |-> None]

LayerRecord(row) ==
  CASE row.mode = "unused" -> Empty
    [] row.mode = "deleted" -> Lost
    [] OTHER -> [body |-> <<row.mode, row.text>>, place |-> <<row.parent, row.order>>]

ObjectRecord(row, pass) ==
  CASE row.state = "unused" -> Empty
    [] row.state = "gone" -> Lost
    [] OTHER -> [body |-> <<row.text, pass.data>>, place |-> <<row.house>>]

PreferenceRecord(row) == [body |-> <<"shown", row.shown>>, place |-> None]

Stored == [r \in Records |->
  IF r \in Layers THEN LayerRecord(layer[r])
  ELSE IF r \in Users THEN PreferenceRecord(preference[r])
  ELSE ObjectRecord(object[r], passport[r])]

(* A versioned update that has passed its check takes the house of the       *)
(* marker as it finds it.                                                    *)
SeenObject(w) ==
  IF HasCompany(w) /\ Op(w).kind = "update" /\ Op(w).versioned
  THEN [Seen(w).object EXCEPT !.house = object[Op(w).target].house] ELSE Seen(w).object

Copied(w) ==
  LET op == Op(w)
      s == Seen(w)
      Copy(r, seen) == [record |-> r, seen |-> seen, blind |-> ~op.versioned]
  IN  IF op.layer # None THEN Copy(op.layer, LayerRecord(s.layer))
      ELSE IF op.user # None THEN Copy(op.user, PreferenceRecord(s.preference))
      ELSE IF op.target # None THEN Copy(op.target, ObjectRecord(SeenObject(w), s.passport))
      ELSE Copy(None, Empty)

Contract == INSTANCE OptimisticStore WITH
  Clients <- Workers, Shared <- Houses,
  store <- Stored, copy <- [w \in Workers |-> Copied(w)]

(* Layers, passports, the texts of markers and lines, and settings are saved *)
(* only over the copy the client was looking at, unless the client names no  *)
(* version; whatever a save, a lift, a move of neighbours, a split or a      *)
(* demolition does to other records, it does not touch what they say. The    *)
(* exception is what the code leaves open: the house of a marker may be      *)
(* demolished between the comparison of the marker's version and the lock of *)
(* its row. The update is then saved over a marker that is at no house,      *)
(* which the client has not seen; what the marker says is still what the     *)
(* client saw.                                                               *)
ImplementsStore == Contract!Spec
-----------------------------------------------------------------------------
(* The inductive invariant                                                   *)

(* Rows that are not there say nothing, rows that are have a version, and    *)
(* only a marker represents a house.                                         *)
RowsSound ==
  /\ \A l \in Layers \ Existing : layer[l] \in {NoLayer, Deleted}
  /\ \A l \in Existing : layer[l].version > 0
  /\ \A t \in Targets \ There : object[t] \in {NoObject, Erased}
  /\ \A t \in There : object[t].version > 0
  /\ \A t \in Targets \ Markers : object[t].house = None

(* What a request asks for has the shape of its kind.                        *)
AsksWell(op) ==
  /\ op.kind \in Kinds
  /\ op.kind \in {"save", "delete", "move", "member"} <=> op.layer # None
  /\ op.kind \in {"member", "passport", "update", "split", "erase"} <=> op.target # None
  /\ op.kind = "prefer" <=> op.user # None
  /\ op.kind \in {"create", "save"} => op.mode \in Modes /\ op.text \in Texts
  /\ op.kind = "passport" => op.data \in Texts
  /\ op.kind = "update" => op.target \in Markers /\ op.text \in Texts
  /\ ~op.versioned => op.kind \in {"update", "erase"}
  /\ op.kind = "split" => op.target \in Lines
  /\ op.kind = "erase" => op.target \notin Houses

(* A row is what it was, or has a later version.                             *)
Since(old, new) == new = old \/ old.version < new.version

(* A client that sees the version it saw sees what it saw, and the version   *)
(* of a marker or a line stands for its passport too. Houses have no         *)
(* version, but what is said of them here is for good.                       *)
Remembers(r) ==
  LET op == r.op
      t == op.target
  IN  /\ op.layer # None =>
           /\ layer[op.layer].mode # "unused"
           /\ op.layer \in Existing => Since(r.seen.layer, layer[op.layer])
      /\ t # None =>
           /\ object[t].state # "unused"
           /\ t \in There /\ t \in Houses => object[t] = r.seen.object
           /\ t \in There /\ t \notin Houses => Since(r.seen.object, object[t])
           /\ t \in There => Since(r.seen.passport, passport[t])
           /\ t \in There \ Houses /\ object[t] = r.seen.object => passport[t] = r.seen.passport
      /\ op.user # None => Since(r.seen.preference, preference[op.user])

(* An update that named a version finds the marker saying what it said, but  *)
(* perhaps at no house any more. The house to save is there once its row is  *)
(* locked.                                                                   *)
UpdateHolds(r) ==
  LET t == r.op.target
  IN  /\ t \in There /\ r.target \in Houses \cup {None}
      /\ r.op.versioned =>
           /\ r.seen.object.state = "there" /\ r.seen.object.text = object[t].text
           /\ r.seen.passport = passport[t]
      /\ r.pc = "rows" => r.target \in There \cup {None}

(* Under the lock, what was permitted is permitted still, though the house   *)
(* that a member stands for, or that a marker was at, may have gone.         *)
StillPermits(r) ==
  /\ r.rows = Rows(r.op)
  /\ r.pc = "rows" => r.op.kind = "update"
  /\ CASE r.op.kind = "member" ->
            /\ LayerSeen(r.op, r.seen) /\ layer[r.op.layer].mode = "manual"
            /\ r.target \in Targets
       [] r.op.kind = "update" -> UpdateHolds(r)
       [] OTHER -> Permitted(r.op, r.seen)

RequestOK(w) ==
  ~At(w, "idle") =>
    /\ AsksWell(Op(w)) /\ Remembers(req[w])
    /\ HasCompany(w) => StillPermits(req[w])

(* The inductive invariant behind LayersSound, ExpansionComplete,            *)
(* VersionsNameContent and ImplementsStore.                                  *)
WorkspaceInductive ==
  /\ LayersSound /\ RowsSound
  /\ \A w \in Workers : RequestOK(w) /\ (At(w, "idle") => req[w] = Idle)
  /\ \A v, w \in Workers : v # w => ~(HasCompany(v) /\ HasCompany(w))
=============================================================================
