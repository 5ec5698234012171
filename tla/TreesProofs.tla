---------------------------- MODULE TreesProofs ----------------------------
(***************************************************************************)
(* Two trees that requests move things in without a lock: the units of a   *)
(* company (OrganizationalUnits, UnitsSpec) and the address objects that   *)
(* all companies share (Addresses, Spec), for any number of rows and       *)
(* requests. What they share is in Handlers. What is below a row is a      *)
(* least closed set in both, so each fact about it names a closed set.     *)
(*                                                                         *)
(* Units. They are a forest until a request has committed a decision that  *)
(* another commit had overtaken, and a scoped move keeps the tree of its   *)
(* requester: the rows a walk has not met are closed and contain the unit, *)
(* hence its subtree.                                                      *)
(*                                                                         *)
(* Addresses. The rules of the hierarchy are broken only by overlaps,      *)
(* locked deletions are final, locations keep an entrance of their         *)
(* building, and cycles stay. The argument: a request that nobody overtook *)
(* writes what it validated (Current), locked rows are apart (LocksApart), *)
(* so nothing comes below a row that is about to be deleted; and a write   *)
(* of one row leaves every cycle without that row as it was (CycleKept),   *)
(* which is why each cycle keeps the overtaken request that closed it.     *)
(***************************************************************************)
EXTENDS OrganizationalUnits, Addresses, TLAPS

-----------------------------------------------------------------------------
(* Units *)

(* A worker without a request.                                               *)
LEMMA UnitIdleRequest == UnitIdle \in UnitRequests
  BY DEF UnitIdle, UnitRequests, Pcs, Scopes

(* S holds the children of its members.                                      *)
ClosedTree(S) == S \subseteq exists /\ \A d \in exists : parent[d] \in S => d \in S

(* A subtree is the least closed set with its unit.                          *)
LEMMA SubtreeLeast ==
  ASSUME NEW u \in exists
  PROVE  /\ ClosedTree(Subtree(u))
         /\ u \in Subtree(u)
         /\ \A S : ClosedTree(S) /\ u \in S => Subtree(u) \subseteq S
<1>1. Subtree(u) \subseteq exists /\ u \in Subtree(u)
  BY DEF Subtree
<1>2. \A S : ClosedTree(S) /\ u \in S => Subtree(u) \subseteq S
  BY DEF Subtree, ClosedTree
<1>3. ASSUME NEW d \in exists, parent[d] \in Subtree(u)
      PROVE  d \in Subtree(u)
  <2>1. ASSUME NEW S \in SUBSET exists, u \in S, \A e \in exists : parent[e] \in S => e \in S
        PROVE  d \in S
    <3>1. parent[d] \in S
      BY <1>3, <2>1 DEF Subtree
    <3> QED
      BY <1>3, <2>1, <3>1
  <2> QED
    BY <1>3, <2>1 DEF Subtree
<1> QED
  BY <1>1, <1>2, <1>3 DEF ClosedTree

(* The same after a step.                                                    *)
LEMMA SubtreeLeastNext ==
  ASSUME NEW u \in exists'
  PROVE  /\ ClosedTree(Subtree(u))'
         /\ u \in Subtree(u)'
         /\ \A S : (S \subseteq exists' /\ (\A d \in exists' : parent'[d] \in S => d \in S) /\ u \in S)
              => Subtree(u)' \subseteq S
<1>1. Subtree(u)' \subseteq exists' /\ u \in Subtree(u)'
  BY DEF Subtree
<1>2. \A S : (S \subseteq exists' /\ (\A d \in exists' : parent'[d] \in S => d \in S) /\ u \in S)
        => Subtree(u)' \subseteq S
  BY DEF Subtree
<1>3. ASSUME NEW d \in exists', parent'[d] \in Subtree(u)'
      PROVE  d \in Subtree(u)'
  <2>1. ASSUME NEW S \in SUBSET exists', u \in S, \A e \in exists' : parent'[e] \in S => e \in S
        PROVE  d \in S
    <3>1. parent'[d] \in S
      BY <1>3, <2>1 DEF Subtree
    <3> QED
      BY <1>3, <2>1, <3>1
  <2> QED
    BY <1>3, <2>1 DEF Subtree
<1> QED
  BY <1>1, <1>2, <1>3 DEF ClosedTree

(* A statement that commits nothing.                                         *)
LEMMA BecomeStep ==
  ASSUME TreeInductive, NEW w \in Workers, NEW r \in UnitRequests, Proceed(w, r),
         r.visited \subseteq exists,
         {r.parent, r.home} \subseteq exists \cup {None},
         r.scope # "company" => r.home \in exists,
         r.pc \in {"walk", "move"} => r.unit \in exists,
         r.pc = "walk" => r.at \in exists /\ r.parent \in exists,
         r.pc = "hung" => racedOnce,
         Faithful(w)'
  PROVE  TreeInductive'
<1>1. UnitsTypeOK /\ UNCHANGED <<exists, parent, racedOnce>> /\ req' = [req EXCEPT ![w] = r]
  BY DEF TreeInductive, Proceed
<1>2. req'[w] = r /\ (\A v \in Workers \ {w} : req'[v] = req[v]) /\ req' \in [Workers -> UnitRequests]
  BY <1>1 DEF UnitsTypeOK
<1>3. UnitsTypeOK'
  BY <1>1, <1>2 DEF UnitsTypeOK
<1>4. \A u : Subtree(u)' = Subtree(u)
  BY <1>1 DEF Subtree
<1>5. CyclesOnlyAfterOverlap'
  <2>1. Acyclic' = Acyclic
    BY <1>1, <1>4 DEF Acyclic, UnitOnCycle
  <2> QED
    BY <1>1, <1>2, <2>1 DEF TreeInductive, CyclesOnlyAfterOverlap, At
<1>6. ASSUME NEW v \in Workers \ {w}
      PROVE  Faithful(v)'
  <2>1. Faithful(v) /\ req'[v] = req[v]
    BY <1>2 DEF TreeInductive
  <2>2. \A s, h : Reach(s, h)' = Reach(s, h)
    BY <1>1, <1>4 DEF Reach
  <2> QED
    BY <1>1, <1>4, <2>1, <2>2 DEF Faithful
<1> QED
  BY <1>3, <1>5, <1>6 DEF TreeInductive

(* A refusal or a rollback.                                                  *)
LEMMA IdleStep ==
  ASSUME TreeInductive, NEW w \in Workers, Proceed(w, UnitIdle)
  PROVE  TreeInductive'
<1>1. req'[w] = UnitIdle
  BY DEF TreeInductive, UnitsTypeOK, Proceed
<1>2. Faithful(w)'
  BY <1>1 DEF Faithful, UnitIdle
<1> QED
  BY <1>2, UnitIdleRequest, BecomeStep DEF UnitIdle

(* The end of a request, seen from the requests: the others are overtaken.   *)
LEMMA UnitCommitRequests ==
  ASSUME TreeInductive, NEW w \in Workers, Commit(w),
         exists \subseteq exists', exists' \in SUBSET Units,
         parent' \in [Units -> exists' \cup {None}],
         ~racedOnce /\ ~req[w].overtaken => Acyclic'
  PROVE  TreeInductive'
<1>1. UnitsTypeOK
  BY DEF TreeInductive
<1>2. req' = [v \in Workers |-> IF v = w THEN UnitIdle
                              ELSE [req[v] EXCEPT !.overtaken = req[v].pc # "idle"]]
      /\ racedOnce' = (racedOnce \/ req[w].overtaken)
  BY DEF Commit
<1>3. req'[w] = UnitIdle
  BY <1>2
<1>4. ASSUME NEW v \in Workers \ {w}
      PROVE  /\ req'[v] \in UnitRequests
             /\ req'[v].pc = req[v].pc /\ req'[v].unit = req[v].unit /\ req'[v].at = req[v].at
             /\ req'[v].parent = req[v].parent /\ req'[v].visited = req[v].visited
             /\ req'[v].home = req[v].home /\ req'[v].scope = req[v].scope
             /\ req'[v].pc # "idle" => req'[v].overtaken
  <2> DEFINE r == [req[v] EXCEPT !.overtaken = req[v].pc # "idle"]
  <2>1. req'[v] = r
    BY <1>2, <1>4
  <2>2. req[v] \in UnitRequests
    BY <1>1, <1>4 DEF UnitsTypeOK
  <2>3. /\ r.pc = req[v].pc /\ r.unit = req[v].unit /\ r.at = req[v].at
        /\ r.parent = req[v].parent /\ r.visited = req[v].visited
        /\ r.home = req[v].home /\ r.scope = req[v].scope
        /\ (r.pc # "idle" => r.overtaken) /\ r \in UnitRequests
    BY <2>2 DEF UnitRequests
  <2> HIDE DEF r
  <2> QED
    BY <2>1, <2>3
<1>5. UnitsTypeOK'
  <2>1. \A v \in Workers : req'[v] \in UnitRequests
    BY <1>3, <1>4, UnitIdleRequest
  <2>2. req' \in [Workers -> UnitRequests]
    BY <1>2, <2>1
  <2>3. racedOnce' \in BOOLEAN
    BY <1>1, <1>2 DEF UnitsTypeOK, UnitRequests
  <2>4. \A v \in Workers :
          /\ req'[v].visited \subseteq exists'
          /\ {req'[v].parent, req'[v].home} \subseteq exists' \cup {None}
          /\ req'[v].scope # "company" => req'[v].home \in exists'
          /\ req'[v].pc \in {"walk", "move"} => req'[v].unit \in exists'
          /\ req'[v].pc = "walk" => req'[v].at \in exists' /\ req'[v].parent \in exists'
    <3>1. ASSUME NEW v \in Workers \ {w}
          PROVE  /\ req[v].visited \subseteq exists
                 /\ {req[v].parent, req[v].home} \subseteq exists \cup {None}
                 /\ req[v].scope # "company" => req[v].home \in exists
                 /\ req[v].pc \in {"walk", "move"} => req[v].unit \in exists
                 /\ req[v].pc = "walk" => req[v].at \in exists /\ req[v].parent \in exists
      BY <1>1 DEF UnitsTypeOK
    <3> QED
      BY <1>3, <1>4, <3>1 DEF UnitIdle
  <2> QED
    BY <2>2, <2>3, <2>4 DEF UnitsTypeOK
<1>6. CyclesOnlyAfterOverlap'
  <2>1. ~racedOnce' => ~racedOnce /\ ~req[w].overtaken
    BY <1>2
  <2>2. ~racedOnce => \A v \in Workers : req[v].pc # "hung"
    BY DEF TreeInductive, CyclesOnlyAfterOverlap, At
  <2>3. ~racedOnce => \A v \in Workers : req'[v].pc # "hung"
    BY <1>3, <1>4, <2>2 DEF UnitIdle
  <2> QED
    BY <2>1, <2>3 DEF CyclesOnlyAfterOverlap, At
<1>7. ASSUME NEW v \in Workers
      PROVE  Faithful(v)'
  <2>1. req'[v].pc = "idle" \/ req'[v].overtaken
    BY <1>3, <1>4 DEF UnitIdle
  <2> QED
    BY <2>1 DEF Faithful
<1> QED
  BY <1>5, <1>6, <1>7 DEF TreeInductive

(* The steps of a request but the commits.                                   *)
LEMMA RequestStep ==
  ASSUME TreeInductive, NEW w \in Workers,
         \/ \E home \in exists : HangOnTree(w, home)
         \/ \E scope \in Scopes, home \in exists \cup {None} :
              (scope # "company" => home \in exists) /\ Begin(w, scope, home)
         \/ Walk(w)
         \/ UnitCutOff(w)
  PROVE  TreeInductive'
<1> DEFINE c == req[w]
<1>1. UnitsTypeOK /\ Faithful(w) /\ c \in UnitRequests /\ exists \subseteq Units
  BY DEF TreeInductive, UnitsTypeOK
<1>2. \A r : Proceed(w, r) => UNCHANGED <<exists, parent, racedOnce>> /\ req'[w] = r
  BY <1>1 DEF Proceed, UnitsTypeOK
<1>3. ASSUME NEW home \in exists, HangOnTree(w, home)
      PROVE  TreeInductive'
  <2> DEFINE r == [UnitIdle EXCEPT !.pc = "hung", !.scope = "own tree", !.home = home]
  <2>1. Proceed(w, r) /\ UnitOnCycle(home)
    BY <1>3 DEF HangOnTree, Answers
  <2>2. r \in UnitRequests
    BY <1>1, UnitIdleRequest DEF UnitRequests, Pcs, Scopes
  <2>3. /\ r.pc = "hung" /\ r.scope = "own tree" /\ r.home = home /\ r.visited = {}
        /\ r.parent = None
    BY DEF UnitIdle
  <2> HIDE DEF r
  <2>4. racedOnce
    BY <2>1 DEF TreeInductive, CyclesOnlyAfterOverlap, Acyclic
  <2>5. Faithful(w)'
    BY <1>2, <2>1, <2>3 DEF Faithful
  <2> QED
    BY <2>1, <2>2, <2>3, <2>4, <2>5, BecomeStep
<1>4. ASSUME NEW scope \in Scopes, NEW home \in exists \cup {None}, scope # "company" => home \in exists,
             NEW p \in exists \cup {None}, CreateRead(w, scope, home, p)
      PROVE  TreeInductive'
  <2> DEFINE r == [UnitIdle EXCEPT !.pc = "create", !.scope = scope, !.home = home, !.parent = p]
  <2>1. Proceed(w, r) /\ scope # "own unit" /\ (scope # "company" => p \in Subtree(home))
    BY <1>4 DEF CreateRead, Reach, Scopes
  <2>2. r \in UnitRequests
    BY <1>1, UnitIdleRequest DEF UnitRequests, Pcs, Scopes
  <2>3. /\ r.pc = "create" /\ r.scope = scope /\ r.home = home /\ r.parent = p /\ r.visited = {}
    BY DEF UnitIdle
  <2> HIDE DEF r
  <2>4. Subtree(home)' = Subtree(home)
    BY <1>2, <2>1 DEF Subtree
  <2>5. Faithful(w)'
    BY <1>2, <2>1, <2>3, <2>4 DEF Faithful
  <2> QED
    BY <1>4, <2>1, <2>2, <2>3, <2>5, BecomeStep
<1>5. ASSUME NEW scope \in Scopes, NEW home \in exists \cup {None}, scope # "company" => home \in exists,
             NEW u \in exists, NEW p \in exists \cup {None}, MoveRead(w, scope, home, u, p)
      PROVE  TreeInductive'
  <2> DEFINE pc == IF p = None THEN "move" ELSE "walk"
             r == [UnitIdle EXCEPT !.pc = pc, !.scope = scope, !.home = home, !.unit = u, !.parent = p, !.at = p]
  <2>1. Proceed(w, r) /\ MayMove(scope, home, u, p) /\ p # u
    BY <1>5 DEF MoveRead
  <2>2. scope # "company" => {u, p} \subseteq Reach(scope, home) /\ p # None
    BY <2>1 DEF MayMove
  <2>3. pc \in {"move", "walk"} /\ (pc = "walk" => p \in exists) /\ (pc = "move" => p = None)
    OBVIOUS
  <2> HIDE DEF pc
  <2>4. r \in UnitRequests
    BY <1>1, <2>3, UnitIdleRequest DEF UnitRequests, Pcs, Scopes
  <2>5. /\ r.pc = pc /\ r.scope = scope /\ r.home = home /\ r.parent = p /\ r.visited = {}
        /\ r.unit = u /\ r.at = p
    BY DEF UnitIdle
  <2> HIDE DEF r
  <2>6. Reach(scope, home)' = Reach(scope, home)
    BY <1>2, <2>1 DEF Reach, Subtree
  <2>7. Faithful(w)'
    BY <1>2, <2>1, <2>2, <2>3, <2>5, <2>6 DEF Faithful
  <2> QED
    BY <1>5, <2>1, <2>3, <2>4, <2>5, <2>7, BecomeStep
<1>6. ASSUME Walk(w), ~Meets(c), parent[c.at] # None, Proceed(w, [c EXCEPT !.at = parent[c.at], !.visited = c.visited \cup {c.at}])
      PROVE  TreeInductive'
  <2> DEFINE r == [c EXCEPT !.at = parent[c.at], !.visited = c.visited \cup {c.at}]
  <2>1. /\ c.pc = "walk" /\ c.at # c.unit /\ c.at \in exists /\ parent[c.at] \in exists
        /\ c.visited \subseteq exists /\ c.unit \in exists /\ c.parent \in exists
        /\ {c.parent, c.home} \subseteq exists \cup {None}
        /\ (c.scope # "company" => c.home \in exists)
    BY <1>1, <1>6 DEF Walk, At, Meets, UnitsTypeOK
  <2>2. r \in UnitRequests
    BY <1>1, <2>1 DEF UnitRequests
  <2>3. /\ r.pc = "walk" /\ r.scope = c.scope /\ r.home = c.home /\ r.parent = c.parent
        /\ r.visited = c.visited \cup {c.at} /\ r.unit = c.unit /\ r.at = parent[c.at]
        /\ r.overtaken = c.overtaken
    BY <1>1, <2>1 DEF UnitRequests
  <2>4. Proceed(w, r)
    BY <1>6
  <2> HIDE DEF r
  <2>5. Reach(c.scope, c.home)' = Reach(c.scope, c.home)
    <3>1. UNCHANGED <<exists, parent>> /\ req'[w] = r
      BY <1>2, <2>4
    <3> QED
      BY <2>3, <3>1 DEF Reach, Subtree
  <2>6. Faithful(w)'
    BY <1>1, <1>2, <2>1, <2>3, <2>4, <2>5 DEF Faithful
  <2> QED
    BY <2>1, <2>2, <2>3, <2>4, <2>6, BecomeStep
<1>7. ASSUME Walk(w), ~Meets(c), parent[c.at] = None, Proceed(w, [c EXCEPT !.pc = "move", !.at = None, !.visited = {}])
      PROVE  TreeInductive'
  <2> DEFINE r == [c EXCEPT !.pc = "move", !.at = None, !.visited = {}]
             S == exists \ (c.visited \cup {c.at})
  <2>1. /\ c.pc = "walk" /\ c.at # c.unit /\ c.at \in exists
        /\ c.visited \subseteq exists /\ c.unit \in exists /\ c.parent \in exists
        /\ {c.parent, c.home} \subseteq exists \cup {None}
        /\ (c.scope # "company" => c.home \in exists)
    BY <1>1, <1>7 DEF Walk, At, Meets, UnitsTypeOK
  <2>2. r \in UnitRequests
    BY <1>1, <2>1 DEF UnitRequests, Pcs
  <2>3. /\ r.pc = "move" /\ r.scope = c.scope /\ r.home = c.home /\ r.parent = c.parent
        /\ r.visited = {} /\ r.unit = c.unit /\ r.overtaken = c.overtaken
    BY <1>1, <2>1 DEF UnitRequests
  <2>4. Proceed(w, r)
    BY <1>7
  <2> HIDE DEF r
  <2>5. ~c.overtaken => c.parent \notin Subtree(c.unit)
    <3> SUFFICES ASSUME ~c.overtaken PROVE c.parent \notin Subtree(c.unit)
      OBVIOUS
    <3>1. /\ c.unit \notin c.visited /\ c.parent \in c.visited \cup {c.at}
          /\ \A u \in c.visited : parent[u] \in c.visited \cup {c.at}
      BY <1>1, <2>1 DEF Faithful
    <3>2. ClosedTree(S)
      BY <1>1, <1>7, <2>1, <3>1, NoneAssumption DEF ClosedTree
    <3>3. c.unit \in S
      BY <2>1, <3>1
    <3>4. Subtree(c.unit) \subseteq S
      BY <2>1, <3>2, <3>3, SubtreeLeast
    <3> QED
      BY <3>1, <3>4
  <2>6. UNCHANGED <<exists, parent>> /\ req'[w] = r
    BY <1>2, <2>4
  <2>7. \A s, h : Reach(s, h)' = Reach(s, h) /\ Subtree(h)' = Subtree(h)
    BY <2>6 DEF Reach, Subtree
  <2>8. Faithful(w)'
    BY <1>1, <2>1, <2>3, <2>5, <2>6, <2>7 DEF Faithful
  <2> QED
    BY <2>1, <2>2, <2>3, <2>4, <2>8, BecomeStep
<1>8. ASSUME Proceed(w, UnitIdle)
      PROVE  TreeInductive'
  BY <1>8, IdleStep
<1> QED
  BY <1>3, <1>4, <1>5, <1>6, <1>7, <1>8 DEF Walk, UnitCutOff, Begin

(* A new unit has no children: it closes no cycle.                           *)
LEMMA CreateStep ==
  ASSUME TreeInductive, NEW w \in Workers, NEW u \in Units, CreateCommit(w, u)
  PROVE  TreeInductive'
<1> DEFINE p == req[w].parent
<1>1. /\ UnitsTypeOK /\ u \notin exists /\ exists' = exists \cup {u}
      /\ parent' = [parent EXCEPT ![u] = p] /\ Commit(w)
  BY DEF TreeInductive, CreateCommit
<1>2. p \in exists \cup {None} /\ p # u /\ u # None
  BY <1>1, NoneAssumption DEF UnitsTypeOK
<1>3. parent'[u] = p /\ \A d \in exists : parent'[d] = parent[d] /\ parent[d] # u
  BY <1>1, <1>2 DEF UnitsTypeOK
<1>4. parent' \in [Units -> exists' \cup {None}]
  BY <1>1, <1>2 DEF UnitsTypeOK
<1> HIDE DEF p
<1>5. ASSUME Acyclic, NEW d \in exists'
      PROVE  parent'[d] \notin Subtree(d)'
  <2>1. CASE d = u
    <3>1. Subtree(d)' \subseteq {u}
      BY <1>1, <1>2, <1>3, <2>1, SubtreeLeastNext
    <3> QED
      BY <1>2, <1>3, <2>1, <3>1
  <2>2. CASE d # u
    <3>1. d \in exists /\ parent[d] \notin Subtree(d)
      BY <1>1, <1>5, <2>2 DEF Acyclic, UnitOnCycle
    <3>2. ClosedTree(Subtree(d)) /\ d \in Subtree(d)
      BY <3>1, SubtreeLeast
    <3> DEFINE S == Subtree(d) \cup {u}
    <3>3. S \subseteq exists' /\ d \in S /\ \A e \in exists' : parent'[e] \in S => e \in S
      BY <1>1, <1>3, <3>2 DEF ClosedTree
    <3>4. \A T : T \subseteq exists' /\ (\A e \in exists' : parent'[e] \in T => e \in T) /\ d \in T
            => Subtree(d)' \subseteq T
      BY <1>5, SubtreeLeastNext
    <3>5. Subtree(d)' \subseteq S
      <4> HIDE DEF S
      <4> QED
        BY <3>3, <3>4
    <3> QED
      BY <1>3, <3>1, <3>5
  <2> QED
    BY <2>1, <2>2
<1>6. ~racedOnce => Acyclic
  BY DEF TreeInductive, CyclesOnlyAfterOverlap
<1>7. ~racedOnce => Acyclic'
  BY <1>5, <1>6 DEF Acyclic, UnitOnCycle
<1>8. exists \subseteq exists' /\ exists' \in SUBSET Units
  BY <1>1 DEF UnitsTypeOK
<1> QED
  BY <1>1, <1>4, <1>7, <1>8, UnitCommitRequests

(* A unit that goes under none of its descendants closes no cycle.           *)
LEMMA MoveStep ==
  ASSUME TreeInductive, NEW w \in Workers, MoveCommit(w)
  PROVE  TreeInductive'
<1> DEFINE u == req[w].unit
           p == req[w].parent
<1>1. /\ UnitsTypeOK /\ exists' = exists /\ parent' = [parent EXCEPT ![u] = p] /\ Commit(w)
      /\ req[w].pc = "move"
  BY DEF TreeInductive, MoveCommit, At
<1>2. u \in exists /\ p \in exists \cup {None} /\ exists \in SUBSET Units /\ None \notin exists
  BY <1>1, NoneAssumption DEF UnitsTypeOK
<1>3. parent'[u] = p /\ \A d \in exists \ {u} : parent'[d] = parent[d]
  BY <1>1, <1>2 DEF UnitsTypeOK
<1>4. parent' \in [Units -> exists' \cup {None}]
  BY <1>1, <1>2 DEF UnitsTypeOK
<1>5. ~req[w].overtaken => p \notin Subtree(u)
  <2>1. CASE p = None
    BY <1>2, <2>1, SubtreeLeast DEF ClosedTree
  <2>2. CASE p # None
    BY <1>1, <2>2 DEF TreeInductive, Faithful
  <2> QED
    BY <2>1, <2>2
<1> HIDE DEF u, p
<1>6. ASSUME Acyclic, p \notin Subtree(u), NEW d \in exists
      PROVE  parent'[d] \notin Subtree(d)'
  <2>1. /\ ClosedTree(Subtree(u)) /\ u \in Subtree(u) /\ ClosedTree(Subtree(d)) /\ d \in Subtree(d)
        /\ \A S : ClosedTree(S) /\ d \in S => Subtree(d) \subseteq S
    BY <1>2, <1>6, SubtreeLeast
  <2>2. parent[d] \notin Subtree(d)
    BY <1>6 DEF Acyclic, UnitOnCycle
  <2>3. \A S : (S \subseteq exists /\ (\A e \in exists : parent'[e] \in S => e \in S) /\ d \in S)
          => Subtree(d)' \subseteq S
    BY <1>1, <1>6, SubtreeLeastNext
  <2>4. CASE d \in Subtree(u)
    <3>1. Subtree(d) \subseteq Subtree(u)
      BY <2>1, <2>4
    <3>2. \A e \in exists : parent'[e] \in Subtree(d) => e \in Subtree(d)
      BY <1>3, <1>6, <2>1, <3>1 DEF ClosedTree
    <3>3. Subtree(d)' \subseteq Subtree(d)
      BY <2>1, <2>3, <3>2 DEF ClosedTree
    <3> QED
      BY <1>3, <1>6, <2>2, <3>1, <3>3
  <2>5. CASE d \notin Subtree(u)
    <3> DEFINE S == Subtree(d) \cup Subtree(u)
    <3>1. S \subseteq exists /\ d \in S /\ \A e \in exists : parent'[e] \in S => e \in S
      BY <1>3, <2>1 DEF ClosedTree
    <3>2. Subtree(d)' \subseteq S
      BY <2>3, <3>1
    <3>3. parent'[d] = parent[d] /\ parent[d] \notin Subtree(u)
      BY <1>3, <1>6, <2>1, <2>5 DEF ClosedTree
    <3> QED
      BY <2>2, <3>2, <3>3
  <2> QED
    BY <2>4, <2>5
<1>7. ~racedOnce => Acyclic
  BY DEF TreeInductive, CyclesOnlyAfterOverlap
<1>8. ~racedOnce /\ ~req[w].overtaken => Acyclic'
  BY <1>1, <1>5, <1>6, <1>7 DEF Acyclic, UnitOnCycle
<1> QED
  BY <1>1, <1>2, <1>4, <1>8, UnitCommitRequests

(* The units stay a forest, and no query for unit ids hangs, until a request *)
(* commits what another commit had overtaken (CyclesOnlyAfterOverlap).       *)
THEOREM TreeInvariant == UnitsSpec => []TreeInductive
<1>1. UnitsInit => TreeInductive
  <2> SUFFICES ASSUME UnitsInit PROVE TreeInductive
    OBVIOUS
  <2>1. \A w \in Workers : req[w] = UnitIdle
    BY DEF UnitsInit
  <2>2. UnitsTypeOK
    <3>1. exists \in SUBSET Units /\ parent \in [Units -> exists \cup {None}] /\ racedOnce \in BOOLEAN
          /\ req \in [Workers -> UnitRequests]
      BY UnitIdleRequest DEF UnitsInit
    <3> QED
      BY <2>1, <3>1 DEF UnitsTypeOK, UnitIdle
  <2>3. CyclesOnlyAfterOverlap
    BY <2>1 DEF UnitsInit, CyclesOnlyAfterOverlap, Acyclic, At, UnitIdle
  <2>4. \A w \in Workers : Faithful(w)
    BY <2>1 DEF Faithful, UnitIdle
  <2> QED
    BY <2>2, <2>3, <2>4 DEF TreeInductive
<1>2. TreeInductive /\ [UnitsNext]_unitVars => TreeInductive'
  <2> SUFFICES ASSUME TreeInductive, [UnitsNext]_unitVars PROVE TreeInductive'
    OBVIOUS
  <2>1. ASSUME NEW w \in Workers, Begin(w, "company", None)
        PROVE  TreeInductive'
    BY <2>1, RequestStep DEF Scopes
  <2>2. ASSUME NEW w \in Workers, NEW home \in exists,
               HangOnTree(w, home) \/ \E scope \in Scopes \ {"company"} : Begin(w, scope, home)
        PROVE  TreeInductive'
    BY <2>2, RequestStep
  <2>3. ASSUME NEW w \in Workers, Goes(w) \/ UnitCutOff(w)
        PROVE  TreeInductive'
    BY <2>3, RequestStep, CreateStep, MoveStep DEF Goes
  <2>4. CASE UNCHANGED unitVars
    <3>1. UNCHANGED <<exists, parent, req, racedOnce>>
      BY <2>4 DEF unitVars
    <3>2. \A s, h : Reach(s, h)' = Reach(s, h) /\ Subtree(h)' = Subtree(h)
      BY <3>1 DEF Reach, Subtree
    <3>3. UnitsTypeOK' /\ \A w \in Workers : Faithful(w)'
      BY <3>1, <3>2 DEF TreeInductive, UnitsTypeOK, Faithful
    <3>4. CyclesOnlyAfterOverlap'
      BY <3>1, <3>2 DEF TreeInductive, CyclesOnlyAfterOverlap, Acyclic, UnitOnCycle, At
    <3> QED
      BY <3>3, <3>4 DEF TreeInductive
  <2> QED
    BY <2>1, <2>2, <2>3, <2>4 DEF UnitsNext
<1> QED
  BY <1>1, <1>2, PTL DEF UnitsSpec

(* A cycle of units, or a query that does not end, takes a decision that a   *)
(* commit had overtaken.                                                     *)
THEOREM CyclesNeedOverlap == UnitsSpec => []CyclesOnlyAfterOverlap
<1>1. TreeInductive => CyclesOnlyAfterOverlap
  BY DEF TreeInductive
<1> QED
  BY <1>1, TreeInvariant, PTL

(* A scoped move whose decision is not overtaken keeps the set of units the  *)
(* requester answers for.                                                    *)
THEOREM ScopedMovesStayInside == UnitsSpec => TreeOfScopeKept
<1>1. ASSUME TreeInductive, [UnitsNext]_unitVars, NEW w \in Workers, NEW home \in exists,
             At(w, "move"), req'[w] = UnitIdle, parent' # parent,
             req[w].scope # "company", req[w].home = home, ~req[w].overtaken
      PROVE  Subtree(home)' = Subtree(home)
  <2> DEFINE u == req[w].unit
             p == req[w].parent
  <2>1. UnitsTypeOK /\ Faithful(w) /\ req[w].pc = "move" /\ req[w].scope \in Scopes
    BY <1>1 DEF TreeInductive, At, UnitsTypeOK, UnitRequests
  <2>2. MoveCommit(w)
    <3>1. PICK v \in Workers : (\E x \in Units : CreateCommit(v, x)) \/ MoveCommit(v)
      <4>1. \A v, r : ~Proceed(v, r)
        BY <1>1 DEF Proceed
      <4>2. \A v, h : ~HangOnTree(v, h)
        BY <4>1 DEF HangOnTree
      <4>3. ASSUME NEW v, NEW s, NEW h, Begin(v, s, h)
            PROVE  FALSE
        <5>1. PICK q \in exists \cup {None} :
                CreateRead(v, s, h, q) \/ \E x \in exists : MoveRead(v, s, h, x, q)
          BY <4>3 DEF Begin
        <5> QED
          BY <4>1, <5>1 DEF CreateRead, MoveRead
      <4>4. \A v : ~Walk(v) /\ ~UnitCutOff(v)
        BY <4>1 DEF Walk, UnitCutOff
      <4> QED
        BY <1>1, <4>2, <4>3, <4>4 DEF UnitsNext, Goes, unitVars
    <3>2. v = w
      <4> SUFFICES ASSUME v # w PROVE FALSE
        OBVIOUS
      <4>1. req'[w] = [req[w] EXCEPT !.overtaken = req[w].pc # "idle"]
        BY <3>1 DEF CreateCommit, MoveCommit, Commit
      <4>2. req[w] \in UnitRequests
        BY <2>1 DEF UnitsTypeOK
      <4>3. req'[w].pc = "move"
        BY <2>1, <4>1, <4>2 DEF UnitRequests
      <4> QED
        BY <1>1, <4>3 DEF UnitIdle
    <3> QED
      BY <2>1, <3>1, <3>2 DEF CreateCommit, At
  <2>3. u \in exists /\ exists \in SUBSET Units /\ None \notin exists /\ exists' = exists
    BY <2>1, <2>2, NoneAssumption DEF UnitsTypeOK, MoveCommit
  <2>4. parent'[u] = p /\ \A d \in exists \ {u} : parent'[d] = parent[d]
    BY <2>1, <2>2, <2>3 DEF UnitsTypeOK, MoveCommit
  <2>5. {u, p} \subseteq Reach(req[w].scope, home)
    BY <1>1, <2>1 DEF Faithful
  <2>6. p \in exists
    <3>1. Subtree(home) \subseteq exists
      BY SubtreeLeast DEF ClosedTree
    <3> QED
      BY <1>1, <2>5, <3>1 DEF Reach
  <2>7. p \notin Subtree(u)
    BY <1>1, <2>1, <2>3, <2>6 DEF Faithful
  <2> HIDE DEF u, p
  <2>8. req[w].scope = "own tree"
    <3>1. u \in Subtree(u)
      BY <2>3, SubtreeLeast
    <3> QED
      BY <1>1, <2>1, <2>5, <2>7, <3>1 DEF Reach, Scopes
  <2>9. {u, p} \subseteq Subtree(home)
    BY <2>5, <2>8 DEF Reach
  <2>10. /\ ClosedTree(Subtree(home)) /\ home \in Subtree(home) /\ ClosedTree(Subtree(u)) /\ u \in Subtree(u)
         /\ \A S : ClosedTree(S) /\ home \in S => Subtree(home) \subseteq S
    BY <2>3, SubtreeLeast
  <2>11. /\ Subtree(home)' \subseteq exists /\ home \in Subtree(home)'
         /\ \A d \in exists : parent'[d] \in Subtree(home)' => d \in Subtree(home)'
         /\ \A S : (S \subseteq exists /\ (\A d \in exists : parent'[d] \in S => d \in S) /\ home \in S)
              => Subtree(home)' \subseteq S
    BY <2>3, SubtreeLeastNext DEF ClosedTree
  <2>12. Subtree(home)' \subseteq Subtree(home)
    <3>1. \A d \in exists : parent'[d] \in Subtree(home) => d \in Subtree(home)
      BY <2>4, <2>9, <2>10 DEF ClosedTree
    <3> QED
      BY <2>10, <2>11, <3>1 DEF ClosedTree
  <2>13. PICK N : N = Subtree(home)'
    OBVIOUS
  <2>14. p \in N
    <3> DEFINE S == N \cup Subtree(u)
    <3>1. ClosedTree(S) /\ home \in S
      BY <2>4, <2>10, <2>11, <2>13 DEF ClosedTree
    <3> QED
      BY <2>7, <2>9, <2>10, <3>1
  <2>15. Subtree(home) \subseteq N
    <3>1. u \in N
      BY <2>3, <2>4, <2>11, <2>13, <2>14
    <3>2. ClosedTree(N)
      BY <2>4, <2>11, <2>13, <3>1 DEF ClosedTree
    <3> QED
      BY <2>10, <2>11, <2>13, <3>2
  <2> QED
    BY <2>12, <2>13, <2>15
<1>2. TreeInductive /\ [UnitsNext]_unitVars =>
        [\A w \in Workers, home \in exists :
           /\ At(w, "move") /\ req'[w] = UnitIdle /\ parent' # parent
           /\ req[w].scope # "company" /\ req[w].home = home /\ ~req[w].overtaken
           => Subtree(home)' = Subtree(home)]_unitVars
  BY <1>1
<1> QED
  BY <1>2, TreeInvariant, PTL DEF UnitsSpec, TreeOfScopeKept

-----------------------------------------------------------------------------
(* Trees of objects *)

(* The objects there are in a table.                                         *)
Known(rows) == {c \in Objects : rows[c].type \in Types}

(* S has the children of o and of its members.                               *)
Closed(rows, o, S) ==
  \A c \in Known(rows) : rows[c].parent \in S \cup {o} => c \in S

(* Below is the least such set.                                              *)
LEMMA BelowLeast ==
  ASSUME NEW rows, NEW o
  PROVE  /\ Below(rows, o) \in SUBSET Objects
         /\ Closed(rows, o, Below(rows, o))
         /\ \A S \in SUBSET Objects : Closed(rows, o, S) => Below(rows, o) \subseteq S
<1> DEFINE T == Below(rows, o)
<1>1. T \in SUBSET Objects
  BY DEF Below
<1>2. \A S \in SUBSET Objects : Closed(rows, o, S) => T \subseteq S
  BY DEF Below, Closed, Known
<1>3. ASSUME NEW c \in Known(rows), rows[c].parent \in T \cup {o}  PROVE c \in T
  <2>1. ASSUME NEW S \in SUBSET Objects, Closed(rows, o, S)  PROVE c \in S
    <3>1. rows[c].parent \in S \cup {o}
      BY <1>2, <1>3, <2>1
    <3> QED  BY <2>1, <3>1 DEF Closed
  <2>2. c \in Objects
    BY DEF Known
  <2> QED  BY <2>1, <2>2 DEF Below, Closed, Known
<1> QED  BY <1>1, <1>2, <1>3 DEF Closed

(* An object below o is there, and its parent is o or below o.               *)
LEMMA BelowParent ==
  ASSUME NEW rows, NEW o, NEW x \in Below(rows, o)
  PROVE  x \in Known(rows) /\ rows[x].parent \in Below(rows, o) \cup {o}
<1> DEFINE S == {y \in Below(rows, o) : y \in Known(rows) /\ rows[y].parent \in Below(rows, o) \cup {o}}
<1>1. S \in SUBSET Objects
  BY BelowLeast
<1>2. Closed(rows, o, S)
  BY BelowLeast DEF Closed
<1>3. Below(rows, o) \subseteq S
  <2> HIDE DEF S
  <2> QED  BY <1>1, <1>2, BelowLeast
<1> QED  BY <1>3

(* What is below something below o is below o.                               *)
LEMMA BelowBelow ==
  ASSUME NEW rows, NEW o, NEW x \in Below(rows, o)
  PROVE  Below(rows, x) \subseteq Below(rows, o)
<1>1. Closed(rows, x, Below(rows, o))
  BY BelowLeast DEF Closed
<1> QED  BY <1>1, BelowLeast

(* Nothing is below an object without children.                              *)
LEMMA NothingBelow ==
  ASSUME NEW rows, NEW o, \A c \in Known(rows) : rows[c].parent # o
  PROVE  Below(rows, o) = {}
<1>1. Closed(rows, o, {})
  BY DEF Closed
<1> QED  BY <1>1, BelowLeast

(* The members of the cycle through z.                                       *)
Cycle(rows, z) == {y \in Below(rows, z) : z \in Below(rows, y)}

(* The one parent of an object on a cycle is on the cycle too.               *)
LEMMA CycleParent ==
  ASSUME NEW rows, NEW z, z \in Below(rows, z), NEW x \in Cycle(rows, z)
  PROVE  rows[x].parent \in Cycle(rows, z)
<1> DEFINE p == rows[x].parent
<1>1. x \in Below(rows, z) /\ z \in Below(rows, x)
  BY DEF Cycle
<1>2. x \in Known(rows) /\ p \in Below(rows, z) \cup {z}
  BY <1>1, BelowParent
<1>3. p \in Below(rows, z)
  BY <1>2
<1>4. x \in Below(rows, p)
  BY <1>2, BelowLeast DEF Closed
<1>5. z \in Below(rows, p)
  BY <1>1, <1>4, BelowBelow
<1> QED  BY <1>3, <1>5 DEF Cycle

(* Two tables with the same rows but that of x.                              *)
DifferAt(rows, rows2, x) == \A y \in Objects \ {x} : rows[y] = rows2[y]

(* What has no parent outside it is below nothing outside it.                *)
LEMMA ClosedUpward ==
  ASSUME NEW rows, NEW C \in SUBSET Objects,
         \A y \in C \cap Known(rows) : rows[y].parent \in C,
         NEW o, o \notin C
  PROVE  Below(rows, o) \cap C = {}
<1> DEFINE S == Objects \ C
<1>1. ASSUME NEW c \in Known(rows), rows[c].parent \in S \cup {o}  PROVE c \in S
  <2>1. rows[c].parent \notin C
    BY <1>1
  <2> QED  BY <1>1, <2>1 DEF Known
<1>2. Closed(rows, o, S)
  BY <1>1 DEF Closed
<1>3. Below(rows, o) \subseteq S
  <2> HIDE DEF S
  <2>1. S \in SUBSET Objects
    BY DEF S
  <2> QED  BY <1>2, <2>1, BelowLeast
<1> QED  BY <1>3

(* A cycle above is the same cycle.                                          *)
LEMMA SameCycle ==
  ASSUME NEW rows, NEW o, NEW p \in Below(rows, o), p \in Below(rows, p)
  PROVE  o \in Below(rows, p)
<1>1. p \in Cycle(rows, p) /\ Cycle(rows, p) \in SUBSET Objects
  BY BelowLeast DEF Cycle
<1>2. \A y \in Cycle(rows, p) : rows[y].parent \in Cycle(rows, p)
  BY CycleParent
<1>3. o \in Cycle(rows, p)
  BY <1>1, <1>2, ClosedUpward
<1> QED  BY <1>3 DEF Cycle

(* A cycle without x is there in both tables.                                *)
LEMMA CycleKept ==
  ASSUME NEW rows, NEW rows2, NEW x, DifferAt(rows, rows2, x),
         NEW z, z \in Below(rows, z), x \notin Cycle(rows, z)
  PROVE  Cycle(rows2, z) = Cycle(rows, z) /\ z \in Below(rows2, z)
<1> DEFINE C == Cycle(rows, z)
<1>1. C \in SUBSET Objects /\ z \in C /\ C \subseteq Known(rows)
  BY BelowLeast, BelowParent DEF Cycle
<1>2. \A y \in C : rows[y].parent \in C
  BY CycleParent
<1>3. \A y \in C : y \in Known(rows2) /\ rows2[y] = rows[y]
  BY <1>1 DEF DifferAt, Known
<1> HIDE DEF C
<1>4. ASSUME NEW o \in C  PROVE C \subseteq Below(rows2, o)
  <2> DEFINE S == Below(rows2, o) \cup (Objects \ C)
  <2>1. S \in SUBSET Objects
    BY BelowLeast
  <2>2. ASSUME NEW c \in Known(rows), rows[c].parent \in S \cup {o}  PROVE c \in S
    <3>1. CASE c \notin C
      BY <3>1 DEF Known
    <3>2. CASE c \in C
      <4>1. rows2[c].parent \in C \cap (S \cup {o}) /\ c \in Known(rows2)
        BY <1>2, <1>3, <2>2, <3>2
      <4>2. rows2[c].parent \in Below(rows2, o) \cup {o}
        BY <4>1
      <4> QED  BY <4>1, <4>2, BelowLeast DEF Closed
    <3> QED  BY <3>1, <3>2
  <2>3. Closed(rows, o, S)
    BY <2>2 DEF Closed
  <2>4. Below(rows, o) \subseteq S
    <3> HIDE DEF S
    <3> QED  BY <2>1, <2>3, BelowLeast
  <2>5. z \in Below(rows, o)
    BY <1>4 DEF C, Cycle
  <2>6. C \subseteq Below(rows, o)
    BY <2>5, BelowBelow DEF C, Cycle
  <2> QED  BY <2>4, <2>6
<1>5. z \in Below(rows2, z)
  BY <1>1, <1>4
<1>6. C \subseteq Cycle(rows2, z)
  BY <1>1, <1>4 DEF Cycle
<1>7. ASSUME NEW y \in Cycle(rows2, z), y \notin C  PROVE FALSE
  <2>1. Below(rows2, y) \cap C = {}
    BY <1>1, <1>2, <1>3, <1>7, ClosedUpward
  <2> QED  BY <1>1, <1>7, <2>1 DEF Cycle
<1> QED  BY <1>5, <1>6, <1>7 DEF C

(* An object at the top is on no cycle.                                      *)
LEMMA TopOnNoCycle ==
  ASSUME NEW rows, NEW x, rows[x].parent = None
  PROVE  x \notin Below(rows, x)
<1>1. ASSUME x \in Below(rows, x)  PROVE FALSE
  <2>1. None \in Below(rows, x) \cup {x} /\ x \in Objects
    BY <1>1, BelowParent, BelowLeast
  <2> QED  BY <2>1, BelowLeast, IdAssumption
<1> QED  BY <1>1

(* Nor is an object that was on none and goes under one not below it.        *)
LEMMA MovedOnNoCycle ==
  ASSUME NEW rows, NEW rows2, NEW x, DifferAt(rows, rows2, x),
         x \notin Below(rows, x),
         rows2[x].parent \notin {x} \cup Below(rows, x)
  PROVE  x \notin Below(rows2, x)
<1>1. ASSUME NEW c \in Known(rows2), rows2[c].parent \in Below(rows, x) \cup {x}
      PROVE  c \in Below(rows, x)
  <2>1. c # x
    BY <1>1
  <2>2. c \in Known(rows) /\ rows[c] = rows2[c]
    BY <2>1 DEF Known, DifferAt
  <2> QED  BY <1>1, <2>2, BelowLeast DEF Closed
<1>2. Closed(rows2, x, Below(rows, x))
  BY <1>1 DEF Closed
<1>3. Below(rows2, x) \subseteq Below(rows, x)
  BY <1>2, BelowLeast
<1> QED  BY <1>3

-----------------------------------------------------------------------------
(* The inductive invariant *)

(* What a body names is there to be named.                                   *)
Shaped(op) ==
  /\ op.kind \in {"create_type", "delete_type", "create_object", "update_object"} => op.type \in Types
  /\ op.kind \in {"update_object", "delete_object"} => op.object \in Objects
  /\ op.kind \in {"create_building", "update_building"} => op.parent \in Objects
  /\ op.kind \in {"update_building", "delete_building", "create_entrance",
                  "create_location", "update_location"} => op.building \in Buildings
  /\ op.kind = "delete_entrance" => op.entrance \in Entrances
  /\ op.kind \in {"update_location", "delete_location"} => op.location \in Locations

(* What a request that nobody has overtaken has read and found is so.        *)
Current(r) ==
  ~r.overtaken =>
    /\ r.pc # "idle" /\ r.op.object # None => r.was = object[r.op.object]
    /\ r.pc = "valid" => Valid(r) /\ (Walks(r) => ~OnCycle(r.op.object))

RequestsSound == \A w \in Workers : Shaped(Op(w)) /\ Current(req[w])

(* No row is locked for update by two.                                       *)
LocksApart == \A v, w \in Workers : v # w => Locked(v) \cap Locked(w) = {}

CatalogueInvariant ==
  /\ RulesBrokenOnlyByOverlap
  /\ DeletionsFinal
  /\ LocationTogether
  /\ LocksApart
  /\ RequestsSound

(* The three rules of the hierarchy, one by one.                             *)
ObjectsFit ==
  \A o \in There : Fits(object[o].type, object[o].parent) \/ raced \cap {o, object[o].parent} # {}

BuildingsStand ==
  \A b \in Built :
    \/ AllowsBuildings(object[building[b].at].type)
    \/ raced \cap {b, building[b].at} # {} \/ building[b].at \in adrift

CyclesRaced ==
  \A o \in There : OnCycle(o) => \E p \in raced \cap Descendants(o) : OnCycle(p)

(* The rules, with the types, are the property.                              *)
LEMMA RulesApart ==
  RulesBrokenOnlyByOverlap <=> TypeOK /\ ObjectsFit /\ BuildingsStand /\ CyclesRaced
  BY DEF RulesBrokenOnlyByOverlap, ObjectsFit, BuildingsStand, CyclesRaced

(* A worker without a request, and the empty rows, are well typed.           *)
LEMMA IdleRequest ==
  /\ Idle \in Requests /\ Blank \in Bodies /\ Shaped(Blank) /\ Current(Idle)
  /\ Idle.pc = "idle" /\ Idle.op = Blank /\ Unused \in ObjectRows /\ NoLocation \in LocationRows
  BY DEF Idle, Requests, Blank, Bodies, Kinds, Deletions, Unused, ObjectRows, NoLocation, LocationRows,
         Shaped, Current

(* The objects there are.                                                    *)
LEMMA ThereKnown == There = Known(object)
  BY DEF There, Known

-----------------------------------------------------------------------------
(* Requests *)

(* Nobody locks a row when idle, and a deletion locks its row.               *)
LEMMA LocksOfDeletions ==
  ASSUME NEW v \in Workers, ~At(v, "idle"), Shaped(Op(v))
  PROVE  /\ Op(v).kind = "delete_object" => Op(v).object \in Locked(v)
         /\ Op(v).kind = "delete_building" => Op(v).building \in Locked(v)
         /\ Op(v).kind = "delete_entrance" => Op(v).entrance \in Locked(v)
  BY IdAssumption DEF Locked, Deletions, Shaped

(* A step of the request of w that changes no table.                         *)
LEMMA QuietStep ==
  ASSUME CatalogueInvariant, NEW w \in Workers, NEW r \in Requests, Become(w, r),
         UNCHANGED <<tables, raced, adrift>>,
         Shaped(r.op), Current(r),
         r.pc = "valid" /\ r.op.kind \in Deletions => KeysHold(r),
         LocksApart'
  PROVE  CatalogueInvariant'
<1>1. TypeOK /\ req' = [req EXCEPT ![w] = r]
  BY RulesApart DEF CatalogueInvariant, Become
<1>2. req'[w] = r /\ (\A v \in Workers \ {w} : req'[v] = req[v]) /\ req' \in [Workers -> Requests]
  BY <1>1 DEF TypeOK
<1>3. UNCHANGED <<types, object, building, entrance, location, raced, adrift>>
  BY DEF tables
<1>4. RulesBrokenOnlyByOverlap'
  <2>1. TypeOK'
    BY <1>1, <1>2, <1>3 DEF TypeOK, There, KnownTypes, Built, Open
  <2>2. ObjectsFit' /\ BuildingsStand' /\ CyclesRaced'
    BY <1>3, RulesApart DEF CatalogueInvariant, ObjectsFit, BuildingsStand, CyclesRaced, There, Built, Fits,
       OnCycle, Descendants
  <2> QED
    BY <2>1, <2>2 DEF RulesBrokenOnlyByOverlap, ObjectsFit, BuildingsStand, CyclesRaced
<1>5. LocationTogether'
  BY <1>3 DEF CatalogueInvariant, LocationTogether, Placed, Built, Open
<1>6. \A q : KeysHold(q)' = KeysHold(q)
  BY <1>3 DEF KeysHold, KnownTypes, There, Children, BuildingsAt, Built, Open, Placed, PlaceExists, Changed,
     Retypes, Moves
<1>7. DeletionsFinal'
  BY <1>2, <1>6 DEF CatalogueInvariant, DeletionsFinal, At, Op
<1>8. \A q : Current(q)' = Current(q)
  BY <1>3 DEF Current, Valid, KnownTypes, There, Children, BuildingsAt, Built, Open, Placed, LinksValid,
     BuildingParentValid, HierarchyValid, ParentValid, ListedBuildings, Rooted, Fits, Retypes, Moves, Walks,
     OnCycle, Descendants
<1>9. RequestsSound'
  BY <1>2, <1>8 DEF CatalogueInvariant, RequestsSound, Op
<1> QED  BY <1>4, <1>5, <1>7, <1>9 DEF CatalogueInvariant

(* A refusal, a rollback, a query that hangs: no request waits for less.     *)
LEMMA EndStep ==
  ASSUME CatalogueInvariant, NEW w \in Workers, Become(w, Idle),
         UNCHANGED <<tables, raced, adrift>>
  PROVE  CatalogueInvariant'
<1>1. req' = [req EXCEPT ![w] = Idle] /\ TypeOK
  BY RulesApart DEF Become, CatalogueInvariant
<1>2. req'[w] = Idle /\ \A v \in Workers \ {w} : req'[v] = req[v]
  BY <1>1 DEF TypeOK
<1>3. Locked(w)' = {} /\ \A v \in Workers \ {w} : Locked(v)' = Locked(v)
  BY <1>2, IdleRequest DEF Locked, At, Op
<1>4. LocksApart'
  BY <1>3 DEF CatalogueInvariant, LocksApart
<1> QED
  BY <1>4, IdleRequest, QuietStep

(* A request goes on with the same body.                                     *)
LEMMA GoesOn ==
  ASSUME CatalogueInvariant, NEW w \in Workers, NEW r \in Requests, Become(w, r),
         UNCHANGED <<tables, raced, adrift>>,
         ~At(w, "idle"), r.op = Op(w), Current(r),
         r.pc = "valid" /\ r.op.kind \in Deletions => KeysHold(r)
  PROVE  CatalogueInvariant'
<1>1. req' = [req EXCEPT ![w] = r] /\ TypeOK
  BY RulesApart DEF Become, CatalogueInvariant
<1>2. req'[w] = r /\ \A v \in Workers \ {w} : req'[v] = req[v]
  BY <1>1 DEF TypeOK
<1>3. Locked(w)' \subseteq Locked(w) /\ \A v \in Workers \ {w} : Locked(v)' = Locked(v)
  BY <1>2 DEF Locked, At, Op
<1>4. LocksApart'
  BY <1>3 DEF CatalogueInvariant, LocksApart
<1>5. Shaped(r.op)
  BY DEF CatalogueInvariant, RequestsSound
<1> QED
  BY <1>4, <1>5, QuietStep

(* A body about a type.                                                      *)
LEMMA OnTypeTyped ==
  ASSUME NEW kind \in Kinds, NEW t \in Types
  PROVE  LET q == OnType(kind, t)
         IN  q \in Bodies /\ q.kind = kind /\ q.type = t
<1>1. PICK q : q = OnType(kind, t)
  OBVIOUS
<1>2. q = [kind |-> kind, type |-> t, object |-> None, parent |-> None,
          building |-> None, entrance |-> None, location |-> None]
  BY <1>1 DEF OnType, Blank
<1>3. q \in Bodies /\ q.kind = kind /\ q.type = t
  BY <1>2 DEF Bodies
<1> QED  BY <1>1, <1>3

(* A body about an object.                                                   *)
LEMMA OnObjectTyped ==
  ASSUME NEW kind \in Kinds, NEW o \in Objects \cup {None}, NEW t \in Types \cup {None}, NEW p \in Objects \cup {None}
  PROVE  LET q == OnObject(kind, o, t, p)
         IN  q \in Bodies /\ q.kind = kind /\ q.object = o /\ q.type = t /\ q.parent = p
<1>1. PICK q : q = OnObject(kind, o, t, p)
  OBVIOUS
<1>2. q = [kind |-> kind, type |-> t, object |-> o, parent |-> p,
          building |-> None, entrance |-> None, location |-> None]
  BY <1>1 DEF OnObject, Blank
<1>3. q \in Bodies /\ q.kind = kind /\ q.object = o /\ q.type = t /\ q.parent = p
  BY <1>2 DEF Bodies
<1> QED  BY <1>1, <1>3

(* A body about a building.                                                  *)
LEMMA OnBuildingTyped ==
  ASSUME NEW kind \in Kinds, NEW b \in Buildings \cup {None}, NEW p \in Objects \cup {None}
  PROVE  LET q == OnBuilding(kind, b, p)
         IN  q \in Bodies /\ q.kind = kind /\ q.building = b /\ q.parent = p
<1>1. PICK q : q = OnBuilding(kind, b, p)
  OBVIOUS
<1>2. q = [kind |-> kind, type |-> None, object |-> None, parent |-> p,
          building |-> b, entrance |-> None, location |-> None]
  BY <1>1 DEF OnBuilding, Blank
<1>3. q \in Bodies /\ q.kind = kind /\ q.building = b /\ q.parent = p
  BY <1>2 DEF Bodies
<1> QED  BY <1>1, <1>3

(* A body about an entrance or a location.                                   *)
LEMMA OnPlaceTyped ==
  ASSUME NEW kind \in Kinds, NEW b \in Buildings \cup {None}, NEW e \in Entrances \cup {None}, NEW l \in Locations \cup {None}
  PROVE  LET q == OnPlace(kind, b, e, l)
         IN  q \in Bodies /\ q.kind = kind /\ q.building = b /\ q.entrance = e /\ q.location = l
<1>1. PICK q : q = OnPlace(kind, b, e, l)
  OBVIOUS
<1>2. q = [kind |-> kind, type |-> None, object |-> None, parent |-> None,
          building |-> b, entrance |-> e, location |-> l]
  BY <1>1 DEF OnPlace, Blank
<1>3. q \in Bodies /\ q.kind = kind /\ q.building = b /\ q.entrance = e /\ q.location = l
  BY <1>2 DEF Bodies
<1> QED  BY <1>1, <1>3

(* The bodies a request can have name what they need.                        *)
LEMMA BodiesShaped ==
  ASSUME TypeOK, NEW op \in TypeBodies \cup ObjectBodies \cup BuildingBodies \cup PlaceBodies
  PROVE  op \in Bodies /\ Shaped(op)
<1>1. /\ KnownTypes \subseteq Types /\ There \subseteq Objects /\ Built \subseteq Buildings
      /\ Open \subseteq Entrances /\ Placed \subseteq Locations /\ CustomAreas \subseteq Types
  BY DEF KnownTypes, There, Built, Open, Placed, Types
<1>2. CASE op \in TypeBodies
  <2>1. {"create_type", "delete_type"} \subseteq Kinds
    BY DEF Kinds
  <2>2. \A t \in Types, kind \in {"create_type", "delete_type"} :
          LET q == OnType(kind, t) IN  q \in Bodies /\ Shaped(q)
    BY <2>1, OnTypeTyped DEF Shaped
  <2>3. {u \in CustomAreas : types[u] = "unused"} \subseteq Types
    BY <1>1
  <2> QED  BY <1>1, <1>2, <2>2, <2>3 DEF TypeBodies
<1>3. CASE op \in ObjectBodies
  <2>1. {"create_object", "update_object", "delete_object"} \subseteq Kinds
    BY DEF Kinds, Deletions
  <2>2. \A t \in KnownTypes, p \in There \cup {None} :
          LET q == OnObject("create_object", None, t, p) IN  q \in Bodies /\ Shaped(q)
    BY <1>1, <2>1, OnObjectTyped DEF Shaped
  <2>3. \A o \in There, t \in KnownTypes, p \in There \cup {None} :
          LET q == OnObject("update_object", o, t, p) IN  q \in Bodies /\ Shaped(q)
    BY <1>1, <2>1, OnObjectTyped DEF Shaped
  <2>4. \A o \in There : LET q == OnObject("delete_object", o, None, None) IN  q \in Bodies /\ Shaped(q)
    BY <1>1, <2>1, OnObjectTyped DEF Shaped
  <2> QED  BY <1>3, <2>2, <2>3, <2>4 DEF ObjectBodies
<1>4. CASE op \in BuildingBodies
  <2>1. {"create_building", "update_building", "delete_building"} \subseteq Kinds
    BY DEF Kinds, Deletions
  <2>2. \A p \in There : LET q == OnBuilding("create_building", None, p) IN  q \in Bodies /\ Shaped(q)
    BY <1>1, <2>1, OnBuildingTyped DEF Shaped
  <2>3. \A b \in Built, p \in There :
          LET q == OnBuilding("update_building", b, p) IN  q \in Bodies /\ Shaped(q)
    BY <1>1, <2>1, OnBuildingTyped DEF Shaped
  <2>4. \A b \in Built : LET q == OnBuilding("delete_building", b, None) IN  q \in Bodies /\ Shaped(q)
    BY <1>1, <2>1, OnBuildingTyped DEF Shaped
  <2> QED  BY <1>4, <2>2, <2>3, <2>4 DEF BuildingBodies
<1>5. CASE op \in PlaceBodies
  <2>1. {"create_entrance", "delete_entrance", "create_location", "update_location", "delete_location"}
          \subseteq Kinds
    BY DEF Kinds, Deletions
  <2>2. \A b \in Built : LET q == OnPlace("create_entrance", b, None, None) IN  q \in Bodies /\ Shaped(q)
    BY <1>1, <2>1, OnPlaceTyped DEF Shaped
  <2>3. \A e \in Open : LET q == OnPlace("delete_entrance", None, e, None) IN  q \in Bodies /\ Shaped(q)
    BY <1>1, <2>1, OnPlaceTyped DEF Shaped
  <2>4. \A b \in Built, e \in Open \cup {None} :
          LET q == OnPlace("create_location", b, e, None) IN  q \in Bodies /\ Shaped(q)
    BY <1>1, <2>1, OnPlaceTyped DEF Shaped
  <2>5. \A b \in Built, e \in Open \cup {None}, l \in Placed :
          LET q == OnPlace("update_location", b, e, l) IN  q \in Bodies /\ Shaped(q)
    BY <1>1, <2>1, OnPlaceTyped DEF Shaped
  <2>6. \A l \in Placed : LET q == OnPlace("delete_location", None, None, l) IN  q \in Bodies /\ Shaped(q)
    BY <1>1, <2>1, OnPlaceTyped DEF Shaped
  <2> QED  BY <1>5, <2>2, <2>3, <2>4, <2>5, <2>6 DEF PlaceBodies
<1> QED  BY <1>2, <1>3, <1>4, <1>5

(* A request begins: it locks what nobody else has locked.                   *)
LEMMA LoadStep ==
  ASSUME CatalogueInvariant, NEW w \in Workers,
         NEW op \in TypeBodies \cup ObjectBodies \cup BuildingBodies \cup PlaceBodies, Load(w, op)
  PROVE  CatalogueInvariant'
<1>1. TypeOK
  BY RulesApart DEF CatalogueInvariant
<1>2. op \in Bodies /\ Shaped(op)
  BY <1>1, BodiesShaped
<1>3. PICK was \in ObjectRows : was = IF op.object = None THEN Unused ELSE object[op.object]
  BY <1>1, <1>2, IdleRequest DEF TypeOK, Bodies
<1>4. PICK wasAt \in LocationRows : wasAt = IF op.location = None THEN NoLocation ELSE location[op.location]
  BY <1>1, <1>2, IdleRequest DEF TypeOK, Bodies
<1> DEFINE r == [Idle EXCEPT !.pc = "loaded", !.op = op, !.was = was, !.wasAt = wasAt]
<1>6. Become(w, r) /\ At(w, "idle") /\ UNCHANGED <<tables, raced, adrift>>
      /\ (op.kind \in Deletions \cup {"update_building"} => Free(w, RowOf(op)))
  BY <1>3, <1>4 DEF Load
<1>7. r \in Requests /\ r.op = op /\ r.pc = "loaded" /\ Current(r)
  <2>1. r \in Requests /\ r.op = op /\ r.pc = "loaded" /\ r.was = was
    BY <1>2, IdleRequest DEF Requests
  <2> QED  BY <1>3, <2>1 DEF Current
<1> HIDE DEF r
<1>8. req' = [req EXCEPT ![w] = r]
  BY <1>6 DEF Become
<1>9. req'[w] = r /\ \A v \in Workers \ {w} : req'[v] = req[v]
  BY <1>1, <1>8 DEF TypeOK
<1>10. \A v \in Workers \ {w} : Locked(v)' = Locked(v) /\ Locked(v) \cap Locked(w)' = {}
  <2>1. \A v \in Workers \ {w} : Locked(v)' = Locked(v)
    BY <1>9 DEF Locked, At, Op
  <2>2. Locked(w)' = {} \/ (op.kind \in Deletions \cup {"update_building"} /\ Locked(w)' \subseteq RowOf(op))
    BY <1>7, <1>9 DEF Locked, At, Op, RowOf
  <2> QED  BY <1>6, <2>1, <2>2 DEF Free
<1>11. LocksApart'
  BY <1>10 DEF CatalogueInvariant, LocksApart
<1> QED
  BY <1>2, <1>6, <1>7, <1>11, QuietStep

(* What a deletion has found, no foreign key refuses.                        *)
LEMMA FoundIsKept ==
  ASSUME NEW r, Valid(r), r.op.kind \in Deletions
  PROVE  KeysHold(r)
  BY DEF Valid, KeysHold, Deletions

(* A request is validated, or refused.                                       *)
LEMMA ValidateStep ==
  ASSUME CatalogueInvariant, NEW w \in Workers, Validate(w)
  PROVE  CatalogueInvariant'
<1> DEFINE r == [req[w] EXCEPT !.pc = "valid"]
<1>1. TypeOK /\ req[w] \in Requests /\ Current(req[w])
  BY RulesApart DEF CatalogueInvariant, TypeOK, RequestsSound
<1>2. UNCHANGED <<tables, raced, adrift>> /\ At(w, "loaded") /\ ~At(w, "idle")
  BY DEF Validate, At
<1>3. CASE Become(w, Idle)
  BY <1>2, <1>3, EndStep
<1>4. CASE Valid(req[w]) /\ Become(w, r)
  <2>1. r \in Requests /\ r.op = req[w].op /\ r.was = req[w].was /\ r.overtaken = req[w].overtaken
        /\ r.wasAt = req[w].wasAt /\ r.pc = "valid"
    BY <1>1 DEF Requests
  <2> HIDE DEF r
  <2>2. Valid(r)
    BY <1>4, <2>1 DEF Valid, Retypes, Moves, HierarchyValid, ParentValid
  <2>3. Walks(r) => ~OnCycle(r.op.object)
    BY <2>1 DEF Validate, Walks, Retypes, Moves, QueryEnds
  <2>4. Current(r)
    BY <1>1, <1>2, <2>1, <2>2, <2>3 DEF Current, At
  <2> QED
    BY <1>2, <1>4, <2>1, <2>2, <2>4, FoundIsKept, GoesOn DEF Op
<1> QED  BY <1>3, <1>4 DEF Validate

(* A request that hangs.                                                     *)
LEMMA HangStep ==
  ASSUME CatalogueInvariant, NEW w \in Workers, Hang(w)
  PROVE  CatalogueInvariant'
<1> DEFINE r == [req[w] EXCEPT !.pc = "hung"]
<1>1. TypeOK /\ req[w] \in Requests /\ Current(req[w])
  BY RulesApart DEF CatalogueInvariant, TypeOK, RequestsSound
<1>2. UNCHANGED <<tables, raced, adrift>> /\ At(w, "loaded") /\ ~At(w, "idle") /\ Become(w, r)
  BY DEF Hang, At
<1>3. r \in Requests /\ r.op = req[w].op /\ r.was = req[w].was /\ r.overtaken = req[w].overtaken
      /\ r.pc = "hung"
  BY <1>1 DEF Requests
<1> HIDE DEF r
<1>4. Current(r)
  BY <1>1, <1>2, <1>3 DEF Current, At
<1> QED
  BY <1>2, <1>3, <1>4, GoesOn DEF Op

(* The types come, and with them nothing goes.                               *)
LEMMA SyncStep ==
  ASSUME CatalogueInvariant, SyncTypes
  PROVE  CatalogueInvariant'
<1>1. TypeOK /\ types' = [t \in Types |-> IF t \in SystemTypes THEN "there" ELSE types[t]]
      /\ UNCHANGED <<object, building, entrance, location, req, raced, adrift>>
  BY RulesApart DEF CatalogueInvariant, SyncTypes
<1>2. KnownTypes \subseteq KnownTypes' /\ There' = There /\ Built' = Built /\ Open' = Open /\ Placed' = Placed
      /\ KnownTypes' \ SystemTypes = KnownTypes \ SystemTypes
  BY <1>1 DEF KnownTypes, There, Built, Open, Placed, TypeOK
<1>3. TypeOK'
  <2>1. types' \in [Types -> {"unused", "there", "deleted"}]
    BY <1>1 DEF TypeOK
  <2> QED  BY <1>1, <1>2, <2>1 DEF TypeOK
<1>4. ObjectsFit' /\ BuildingsStand' /\ CyclesRaced'
  BY <1>1, <1>2, RulesApart DEF CatalogueInvariant, ObjectsFit, BuildingsStand, CyclesRaced, Fits, OnCycle,
     Descendants
<1>5. LocationTogether'
  BY <1>1, <1>2 DEF CatalogueInvariant, LocationTogether
<1>7. \A q : KeysHold(q) /\ q.op.kind \in Deletions => KeysHold(q)'
  BY <1>1, <1>2 DEF Deletions, KeysHold, Children, BuildingsAt
<1>8. DeletionsFinal'
  BY <1>1, <1>7 DEF CatalogueInvariant, DeletionsFinal, At, Op
<1>9. \A q : Valid(q) => Valid(q)'
  <2>1. \A q : HierarchyValid(q)' = HierarchyValid(q)
    BY <1>1, <1>2 DEF HierarchyValid, ParentValid, Children, ListedBuildings, Rooted, BuildingsAt, Fits,
       Descendants, Retypes, Moves
  <2>2. \A q : /\ Retypes(q)' = Retypes(q) /\ Moves(q)' = Moves(q)
               /\ BuildingParentValid(q)' = BuildingParentValid(q)
               /\ LinksValid(q)' = LinksValid(q)
               /\ Children(q)' = Children(q) /\ BuildingsAt(q)' = BuildingsAt(q)
    BY <1>1, <1>2 DEF Retypes, Moves, BuildingParentValid, LinksValid, Children, BuildingsAt
  <2>3. \A t, p : Fits(t, p)' = Fits(t, p)
    BY <1>1 DEF Fits
  <2> QED  BY <1>1, <1>2, <2>1, <2>2, <2>3 DEF Valid
<1>10. \A q : Current(q) => Current(q)'
  BY <1>1, <1>2, <1>9 DEF Current, Walks, Retypes, Moves, OnCycle, Descendants
<1>11. RequestsSound'
  BY <1>1, <1>10 DEF CatalogueInvariant, RequestsSound, Op
<1>12. LocksApart'
  BY <1>1 DEF CatalogueInvariant, LocksApart, Locked, At, Op
<1>13. RulesBrokenOnlyByOverlap'
  BY <1>3, <1>4 DEF RulesBrokenOnlyByOverlap, ObjectsFit, BuildingsStand, CyclesRaced
<1> QED
  BY <1>5, <1>8, <1>11, <1>12, <1>13 DEF CatalogueInvariant

-----------------------------------------------------------------------------
(* Commits *)

TablesOK ==
  /\ types \in [Types -> {"unused", "there", "deleted"}]
  /\ object \in [Objects -> ObjectRows]
  /\ building \in [Buildings -> SiteRows(Objects)]
  /\ entrance \in [Entrances -> SiteRows(Buildings)]
  /\ location \in [Locations -> LocationRows]
  /\ \A o \in There : object[o].type \in KnownTypes /\ object[o].parent \in There \cup {None}
  /\ \A b \in Built : building[b].at \in There
  /\ \A e \in Open : entrance[e].at \in Built
  /\ raced \subseteq There \cup Built /\ adrift \subseteq There

(* What a deletion has found: its row is there with nothing below it.        *)
Bare(op) ==
  /\ op.kind = "delete_object" =>
       op.object \in There /\ Children(op.object) = {} /\ BuildingsAt(op.object) = {}
  /\ op.kind = "delete_building" =>
       /\ \A e \in Open : entrance[e].at # op.building
       /\ \A l \in Placed : location[l].building # op.building
  /\ op.kind = "delete_entrance" => \A l \in Placed : location[l].entrance # op.entrance

(* The foreign keys ask of a deletion what it has found.                     *)
LEMMA DeletionKeys ==
  ASSUME NEW r, r.op.kind \in Deletions
  PROVE  (KeysHold(r) <=> Bare(r.op)) /\ (KeysHold(r)' <=> Bare(r.op)')
  BY DEF KeysHold, Bare, Deletions

(* A deletion that is about to commit has its row locked, and keeps from     *)
(* committing whoever needs that row.                                        *)
LEMMA OthersWait ==
  ASSUME CatalogueInvariant, NEW w \in Workers, NEW kind, Commits(w, kind),
         NEW v \in Workers \ {w}, At(v, "valid"), Op(v).kind \in Deletions
  PROVE  /\ Bare(Op(v))
         /\ \A x \in RowOf(Op(v)) \ {None} : x \notin Needed(Op(w)) /\ x \notin Locked(w)
         /\ Op(v).kind = "delete_object" => Op(v).object \in RowOf(Op(v)) \ {None}
         /\ Op(v).kind = "delete_building" => Op(v).building \in RowOf(Op(v)) \ {None}
         /\ Op(v).kind = "delete_entrance" => Op(v).entrance \in RowOf(Op(v)) \ {None}
<1>1. KeysHold(req[v]) /\ Shaped(Op(v))
  BY DEF CatalogueInvariant, DeletionsFinal, RequestsSound
<1>2. Bare(Op(v))
  BY <1>1, DeletionKeys DEF Op
<1>3. Locked(v) = RowOf(Op(v)) \ {None}
  BY DEF Locked, RowOf, At
<1>4. Locked(v) \cap Needed(Op(w)) = {} /\ Locked(v) \cap Locked(w) = {}
  BY DEF Commits, Ready, Free, CatalogueInvariant, LocksApart
<1>5. /\ Op(v).kind = "delete_object" => Op(v).object \in Locked(v)
      /\ Op(v).kind = "delete_building" => Op(v).building \in Locked(v)
      /\ Op(v).kind = "delete_entrance" => Op(v).entrance \in Locked(v)
  BY <1>1, LocksOfDeletions DEF At
<1> QED  BY <1>2, <1>3, <1>4, <1>5

(* The requests after a commit: one ends, the others are overtaken.          *)
LEMMA CommitRequests ==
  ASSUME CatalogueInvariant, NEW w \in Workers, NEW kind, Commits(w, kind)
  PROVE  /\ req' \in [Workers -> Requests]
         /\ req'[w] = Idle
         /\ \A v \in Workers \ {w} :
              /\ req'[v].op = req[v].op \/ req'[v] = Idle
              /\ req'[v].pc = req[v].pc
              /\ req'[v].pc # "idle" => req'[v].overtaken /\ req'[v].op = req[v].op
<1>1. req \in [Workers -> Requests]
  BY RulesApart DEF CatalogueInvariant, TypeOK
<1>2. req' = [v \in Workers |->
        IF v = w THEN Idle ELSE IF At(v, "idle") THEN Idle ELSE [req[v] EXCEPT !.overtaken = TRUE]]
  BY DEF Commits
<1>3. req'[w] = Idle
  BY <1>2
<1>4. ASSUME NEW v \in Workers \ {w}
      PROVE  /\ req'[v] \in Requests
             /\ req'[v].op = req[v].op \/ req'[v] = Idle
             /\ req'[v].pc = req[v].pc
             /\ req'[v].pc # "idle" => req'[v].overtaken /\ req'[v].op = req[v].op
  <2>1. CASE At(v, "idle")
    <3>1. req'[v] = Idle
      BY <1>2, <2>1
    <3> QED  BY <2>1, <3>1, IdleRequest DEF At
  <2>2. CASE ~At(v, "idle")
    <3> DEFINE r == [req[v] EXCEPT !.overtaken = TRUE]
    <3>1. req'[v] = r
      BY <1>2, <1>4, <2>2
    <3>2. r \in Requests /\ r.op = req[v].op /\ r.pc = req[v].pc /\ r.overtaken
      BY <1>1 DEF Requests
    <3> HIDE DEF r
    <3> QED  BY <3>1, <3>2
  <2> QED  BY <2>1, <2>2
<1>5. req' \in [Workers -> Requests]
  BY <1>2, <1>3, <1>4, IdleRequest
<1> QED  BY <1>3, <1>4, <1>5

(* A commit that leaves the tables in order and what the others are about to *)
(* delete alone.                                                             *)
LEMMA CommitStep ==
  ASSUME CatalogueInvariant, NEW w \in Workers, NEW kind, Commits(w, kind),
         TablesOK', ObjectsFit', BuildingsStand', CyclesRaced', LocationTogether',
         \A v \in Workers \ {w} :
           At(v, "valid") /\ Op(v).kind \in Deletions => \A op : op = Op(v) => Bare(op)'
  PROVE  CatalogueInvariant'
<1>1. /\ req' \in [Workers -> Requests]
      /\ req'[w] = Idle
      /\ \A v \in Workers \ {w} :
           /\ req'[v].op = req[v].op \/ req'[v] = Idle
           /\ req'[v].pc = req[v].pc
           /\ req'[v].pc # "idle" => req'[v].overtaken /\ req'[v].op = req[v].op
  BY CommitRequests
<1>2. RulesBrokenOnlyByOverlap'
  BY <1>1 DEF TablesOK, TypeOK, RulesBrokenOnlyByOverlap, ObjectsFit, BuildingsStand, CyclesRaced
<1>3. ASSUME NEW v \in Workers, At(v, "valid")', Op(v)'.kind \in Deletions
      PROVE  KeysHold(req[v])'
  <2>1. v # w /\ req[v].pc = "valid" /\ req'[v].op = req[v].op
    BY <1>1, <1>3, IdleRequest DEF At
  <2>2. PICK r : r = req'[v]
    OBVIOUS
  <2>3. Bare(r.op)'
    BY <1>3, <2>1, <2>2 DEF At, Op
  <2>4. KeysHold(r)'
    BY <1>3, <2>2, <2>3, DeletionKeys DEF Op
  <2> QED  BY <2>2, <2>4
<1>4. DeletionsFinal'
  BY <1>3 DEF DeletionsFinal
<1>5. \A v \in Workers : Locked(v)' \subseteq Locked(v)
  BY <1>1, IdleRequest DEF Locked, At, Op
<1>6. LocksApart'
  BY <1>5 DEF CatalogueInvariant, LocksApart
<1>7. ASSUME NEW v \in Workers  PROVE Shaped(Op(v))' /\ Current(req[v])'
  <2>1. Shaped(req'[v].op)
    BY <1>1, IdleRequest DEF CatalogueInvariant, RequestsSound, Op
  <2>2. req'[v].pc = "idle" \/ req'[v].overtaken
    BY <1>1, IdleRequest
  <2>3. Current(req[v])'
    BY <2>2 DEF Current
  <2> QED  BY <2>1, <2>3 DEF Op
<1>8. RequestsSound'
  BY <1>7 DEF RequestsSound
<1> QED  BY <1>2, <1>4, <1>6, <1>8 DEF CatalogueInvariant

(* What a commit knows: its worker's request is current.                     *)
LEMMA Committing ==
  ASSUME CatalogueInvariant, NEW w \in Workers, NEW kind, Commits(w, kind)
  PROVE  /\ TypeOK /\ TablesOK /\ ObjectsFit /\ BuildingsStand /\ CyclesRaced /\ LocationTogether
         /\ Op(w).kind = kind /\ req[w].op = Op(w) /\ Op(w) \in Bodies /\ Shaped(Op(w)) /\ KeysHold(req[w])
         /\ ~req[w].overtaken => Valid(req[w]) /\ (Walks(req[w]) => ~OnCycle(Op(w).object))
         /\ ~req[w].overtaken /\ Op(w).object # None => req[w].was = object[Op(w).object]
         /\ req[w].was \in ObjectRows
<1>1. TypeOK /\ ObjectsFit /\ BuildingsStand /\ CyclesRaced /\ LocationTogether /\ Current(req[w])
      /\ Shaped(Op(w))
  BY RulesApart DEF CatalogueInvariant, RequestsSound
<1>2. TablesOK
  BY <1>1 DEF TypeOK, TablesOK
<1>3. req[w] \in Requests /\ Op(w).kind = kind /\ KeysHold(req[w]) /\ req[w].pc = "valid"
  BY <1>1 DEF Commits, Ready, At, TypeOK
<1> QED  BY <1>1, <1>2, <1>3 DEF Op, Current, Requests

(* A row that is not there has no type.                                      *)
LEMMA NotTypes == "unused" \notin Types /\ "deleted" \notin Types
<1>1. "unused" \notin AllSystemTypes /\ "deleted" \notin AllSystemTypes
  BY DEF AllSystemTypes, Towns, Districts, Quarters, Territories, Streets
<1> QED  BY <1>1, TypeAssumption DEF Types

(* No type goes that an object has.                                          *)
LEMMA WriteTypeStep ==
  ASSUME CatalogueInvariant, NEW w \in Workers, WriteType(w)
  PROVE  CatalogueInvariant'
<1>1. PICK kind \in {"create_type", "delete_type"} : Commits(w, kind)
        /\ types' = [types EXCEPT ![Op(w).type] = IF kind = "create_type" THEN "there" ELSE "deleted"]
  BY DEF WriteType
<1>2. UNCHANGED <<object, building, entrance, location, raced, adrift>>
  BY DEF WriteType
<1>3. TablesOK /\ Shaped(Op(w)) /\ KeysHold(req[w]) /\ req[w].op.kind = kind
  BY <1>1, Committing DEF Op
<1>4. There' = There /\ Built' = Built /\ Open' = Open /\ Placed' = Placed
  BY <1>2 DEF There, Built, Open, Placed
<1>5. Op(w).type \in Types /\ types' \in [Types -> {"unused", "there", "deleted"}]
  BY <1>1, <1>3 DEF Shaped, TablesOK, Op
<1>6. \A o \in There : object[o].type \in KnownTypes'
  <2>1. ASSUME NEW o \in There  PROVE object[o].type \in KnownTypes'
    <3>1. object[o].type \in KnownTypes
      BY <1>3 DEF TablesOK
    <3>2. kind = "delete_type" => object[o].type # Op(w).type
      BY <1>3 DEF KeysHold, Op
    <3> QED  BY <1>1, <1>3, <1>5, <3>1, <3>2 DEF KnownTypes, TablesOK
  <2> QED  BY <2>1
<1>7. TablesOK'
  BY <1>2, <1>3, <1>4, <1>5, <1>6 DEF TablesOK
<1>8. ObjectsFit' /\ BuildingsStand' /\ CyclesRaced' /\ LocationTogether'
  <2>1. ObjectsFit /\ BuildingsStand /\ CyclesRaced /\ LocationTogether
    BY <1>1, Committing
  <2>2. ObjectsFit' /\ BuildingsStand'
    BY <1>2, <1>4, <2>1 DEF ObjectsFit, BuildingsStand, Fits
  <2>3. CyclesRaced' /\ LocationTogether'
    BY <1>2, <1>4, <2>1 DEF CyclesRaced, OnCycle, Descendants, LocationTogether
  <2> QED  BY <2>2, <2>3
<1>9. \A v \in Workers \ {w} :
        At(v, "valid") /\ Op(v).kind \in Deletions => \A op : op = Op(v) => Bare(op)'
  <2>1. \A op : Bare(op) => Bare(op)'
    BY <1>2, <1>4 DEF Bare, Children, BuildingsAt
  <2> QED  BY <1>1, <2>1, OthersWait
<1> QED  BY <1>1, <1>7, <1>8, <1>9, CommitStep

(* A type under a parent of a table.                                         *)
Suits(rows, t, p) ==
  IF p = None THEN Category(t) \in RootCategories
  ELSE Category(t) \in ChildCategories(rows[p].type)

(* The rules after a write of the object x: the one who wrote had been       *)
(* overtaken, or x goes well with its parent, its children and buildings,    *)
(* and closes no cycle.                                                      *)
LEMMA ObjectWritten ==
  ASSUME TablesOK, ObjectsFit, BuildingsStand, CyclesRaced,
         NEW x \in Objects, NEW row \in ObjectRows, object' = [object EXCEPT ![x] = row],
         UNCHANGED building, raced \ {x} \subseteq raced', adrift \ {x} \subseteq adrift',
         \/ x \in raced'
         \/ /\ row.type \in Types => Suits(object', row.type, row.parent)
            /\ \A c \in There \ {x} : object[c].parent = x => Suits(object', object[c].type, x)
            /\ \A b \in Built : building[b].at = x => AllowsBuildings(row.type) \/ x \in adrift'
            /\ x \notin Below(object', x)
  PROVE  ObjectsFit' /\ BuildingsStand' /\ CyclesRaced'
<1>1. object'[x] = row /\ (\A y \in Objects \ {x} : object'[y] = object[y]) /\ Built' = Built
  BY DEF TablesOK, Built
<1>2. There' \ {x} = There \ {x} /\ (x \in There' <=> row.type \in Types) /\ There \subseteq Objects
  BY <1>1 DEF There
<1>3. ObjectsFit'
  <2>1. ASSUME NEW o \in There'
        PROVE  Suits(object', object'[o].type, object'[o].parent) \/ raced' \cap {o, object'[o].parent} # {}
    <3>1. CASE o = x
      BY <1>1, <1>2, <2>1, <3>1
    <3>2. CASE o # x
      <4>1. o \in There /\ object'[o] = object[o]
        BY <1>1, <1>2, <2>1, <3>2
      <4>2. CASE object[o].parent = x
        BY <3>2, <4>1, <4>2
      <4>3. CASE object[o].parent # x
        <5>1. Suits(object, object[o].type, object[o].parent) \/ raced \cap {o, object[o].parent} # {}
          BY <4>1 DEF ObjectsFit, Fits, Suits
        <5>2. object[o].parent # None => object'[object[o].parent] = object[object[o].parent]
          BY <1>1, <1>2, <4>1, <4>3 DEF TablesOK
        <5>3. Suits(object, object[o].type, object[o].parent) => Suits(object', object[o].type, object[o].parent)
          BY <5>2 DEF Suits
        <5> QED  BY <3>2, <4>1, <4>3, <5>1, <5>3
      <4> QED  BY <4>2, <4>3
    <3> QED  BY <3>1, <3>2
  <2> QED  BY <2>1 DEF ObjectsFit, Fits, Suits
<1>4. BuildingsStand'
  <2>1. ASSUME NEW b \in Built
        PROVE  \/ AllowsBuildings(object'[building[b].at].type)
               \/ raced' \cap {b, building[b].at} # {} \/ building[b].at \in adrift'
    <3>1. building[b].at \in There /\ b # x
      BY <2>1, IdAssumption DEF TablesOK, Built
    <3>2. CASE building[b].at = x
      BY <1>1, <2>1, <3>2
    <3>3. CASE building[b].at # x
      <4>1. object'[building[b].at] = object[building[b].at]
        BY <1>1, <1>2, <3>1, <3>3
      <4> QED  BY <2>1, <3>1, <3>3, <4>1 DEF BuildingsStand
    <3> QED  BY <3>2, <3>3
  <2> QED  BY <1>1, <2>1 DEF BuildingsStand
<1>5. CyclesRaced'
  <2>1. ASSUME NEW o \in There', o \in Below(object', o)
        PROVE  \E p \in raced' \cap Below(object', o) : p \in Below(object', p)
    <3>1. CASE x \in Cycle(object', o)
      <4>1. x \in Below(object', o) /\ x \in Below(object', x)
        BY <3>1, BelowBelow DEF Cycle
      <4> QED  BY <4>1
    <3>2. CASE x \notin Cycle(object', o)
      <4>1. DifferAt(object', object, x)
        BY <1>1 DEF DifferAt
      <4>2. Cycle(object, o) = Cycle(object', o) /\ o \in Below(object, o)
        BY <2>1, <3>2, <4>1, CycleKept
      <4>3. o \in There
        BY <4>2, BelowParent, ThereKnown
      <4>4. PICK p \in raced \cap Below(object, o) : p \in Below(object, p)
        BY <4>2, <4>3 DEF CyclesRaced, OnCycle, Descendants
      <4>5. p \in Cycle(object', o)
        BY <4>2, <4>4, SameCycle DEF Cycle
      <4>6. p \in Below(object', o) /\ p \in Below(object', p)
        BY <4>5, BelowBelow DEF Cycle
      <4> QED  BY <3>2, <4>4, <4>5, <4>6
    <3> QED  BY <3>1, <3>2
  <2> QED  BY <2>1 DEF CyclesRaced, OnCycle, Descendants
<1> QED  BY <1>3, <1>4, <1>5

(* The tables after a write of an object under an object that is there.      *)
LEMMA ObjectTyped ==
  ASSUME TablesOK, NEW x \in Objects, NEW row \in ObjectRows, object' = [object EXCEPT ![x] = row],
         UNCHANGED <<types, building, entrance, location>>,
         row.type \in Types => row.type \in KnownTypes /\ row.parent \in There \cup {x, None},
         row.type \notin Types => (\A c \in There : object[c].parent # x) /\ (\A b \in Built : building[b].at # x),
         raced' \subseteq raced \cup {x}, adrift' \subseteq adrift \cup {x},
         row.type \notin Types => x \notin raced' \cup adrift'
  PROVE  TablesOK'
<1>1. object'[x] = row /\ (\A y \in Objects \ {x} : object'[y] = object[y]) /\ object' \in [Objects -> ObjectRows]
  BY DEF TablesOK
<1>2. There' \ {x} = There \ {x} /\ (x \in There' <=> row.type \in Types) /\ There \subseteq Objects
      /\ There' \subseteq Objects
  BY <1>1 DEF There
<1>3. KnownTypes' = KnownTypes /\ Built' = Built /\ Open' = Open
  BY DEF KnownTypes, Built, Open
<1>4. \A o \in There' : object'[o].type \in KnownTypes /\ object'[o].parent \in There' \cup {None}
  <2>1. ASSUME NEW o \in There'  PROVE object'[o].type \in KnownTypes /\ object'[o].parent \in There' \cup {None}
    <3>1. CASE o = x
      BY <1>1, <1>2, <2>1, <3>1
    <3>2. CASE o # x
      <4>1. o \in There /\ object'[o] = object[o]
        BY <1>1, <1>2, <2>1, <3>2
      <4> QED  BY <1>2, <4>1 DEF TablesOK
    <3> QED  BY <3>1, <3>2
  <2> QED  BY <2>1
<1>5. \A b \in Built : building[b].at \in There'
  BY <1>2 DEF TablesOK
<1>6. raced' \subseteq There' \cup Built /\ adrift' \subseteq There'
  BY <1>2, IdAssumption DEF TablesOK, Built
<1> QED  BY <1>1, <1>3, <1>4, <1>5, <1>6 DEF TablesOK

(* A new object has nothing below it, and is on no cycle.                    *)
LEMMA CreateObjectStep ==
  ASSUME CatalogueInvariant, NEW w \in Workers, CreateAddressObject(w)
  PROVE  CatalogueInvariant'
<1> DEFINE row == [type |-> Op(w).type, parent |-> Op(w).parent]
<1>1. PICK x \in Objects : object[x] = Unused /\ object' = [object EXCEPT ![x] = row] /\ Marks(w, x)
  BY DEF CreateAddressObject
<1>2. Commits(w, "create_object") /\ UNCHANGED <<types, building, entrance, location, adrift>>
  BY DEF CreateAddressObject
<1>3. /\ TablesOK /\ ObjectsFit /\ BuildingsStand /\ CyclesRaced /\ LocationTogether
      /\ Op(w) \in Bodies /\ Op(w).type \in KnownTypes /\ Op(w).parent \in There \cup {None}
      /\ ~req[w].overtaken => Fits(Op(w).type, Op(w).parent)
  <2>1. KeysHold(req[w]) /\ req[w].op = Op(w) /\ Op(w).kind = "create_object"
    BY <1>2, Committing
  <2>2. Op(w).type \in KnownTypes /\ Op(w).parent \in There \cup {None}
    BY <2>1 DEF KeysHold
  <2>3. ~req[w].overtaken => Fits(Op(w).type, Op(w).parent)
    BY <1>2, <2>1, Committing DEF Valid
  <2> QED  BY <1>2, <2>2, <2>3, Committing
<1>4. x \notin There /\ There \subseteq Objects /\ x \notin Built
  BY <1>1, NotTypes, IdAssumption DEF There, Unused, Built
<1>5. row \in ObjectRows /\ row.type = Op(w).type /\ row.parent = Op(w).parent
  BY <1>3, <1>4 DEF ObjectRows, KnownTypes, Types
<1> HIDE DEF row
<1>6. (\A c \in There : object[c].parent # x) /\ (\A b \in Built : building[b].at # x) /\ row.parent # x
  BY <1>3, <1>4, <1>5, IdAssumption DEF TablesOK
<1>7. raced' = IF req[w].overtaken THEN raced \cup {x} ELSE raced \ {x}
  BY <1>1 DEF Marks
<1>8. object'[x] = row /\ DifferAt(object', object, x) /\ DifferAt(object, object', x)
  BY <1>1, <1>3 DEF TablesOK, DifferAt
<1>9. TablesOK'
  <2>1. /\ row.type \in Types /\ row.type \in KnownTypes /\ row.parent \in There \cup {x, None}
        /\ raced' \subseteq raced \cup {x} /\ adrift' \subseteq adrift \cup {x}
    BY <1>2, <1>3, <1>5, <1>7 DEF KnownTypes
  <2> QED  BY <1>1, <1>2, <1>3, <1>5, <2>1, ObjectTyped
<1>10. x \notin Below(object', x)
  <2>1. ASSUME NEW c \in Known(object')  PROVE object'[c].parent # x
    <3>1. CASE c = x
      BY <1>6, <1>8, <3>1
    <3>2. CASE c # x
      <4>1. c \in There /\ object'[c] = object[c]
        BY <1>8, <2>1, <3>2 DEF DifferAt, Known, There
      <4> QED  BY <1>6, <4>1
    <3> QED  BY <3>1, <3>2
  <2> QED  BY <2>1, NothingBelow
<1>11. ~req[w].overtaken => Suits(object', row.type, row.parent)
  <2>1. row.parent # None => object'[row.parent] = object[row.parent]
    BY <1>3, <1>4, <1>5, <1>8 DEF DifferAt
  <2> QED  BY <1>3, <1>5, <2>1 DEF Fits, Suits
<1>12. ObjectsFit' /\ BuildingsStand' /\ CyclesRaced'
  BY <1>1, <1>2, <1>3, <1>5, <1>6, <1>7, <1>10, <1>11, ObjectWritten
<1>13. LocationTogether'
  BY <1>2, <1>3 DEF LocationTogether, Placed, Built, Open
<1>14. ASSUME NEW v \in Workers \ {w}, At(v, "valid"), Op(v).kind \in Deletions,
              NEW op, op = Op(v)
       PROVE  Bare(op)'
  <2>1. Bare(op) /\ (op.kind = "delete_object" => op.object # None /\ op.object \notin Needed(Op(w)))
    BY <1>2, <1>14, OthersWait
  <2>2. Op(w).parent # None => Op(w).parent \in Needed(Op(w))
    BY <1>2, Committing DEF Needed, Deletions
  <2>3. op.kind = "delete_object" => op.object \in There' /\ Children(op.object)' = {}
    <3>1. ASSUME op.kind = "delete_object", NEW c \in There', object'[c].parent = op.object  PROVE FALSE
      <4>1. c # x
        BY <1>5, <1>8, <2>1, <2>2, <3>1
      <4>2. c \in There /\ object'[c] = object[c]
        BY <1>8, <3>1, <4>1 DEF DifferAt, There
      <4> QED  BY <2>1, <3>1, <4>2 DEF Bare, Children
    <3>2. There \subseteq There'
      BY <1>4, <1>8 DEF There, DifferAt
    <3> QED  BY <2>1, <3>1, <3>2 DEF Bare, Children
  <2> QED  BY <1>2, <2>1, <2>3 DEF Bare, BuildingsAt, Built, Open, Placed
<1> QED  BY <1>2, <1>9, <1>12, <1>13, <1>14, CommitStep

(* An object goes with nothing below it.                                     *)
LEMMA DeleteObjectStep ==
  ASSUME CatalogueInvariant, NEW w \in Workers, DeleteAddressObject(w)
  PROVE  CatalogueInvariant'
<1> DEFINE x == Op(w).object
<1>1. Commits(w, "delete_object") /\ UNCHANGED <<types, building, entrance, location>>
      /\ object' = [object EXCEPT ![x] = Deleted] /\ raced' = raced \ {x} /\ adrift' = adrift \ {x}
  BY DEF DeleteAddressObject
<1>2. TablesOK /\ ObjectsFit /\ BuildingsStand /\ CyclesRaced /\ LocationTogether
      /\ x \in There /\ x \in Objects /\ Children(x) = {} /\ BuildingsAt(x) = {}
      /\ Op(w).kind = "delete_object"
  <2>1. KeysHold(req[w]) /\ req[w].op = Op(w) /\ Op(w).kind = "delete_object"
    BY <1>1, Committing
  <2>2. x \in There /\ Children(x) = {} /\ BuildingsAt(x) = {}
    BY <2>1 DEF KeysHold, Deletions
  <2> QED  BY <1>1, <2>1, <2>2, Committing DEF There
<1> HIDE DEF x
<1>3. Deleted \in ObjectRows /\ Deleted.type \notin Types /\ Deleted.parent = None
  BY NotTypes DEF Deleted, ObjectRows
<1>4. (\A c \in There : object[c].parent # x) /\ (\A b \in Built : building[b].at # x)
  BY <1>2 DEF Children, BuildingsAt
<1>5. TablesOK'
  BY <1>1, <1>2, <1>3, <1>4, ObjectTyped
<1>6. object'[x] = Deleted /\ x # None /\ \A y \in Objects \ {x} : object'[y] = object[y]
  BY <1>1, <1>2, IdAssumption DEF TablesOK
<1>7. x \notin Below(object', x)
  BY <1>3, <1>6, TopOnNoCycle
<1>8. ObjectsFit' /\ BuildingsStand' /\ CyclesRaced'
  BY <1>1, <1>2, <1>3, <1>4, <1>7, ObjectWritten
<1>9. LocationTogether'
  BY <1>1, <1>2 DEF LocationTogether, Placed, Built, Open
<1>10. There' = There \ {x}
  BY <1>2, <1>3, <1>6 DEF There
<1>11. ASSUME NEW v \in Workers \ {w}, At(v, "valid"), Op(v).kind \in Deletions,
              NEW op, op = Op(v)
       PROVE  Bare(op)'
  <2>1. Bare(op) /\ (op.kind = "delete_object" => op.object # None /\ op.object \notin Locked(w))
    BY <1>1, <1>11, OthersWait
  <2>2. x \in Locked(w)
    BY <1>1, <1>2, <1>6 DEF x, Locked, Deletions, Commits, Ready, At
  <2>3. op.kind = "delete_object" => op.object \in There' /\ Children(op.object)' = {}
    BY <1>6, <1>10, <2>1, <2>2 DEF Bare, Children, There
  <2> QED  BY <1>1, <2>1, <2>3 DEF Bare, BuildingsAt, Built, Open, Placed
<1> QED  BY <1>1, <1>5, <1>8, <1>9, <1>11, CommitStep

(* The object as a request that nobody has overtaken writes it.              *)
LEMMA Written ==
  ASSUME CatalogueInvariant, NEW w \in Workers, Commits(w, "update_object")
  PROVE  /\ Op(w).object \in There /\ Op(w).object \in Objects
         /\ Reparented(req[w]) \in ObjectRows
         /\ Reparented(req[w]).type \in KnownTypes /\ Reparented(req[w]).parent \in There \cup {None}
         /\ Reparented(req[w]).parent \in {object[Op(w).object].parent, Op(w).parent}
         /\ ~(Retypes(req[w]) \/ Moves(req[w])) => Reparented(req[w]) = object[Op(w).object]
         /\ (Retypes(req[w]) \/ Moves(req[w])) /\ ~req[w].overtaken =>
              /\ Reparented(req[w]).type = Op(w).type /\ Reparented(req[w]).parent = Op(w).parent
              /\ HierarchyValid(req[w]) /\ (Walks(req[w]) => ~OnCycle(Op(w).object))
<1> DEFINE r == req[w]
           x == Op(w).object
           row == Reparented(r)
<1>1. /\ TablesOK /\ r.op = Op(w) /\ Op(w).kind = "update_object" /\ Op(w) \in Bodies /\ Shaped(Op(w))
      /\ KeysHold(r) /\ r.was \in ObjectRows
      /\ ~r.overtaken => Valid(r) /\ (Walks(r) => ~OnCycle(x))
      /\ ~r.overtaken /\ x # None => r.was = object[x]
  BY Committing
<1>2. x \in There /\ x \in Objects /\ x # None
      /\ (Retypes(r) => Op(w).type \in KnownTypes) /\ (Moves(r) => Op(w).parent \in There \cup {None})
  BY <1>1, IdAssumption DEF KeysHold, There
<1>3. object[x].type \in KnownTypes /\ object[x].parent \in There \cup {None} /\ object[x] \in ObjectRows
  BY <1>1, <1>2 DEF TablesOK
<1>4. /\ row.type = IF Retypes(r) THEN Op(w).type ELSE object[x].type
      /\ row.parent = IF Moves(r) THEN Op(w).parent ELSE object[x].parent
      /\ row = [type |-> row.type, parent |-> row.parent]
  BY <1>1 DEF Reparented
<1>5. row.type \in KnownTypes /\ row.parent \in There \cup {None}
  BY <1>2, <1>3, <1>4
<1>6. row \in ObjectRows
  BY <1>4, <1>5 DEF ObjectRows, KnownTypes, There
<1>7. ~(Retypes(r) \/ Moves(r)) => row = object[x]
  BY <1>3, <1>4 DEF ObjectRows
<1>8. ASSUME Retypes(r) \/ Moves(r), ~r.overtaken
      PROVE  /\ row.type = Op(w).type /\ row.parent = Op(w).parent
             /\ HierarchyValid(r) /\ (Walks(r) => ~OnCycle(x))
  <2>1. Valid(r) /\ r.was = object[x]
    BY <1>1, <1>2, <1>8
  <2>2. HierarchyValid(r)
    BY <1>1, <1>8, <2>1 DEF Valid
  <2> QED  BY <1>1, <1>4, <1>8, <2>1, <2>2 DEF Retypes, Moves
<1> QED  BY <1>2, <1>4, <1>5, <1>6, <1>7, <1>8

(* Such a request closes no cycle through its object.                        *)
LEMMA MoveClosesNoCycle ==
  ASSUME CatalogueInvariant, NEW w \in Workers, UpdateAddressObject(w),
         Retypes(req[w]) \/ Moves(req[w]), ~req[w].overtaken
  PROVE  /\ Op(w).object \notin Below(object', Op(w).object)
         /\ object'[Op(w).object].parent = None \/ ~OnCycle(Op(w).object)
<1> DEFINE r == req[w]
           x == Op(w).object
           row == Reparented(r)
<1>1. Commits(w, "update_object") /\ object' = [object EXCEPT ![x] = row]
  BY DEF UpdateAddressObject
<1>2. x \in Objects /\ row.parent = Op(w).parent /\ HierarchyValid(r) /\ (Walks(r) => ~OnCycle(x))
      /\ r.op = Op(w) /\ Op(w).kind = "update_object" /\ TablesOK
  BY <1>1, Written, Committing
<1>3. object'[x] = row /\ DifferAt(object, object', x)
  BY <1>1, <1>2 DEF TablesOK, DifferAt
<1>4. CASE Op(w).parent = None
  BY <1>2, <1>3, <1>4, TopOnNoCycle
<1>5. CASE Op(w).parent # None
  <2>1. Op(w).parent \in There \ ({x} \cup Below(object, x))
    BY <1>2, <1>5 DEF HierarchyValid, ParentValid, Descendants
  <2>2. ~OnCycle(x)
    BY <1>2, <2>1 DEF Walks
  <2>3. x \notin Below(object, x)
    BY <2>2 DEF OnCycle, Descendants
  <2>4. object'[x].parent \notin {x} \cup Below(object, x)
    BY <1>2, <1>3, <2>1
  <2>5. x \notin Below(object', x)
    BY <1>3, <2>3, <2>4, MovedOnNoCycle
  <2> QED  BY <2>2, <2>5
<1> QED  BY <1>4, <1>5

(* An object moves or gets another type, or the request writes nothing.      *)
LEMMA UpdateObjectStep ==
  ASSUME CatalogueInvariant, NEW w \in Workers, UpdateAddressObject(w)
  PROVE  CatalogueInvariant'
<1> DEFINE r == req[w]
           x == Op(w).object
           row == Reparented(r)
<1>1. Commits(w, "update_object") /\ object' = [object EXCEPT ![x] = row]
      /\ UNCHANGED <<types, building, entrance, location>>
      /\ IF Retypes(r) \/ Moves(r)
         THEN Marks(w, x) /\ adrift' = IF Rooted(x) THEN adrift \ {x} ELSE adrift \cup {x}
         ELSE UNCHANGED <<raced, adrift>>
  BY DEF UpdateAddressObject
<1>2. /\ TablesOK /\ ObjectsFit /\ BuildingsStand /\ CyclesRaced /\ LocationTogether
      /\ Op(w).kind = "update_object" /\ r.op = Op(w)
  BY <1>1, Committing
<1>3. /\ x \in There /\ x \in Objects /\ row \in ObjectRows
      /\ row.type \in KnownTypes /\ row.parent \in There \cup {None}
      /\ row.parent \in {object[x].parent, Op(w).parent}
      /\ ~(Retypes(r) \/ Moves(r)) => row = object[x]
      /\ (Retypes(r) \/ Moves(r)) /\ ~r.overtaken =>
           /\ row.type = Op(w).type /\ row.parent = Op(w).parent
           /\ HierarchyValid(r)
  BY <1>1, Written
<1>4. (Retypes(r) \/ Moves(r)) /\ ~r.overtaken => x \notin Below(object', x)
  BY MoveClosesNoCycle
<1> HIDE DEF x, row
<1>5. object'[x] = row /\ \A y \in Objects \ {x} : object'[y] = object[y]
  BY <1>1, <1>2, <1>3 DEF TablesOK
<1>6. row.type \in Types /\ There \subseteq Objects /\ There' = There
  BY <1>3, <1>5 DEF KnownTypes, There
<1>7. TablesOK'
  <2>1. raced' \subseteq raced \cup {x} /\ adrift' \subseteq adrift \cup {x}
    BY <1>1 DEF Marks
  <2> QED  BY <1>1, <1>2, <1>3, <1>6, <2>1, ObjectTyped
<1>8. ObjectsFit' /\ BuildingsStand' /\ CyclesRaced'
  <2>1. CASE ~(Retypes(r) \/ Moves(r))
    <3>1. object' = object /\ UNCHANGED <<building, raced, adrift>>
      BY <1>1, <1>2, <1>3, <2>1 DEF TablesOK
    <3> QED
      BY <1>2, <3>1 DEF ObjectsFit, BuildingsStand, CyclesRaced, Fits, There, Built, OnCycle, Descendants
  <2>2. CASE (Retypes(r) \/ Moves(r)) /\ r.overtaken
    <3>1. x \in raced' /\ raced \subseteq raced' /\ adrift \ {x} \subseteq adrift'
      BY <1>1, <2>2 DEF Marks
    <3> QED  BY <1>1, <1>2, <1>3, <3>1, ObjectWritten
  <2>3. CASE (Retypes(r) \/ Moves(r)) /\ ~r.overtaken
    <3>1. raced' = raced \ {x} /\ adrift \ {x} \subseteq adrift' /\ (~Rooted(x) => x \in adrift')
      BY <1>1, <2>3 DEF Marks
    <3>2. /\ row.parent = None \/ row.parent \in There \ {x}
          /\ Fits(row.type, row.parent)
          /\ \A c \in Children(x) : Category(object[c].type) \in ChildCategories(row.type)
          /\ AllowsBuildings(row.type) \/ ListedBuildings(x) = {}
      BY <1>2, <1>3, <2>3 DEF HierarchyValid, ParentValid, x
    <3>3. Suits(object', row.type, row.parent)
      <4>1. row.parent # None => object'[row.parent] = object[row.parent]
        BY <1>5, <1>6, <3>2
      <4> QED  BY <3>2, <4>1 DEF Fits, Suits
    <3>4. \A c \in There \ {x} : object[c].parent = x => Suits(object', object[c].type, x)
      BY <1>3, <1>5, <3>2, IdAssumption DEF Suits, Children
    <3>5. \A b \in Built : building[b].at = x => AllowsBuildings(row.type) \/ x \in adrift'
      BY <3>1, <3>2 DEF ListedBuildings, BuildingsAt
    <3> QED  BY <1>1, <1>2, <1>3, <1>4, <2>3, <3>1, <3>3, <3>4, <3>5, ObjectWritten
  <2> QED  BY <2>1, <2>2, <2>3
<1>9. LocationTogether'
  BY <1>1, <1>2 DEF LocationTogether, Placed, Built, Open
<1>10. ASSUME NEW v \in Workers \ {w}, At(v, "valid"), Op(v).kind \in Deletions,
              NEW op, op = Op(v)
       PROVE  Bare(op)'
  <2>1. Bare(op) /\ (op.kind = "delete_object" => op.object # None /\ op.object \notin Needed(Op(w)))
    BY <1>1, <1>10, OthersWait
  <2>2. Op(w).parent # None => Op(w).parent \in Needed(Op(w))
    BY <1>2 DEF Needed, Deletions
  <2>3. op.kind = "delete_object" => op.object \in There' /\ Children(op.object)' = {}
    <3>1. ASSUME op.kind = "delete_object", NEW c \in There', object'[c].parent = op.object  PROVE FALSE
      <4>1. c \in There /\ object[c].parent # op.object
        BY <1>6, <2>1, <3>1 DEF Bare, Children
      <4>2. c = x /\ row.parent = op.object
        BY <1>5, <1>6, <3>1, <4>1
      <4>3. op.object = Op(w).parent
        BY <1>3, <4>1, <4>2
      <4> QED  BY <2>1, <2>2, <3>1, <4>3
    <3> QED  BY <1>6, <2>1, <3>1 DEF Bare, Children
  <2> QED  BY <1>1, <2>1, <2>3 DEF Bare, BuildingsAt, Built, Open, Placed
<1> QED  BY <1>1, <1>7, <1>8, <1>9, <1>10, CommitStep

(* A building is written: its request had been overtaken, or it stands where *)
(* buildings may.                                                            *)
LEMMA WriteBuildingStep ==
  ASSUME CatalogueInvariant, NEW w \in Workers, WriteBuilding(w)
  PROVE  CatalogueInvariant'
<1> DEFINE row == [state |-> "there", at |-> Op(w).parent]
<1>1. PICK b \in Buildings, kind \in {"create_building", "update_building"} :
        /\ Commits(w, kind) /\ (kind = "update_building" => b = Op(w).building)
        /\ (kind = "create_building" => building[b] = NoBuilding)
        /\ building' = [building EXCEPT ![b] = row]
        /\ IF building'[b] # building[b] THEN Marks(w, b) ELSE UNCHANGED raced
  BY DEF WriteBuilding
<1>2. UNCHANGED <<types, object, entrance, location, adrift>>
  BY DEF WriteBuilding
<1>3. /\ TablesOK /\ ObjectsFit /\ BuildingsStand /\ CyclesRaced /\ LocationTogether
      /\ Op(w).kind = kind /\ Op(w) \in Bodies
      /\ Op(w).parent \in There
      /\ ~req[w].overtaken => AllowsBuildings(object[Op(w).parent].type)
  <2>1. KeysHold(req[w]) /\ req[w].op = Op(w) /\ Op(w).kind = kind
    BY <1>1, Committing
  <2>2. Op(w).parent \in There
    BY <2>1 DEF KeysHold, Deletions
  <2>3. ~req[w].overtaken => BuildingParentValid(Op(w).parent)
    BY <1>1, <2>1, Committing DEF Valid
  <2> QED  BY <1>1, <2>1, <2>2, <2>3, Committing DEF BuildingParentValid
<1>4. row \in SiteRows(Objects) /\ row.state = "there" /\ row.at = Op(w).parent
  BY <1>3 DEF SiteRows, There
<1> HIDE DEF row
<1>5. building' \in [Buildings -> SiteRows(Objects)] /\ building'[b] = row
      /\ \A c \in Buildings \ {b} : building'[c] = building[c]
  BY <1>1, <1>3, <1>4 DEF TablesOK
<1>6. Built' = Built \cup {b} /\ There' = There /\ Open' = Open /\ Placed' = Placed /\ KnownTypes' = KnownTypes
      /\ Built \subseteq Buildings
  BY <1>2, <1>4, <1>5 DEF Built, There, Open, Placed, KnownTypes
<1>7. raced' = raced \/ raced' = raced \cup {b} \/ raced' = raced \ {b}
  BY <1>1 DEF Marks
<1>8. TablesOK'
  <2>1. \A c \in Built' : building'[c].at \in There
    BY <1>3, <1>4, <1>5, <1>6 DEF TablesOK
  <2>2. raced' \subseteq There \cup Built'
    BY <1>3, <1>6, <1>7 DEF TablesOK
  <2> QED  BY <1>2, <1>3, <1>5, <1>6, <2>1, <2>2 DEF TablesOK
<1>9. b \notin There /\ \A o \in There : object[o].parent # b
  BY <1>3, IdAssumption DEF TablesOK, There
<1>10. ObjectsFit'
  <2>1. \A o \in There : raced \cap {o, object[o].parent} # {} => raced' \cap {o, object[o].parent} # {}
    BY <1>7, <1>9
  <2> QED  BY <1>2, <1>3, <1>6, <2>1 DEF ObjectsFit, Fits
<1>11. BuildingsStand'
  <2>1. ASSUME NEW c \in Built'
        PROVE  \/ AllowsBuildings(object[building'[c].at].type)
               \/ raced' \cap {c, building'[c].at} # {} \/ building'[c].at \in adrift
    <3>1. CASE c = b /\ building'[b] # building[b]
      <4>1. req[w].overtaken => b \in raced'
        BY <1>1, <3>1 DEF Marks
      <4> QED  BY <1>3, <1>4, <1>5, <3>1, <4>1
    <3>2. CASE ~(c = b /\ building'[b] # building[b])
      <4>1. building'[c] = building[c] /\ c \in Built
        BY <1>4, <1>5, <1>6, <2>1, <3>2 DEF Built
      <4>2. raced' \cap {c, building[c].at} # {} \/ raced \cap {c, building[c].at} = {}
        <5>1. building[c].at # b
          BY <1>3, <1>9, <4>1 DEF TablesOK
        <5>2. c = b => raced' = raced
          BY <1>1, <3>2
        <5> QED  BY <1>7, <5>1, <5>2
      <4> QED  BY <1>3, <4>1, <4>2 DEF BuildingsStand
    <3> QED  BY <3>1, <3>2
  <2> QED  BY <1>2, <2>1 DEF BuildingsStand
<1>12. CyclesRaced'
  <2>1. \A p \in raced : p # b => p \in raced'
    BY <1>7
  <2>2. \A o : b \notin Below(object, o)
    BY <1>9, BelowParent, ThereKnown
  <2> QED  BY <1>2, <1>3, <1>6, <2>1, <2>2 DEF CyclesRaced, OnCycle, Descendants
<1>13. LocationTogether'
  BY <1>2, <1>3, <1>6 DEF LocationTogether
<1>14. ASSUME NEW v \in Workers \ {w}, At(v, "valid"), Op(v).kind \in Deletions,
              NEW op, op = Op(v)
       PROVE  Bare(op)'
  <2>1. Bare(op) /\ (op.kind = "delete_object" => op.object # None /\ op.object \notin Needed(Op(w)))
    BY <1>1, <1>14, OthersWait
  <2>2. Op(w).parent # None => Op(w).parent \in Needed(Op(w))
    BY <1>3 DEF Needed, Deletions
  <2>3. op.kind = "delete_object" => BuildingsAt(op.object)' = {}
    <3>1. ASSUME op.kind = "delete_object", NEW c \in Built', building'[c].at = op.object  PROVE FALSE
      BY <1>4, <1>5, <1>6, <2>1, <2>2, <3>1 DEF Bare, BuildingsAt
    <3> QED  BY <3>1 DEF BuildingsAt
  <2>4. Children(op.object)' = Children(op.object)
    BY <1>2, <1>6 DEF Children
  <2> QED  BY <1>2, <1>6, <2>1, <2>3, <2>4 DEF Bare
<1> QED  BY <1>1, <1>8, <1>10, <1>11, <1>12, <1>13, <1>14, CommitStep

(* A building goes without entrances or locations.                           *)
LEMMA DeleteBuildingStep ==
  ASSUME CatalogueInvariant, NEW w \in Workers, DeleteBuilding(w)
  PROVE  CatalogueInvariant'
<1> DEFINE b == Op(w).building
<1>1. Commits(w, "delete_building") /\ building' = [building EXCEPT ![b] = Rased(@)] /\ raced' = raced \ {b}
      /\ UNCHANGED <<types, object, entrance, location, adrift>>
  BY DEF DeleteBuilding
<1>2. /\ TablesOK /\ ObjectsFit /\ BuildingsStand /\ CyclesRaced /\ LocationTogether
      /\ Op(w).kind = "delete_building" /\ b \in Buildings
      /\ \A e \in Open : entrance[e].at # b
      /\ \A l \in Placed : location[l].building # b
  <2>1. KeysHold(req[w]) /\ req[w].op = Op(w) /\ Op(w).kind = "delete_building" /\ Shaped(Op(w))
    BY <1>1, Committing
  <2>2. /\ \A e \in Open : entrance[e].at # b
        /\ \A l \in Placed : location[l].building # b
    BY <2>1 DEF KeysHold, Deletions
  <2> QED  BY <1>1, <2>1, <2>2, Committing DEF Shaped
<1> HIDE DEF b
<1>3. PICK row : row = building'[b]
  OBVIOUS
<1>4. row \in SiteRows(Objects) /\ row.state = "deleted"
  <2>1. building[b] \in SiteRows(Objects) /\ row = [building[b] EXCEPT !.state = "deleted"]
    BY <1>1, <1>2, <1>3 DEF TablesOK, Rased
  <2> QED  BY <2>1 DEF SiteRows
<1>5. building' \in [Buildings -> SiteRows(Objects)] /\ \A c \in Buildings \ {b} : building'[c] = building[c]
  <2>1. building' = [building EXCEPT ![b] = row]
    BY <1>1, <1>2, <1>3 DEF TablesOK
  <2> QED  BY <1>2, <1>4, <2>1 DEF TablesOK
<1>6. Built' = Built \ {b} /\ There' = There /\ Open' = Open /\ Placed' = Placed /\ KnownTypes' = KnownTypes
      /\ Built \subseteq Buildings
  BY <1>1, <1>3, <1>4, <1>5 DEF Built, There, Open, Placed, KnownTypes
<1>7. TablesOK'
  <2>1. \A c \in Built' : building'[c].at \in There
    BY <1>2, <1>5, <1>6 DEF TablesOK
  <2>2. raced' \subseteq There \cup Built' /\ \A e \in Open : entrance[e].at \in Built'
    BY <1>1, <1>2, <1>6 DEF TablesOK
  <2> QED  BY <1>1, <1>2, <1>5, <1>6, <2>1, <2>2 DEF TablesOK
<1>8. b \notin There /\ \A o \in There : object[o].parent # b
  BY <1>2, IdAssumption DEF TablesOK, There
<1>9. ObjectsFit'
  <2>1. \A o \in There : raced \cap {o, object[o].parent} # {} => raced' \cap {o, object[o].parent} # {}
    BY <1>1, <1>8
  <2> QED  BY <1>1, <1>2, <1>6, <2>1 DEF ObjectsFit, Fits
<1>10. BuildingsStand'
  <2>1. ASSUME NEW c \in Built'
        PROVE  \/ AllowsBuildings(object[building'[c].at].type)
               \/ raced' \cap {c, building'[c].at} # {} \/ building'[c].at \in adrift
    <3>1. building'[c] = building[c] /\ c \in Built /\ c # b /\ building[c].at # b
      BY <1>2, <1>5, <1>6, <1>8, <2>1 DEF TablesOK
    <3> QED  BY <1>1, <1>2, <3>1 DEF BuildingsStand
  <2> QED  BY <1>1, <2>1 DEF BuildingsStand
<1>11. CyclesRaced'
  <2>1. \A o : b \notin Below(object, o)
    BY <1>8, BelowParent, ThereKnown
  <2> QED  BY <1>1, <1>2, <1>6, <2>1 DEF CyclesRaced, OnCycle, Descendants
<1>12. LocationTogether'
  BY <1>1, <1>2, <1>6 DEF LocationTogether
<1>13. ASSUME NEW v \in Workers \ {w}, At(v, "valid"), Op(v).kind \in Deletions,
              NEW op, op = Op(v)
       PROVE  Bare(op)'
  <2>1. Bare(op)
    BY <1>1, <1>13, OthersWait
  <2>2. BuildingsAt(op.object)' \subseteq BuildingsAt(op.object) /\ Children(op.object)' = Children(op.object)
    BY <1>1, <1>5, <1>6 DEF BuildingsAt, Children
  <2> QED  BY <1>1, <1>6, <2>1, <2>2 DEF Bare
<1> QED  BY <1>1, <1>7, <1>9, <1>10, <1>11, <1>12, <1>13, CommitStep

(* Writes of entrances and locations leave the rules of the hierarchy alone. *)
LEMMA HierarchyAlone ==
  ASSUME ObjectsFit, BuildingsStand, CyclesRaced, UNCHANGED <<types, object, building, raced, adrift>>
  PROVE  ObjectsFit' /\ BuildingsStand' /\ CyclesRaced' /\ There' = There /\ Built' = Built
         /\ KnownTypes' = KnownTypes
         /\ \A o : Children(o)' = Children(o) /\ BuildingsAt(o)' = BuildingsAt(o)
<1>1. There' = There /\ Built' = Built /\ KnownTypes' = KnownTypes
  BY DEF There, Built, KnownTypes
<1>2. ObjectsFit' /\ BuildingsStand' /\ CyclesRaced'
  BY <1>1 DEF ObjectsFit, BuildingsStand, CyclesRaced, Fits, OnCycle, Descendants
<1> QED  BY <1>1, <1>2 DEF Children, BuildingsAt

(* An entrance of a building that is there, or one that no location has.     *)
LEMMA WriteEntranceStep ==
  ASSUME CatalogueInvariant, NEW w \in Workers, WriteEntrance(w)
  PROVE  CatalogueInvariant'
<1>1. UNCHANGED <<types, object, building, location, raced, adrift>>
  BY DEF WriteEntrance
<1>2. PICK e \in Entrances :
       \/ /\ Commits(w, "create_entrance") /\ entrance[e].state = "unused"
          /\ entrance' = [entrance EXCEPT ![e] = [state |-> "there", at |-> Op(w).building]]
       \/ /\ Commits(w, "delete_entrance") /\ e = Op(w).entrance
          /\ entrance' = [entrance EXCEPT ![e] = Rased(@)]
  BY DEF WriteEntrance
<1>3. PICK kind \in {"create_entrance", "delete_entrance"} : Commits(w, kind) /\ Op(w).kind = kind
  BY <1>2, Committing
<1>4. TablesOK /\ ObjectsFit /\ BuildingsStand /\ CyclesRaced /\ LocationTogether
      /\ KeysHold(req[w]) /\ req[w].op = Op(w) /\ Op(w) \in Bodies
  BY <1>3, Committing
<1>5. ObjectsFit' /\ BuildingsStand' /\ CyclesRaced' /\ There' = There /\ Built' = Built
      /\ KnownTypes' = KnownTypes /\ Placed' = Placed
      /\ \A o : Children(o)' = Children(o) /\ BuildingsAt(o)' = BuildingsAt(o)
  BY <1>1, <1>4, HierarchyAlone DEF Placed
<1>6. CASE kind = "create_entrance"
  <2> DEFINE row == [state |-> "there", at |-> Op(w).building]
  <2>1. entrance' = [entrance EXCEPT ![e] = row] /\ entrance[e].state = "unused"
    BY <1>2, <1>3, <1>6, Committing
  <2>2. Op(w).building \in Built /\ Built \subseteq Buildings
    BY <1>3, <1>4, <1>6 DEF KeysHold, Deletions, Built
  <2>3. row \in SiteRows(Buildings) /\ row.state = "there" /\ row.at = Op(w).building
    BY <2>2 DEF SiteRows
  <2> HIDE DEF row
  <2>4. entrance' \in [Entrances -> SiteRows(Buildings)] /\ entrance'[e] = row
        /\ \A f \in Entrances \ {e} : entrance'[f] = entrance[f]
    BY <1>4, <2>1, <2>3 DEF TablesOK
  <2>5. Open' = Open \cup {e} /\ e \notin Open /\ Open \subseteq Entrances
    BY <2>1, <2>3, <2>4 DEF Open
  <2>6. \A f \in Open' : entrance'[f].at \in Built
    BY <1>4, <2>2, <2>3, <2>4, <2>5 DEF TablesOK
  <2>7. TablesOK'
    BY <1>1, <1>4, <1>5, <2>4, <2>6 DEF TablesOK
  <2>8. LocationTogether'
    BY <1>1, <1>4, <1>5, <2>4, <2>5 DEF LocationTogether
  <2>9. ASSUME NEW v \in Workers \ {w}, At(v, "valid"), Op(v).kind \in Deletions,
               NEW op, op = Op(v)
        PROVE  Bare(op)'
    <3>1. Bare(op) /\ (op.kind = "delete_building" => op.building # None /\ op.building \notin Needed(Op(w)))
      BY <1>3, <2>9, OthersWait
    <3>2. Op(w).building # None => Op(w).building \in Needed(Op(w))
      BY <1>3, <1>6 DEF Needed, Deletions, RowOf
    <3>3. op.kind = "delete_building" => \A f \in Open' : entrance'[f].at # op.building
      BY <2>3, <2>4, <2>5, <3>1, <3>2 DEF Bare
    <3> QED  BY <1>1, <1>5, <3>1, <3>3 DEF Bare
  <2> QED  BY <1>3, <1>5, <2>7, <2>8, <2>9, CommitStep
<1>7. CASE kind = "delete_entrance"
  <2>1. entrance' = [entrance EXCEPT ![e] = Rased(@)] /\ e = Op(w).entrance
    BY <1>2, <1>3, <1>7, Committing
  <2>2. \A l \in Placed : location[l].entrance # e
    BY <1>3, <1>4, <1>7, <2>1 DEF KeysHold, Deletions
  <2>3. PICK row : row = entrance'[e]
    OBVIOUS
  <2>4. row \in SiteRows(Buildings) /\ row.state = "deleted"
    <3>1. entrance[e] \in SiteRows(Buildings) /\ row = [entrance[e] EXCEPT !.state = "deleted"]
      BY <1>4, <2>1, <2>3 DEF TablesOK, Rased
    <3> QED  BY <3>1 DEF SiteRows
  <2>5. entrance' \in [Entrances -> SiteRows(Buildings)] /\ \A f \in Entrances \ {e} : entrance'[f] = entrance[f]
    <3>1. entrance' = [entrance EXCEPT ![e] = row]
      BY <1>4, <2>1, <2>3 DEF TablesOK
    <3> QED  BY <1>4, <2>4, <3>1 DEF TablesOK
  <2>6. Open' = Open \ {e} /\ Open \subseteq Entrances
    BY <2>3, <2>4, <2>5 DEF Open
  <2>7. TablesOK'
    <3>1. \A f \in Open' : entrance'[f].at \in Built
      BY <1>4, <2>5, <2>6 DEF TablesOK
    <3> QED  BY <1>1, <1>4, <1>5, <2>5, <3>1 DEF TablesOK
  <2>8. LocationTogether'
    BY <1>1, <1>4, <1>5, <2>2, <2>5, <2>6 DEF LocationTogether
  <2>9. ASSUME NEW v \in Workers \ {w}, At(v, "valid"), Op(v).kind \in Deletions,
               NEW op, op = Op(v)
        PROVE  Bare(op)'
    <3>1. Bare(op)
      BY <1>3, <2>9, OthersWait
    <3> QED  BY <1>1, <1>5, <2>5, <2>6, <3>1 DEF Bare
  <2> QED  BY <1>3, <1>5, <2>7, <2>8, <2>9, CommitStep
<1> QED  BY <1>3, <1>6, <1>7

(* The location as a request writes it.                                      *)
LEMMA ChangedRow ==
  ASSUME TablesOK, NEW r, r.op.location \in Locations, location[r.op.location].state = "there"
  PROVE  /\ Changed(r).state = "there"
         /\ Changed(r).building \in {r.op.building, location[r.op.location].building}
         /\ Changed(r).entrance \in {r.op.entrance, location[r.op.location].entrance}
         /\ Changed(r).building \in Buildings /\ Changed(r).entrance \in Entrances \cup {None} =>
              Changed(r) \in LocationRows
<1> DEFINE now == location[r.op.location]
           b == IF r.op.building # r.wasAt.building THEN r.op.building ELSE now.building
           e == IF r.op.entrance # r.wasAt.entrance THEN r.op.entrance ELSE now.entrance
<1>1. now \in LocationRows /\ now.state = "there"
  BY DEF TablesOK
<1>2. b \in {r.op.building, now.building} /\ e \in {r.op.entrance, now.entrance}
  OBVIOUS
<1>3. Changed(r) = [now EXCEPT !.building = b, !.entrance = e]
  BY DEF Changed
<1> HIDE DEF now, b, e
<1>4. Changed(r) = [state |-> "there", building |-> b, entrance |-> e]
  BY <1>1, <1>3 DEF LocationRows
<1> QED  BY <1>2, <1>4 DEF LocationRows, now

(* A location is written as the foreign keys allow.                          *)
LEMMA WriteLocationStep ==
  ASSUME CatalogueInvariant, NEW w \in Workers, WriteLocation(w)
  PROVE  CatalogueInvariant'
<1>1. UNCHANGED <<types, object, building, entrance, raced, adrift>>
  BY DEF WriteLocation
<1>2. PICK l \in Locations :
       \/ /\ Commits(w, "create_location") /\ location[l] = NoLocation
          /\ location' = [location EXCEPT ![l] =
               [state |-> "there", building |-> Op(w).building, entrance |-> Op(w).entrance]]
       \/ /\ Commits(w, "update_location") /\ l = Op(w).location
          /\ location' = [location EXCEPT ![l] = Changed(req[w])]
       \/ /\ Commits(w, "delete_location") /\ l = Op(w).location
          /\ location' = [location EXCEPT ![l] = Rased(@)]
  BY DEF WriteLocation
<1>3. PICK kind \in {"create_location", "update_location", "delete_location"} :
        Commits(w, kind) /\ Op(w).kind = kind
  BY <1>2, Committing
<1>4. TablesOK /\ ObjectsFit /\ BuildingsStand /\ CyclesRaced /\ LocationTogether
      /\ KeysHold(req[w]) /\ req[w].op = Op(w) /\ Op(w) \in Bodies
  BY <1>3, Committing
<1>5. ObjectsFit' /\ BuildingsStand' /\ CyclesRaced' /\ There' = There /\ Built' = Built
      /\ KnownTypes' = KnownTypes /\ Open' = Open
      /\ \A o : Children(o)' = Children(o) /\ BuildingsAt(o)' = BuildingsAt(o)
  BY <1>1, <1>4, HierarchyAlone DEF Open
<1>6. PICK row : row = location'[l]
  OBVIOUS
<1>7. location' = [location EXCEPT ![l] = row] /\ location[l] \in LocationRows
  BY <1>2, <1>4, <1>6 DEF TablesOK
<1>8. \/ /\ row.state = "there" /\ row \in LocationRows
         /\ row.building \in Built
         /\ row.entrance # None => row.entrance \in Open /\ entrance[row.entrance].at = row.building
         /\ row.building = Op(w).building \/ (l \in Placed /\ row.building = location[l].building)
         /\ row.entrance = Op(w).entrance \/ (l \in Placed /\ row.entrance = location[l].entrance)
         /\ kind # "delete_location"
      \/ row.state = "deleted" /\ row \in LocationRows
  <2>1. CASE kind = "create_location"
    <3>1. row = [state |-> "there", building |-> Op(w).building, entrance |-> Op(w).entrance]
      BY <1>2, <1>3, <1>4, <1>6, <2>1, Committing DEF TablesOK
    <3>2. PlaceExists(Op(w).building, Op(w).entrance)
      BY <1>3, <1>4, <2>1 DEF KeysHold, Deletions
    <3> QED  BY <2>1, <3>1, <3>2 DEF PlaceExists, LocationRows, Built, Open
  <2>2. CASE kind = "update_location"
    <3>1. row = Changed(req[w]) /\ l = req[w].op.location
      BY <1>2, <1>3, <1>4, <1>6, <2>2, Committing DEF TablesOK
    <3>2. l \in Placed /\ PlaceExists(Changed(req[w]).building, Changed(req[w]).entrance)
      BY <1>3, <1>4, <2>2, <3>1 DEF KeysHold, Deletions
    <3>3. location[l].state = "there"
      BY <3>2 DEF Placed
    <3>4. Changed(req[w]).building \in Buildings /\ Changed(req[w]).entrance \in Entrances \cup {None}
      BY <3>2 DEF PlaceExists, Built, Open
    <3> QED  BY <1>4, <2>2, <3>1, <3>2, <3>3, <3>4, ChangedRow DEF PlaceExists
  <2>3. CASE kind = "delete_location"
    <3>1. row = [location[l] EXCEPT !.state = "deleted"]
      BY <1>2, <1>3, <1>4, <1>6, <2>3, Committing DEF TablesOK, Rased
    <3> QED  BY <1>7, <3>1 DEF LocationRows
  <2> QED  BY <2>1, <2>2, <2>3
<1>9. location' \in [Locations -> LocationRows] /\ \A m \in Locations \ {l} : location'[m] = location[m]
  BY <1>4, <1>7, <1>8 DEF TablesOK
<1>10. TablesOK'
  BY <1>1, <1>4, <1>5, <1>9 DEF TablesOK
<1>11. Placed' \ {l} = Placed \ {l} /\ (l \in Placed' <=> row.state = "there") /\ Placed' \subseteq Locations
  BY <1>6, <1>9 DEF Placed
<1>12. LocationTogether'
  <2>1. ASSUME NEW m \in Placed'
        PROVE  /\ location'[m].building \in Built
               /\ location'[m].entrance # None =>
                    location'[m].entrance \in Open /\ entrance[location'[m].entrance].at = location'[m].building
    <3>1. CASE m = l
      BY <1>6, <1>8, <1>11, <2>1, <3>1
    <3>2. CASE m # l
      BY <1>4, <1>9, <1>11, <2>1, <3>2 DEF LocationTogether
    <3> QED  BY <3>1, <3>2
  <2> QED  BY <1>1, <1>5, <2>1 DEF LocationTogether
<1>13. ASSUME NEW v \in Workers \ {w}, At(v, "valid"), Op(v).kind \in Deletions,
               NEW op, op = Op(v)
       PROVE  Bare(op)'
  <2>1. /\ Bare(op)
        /\ op.kind = "delete_building" => op.building # None /\ op.building \notin Needed(Op(w))
        /\ op.kind = "delete_entrance" => op.entrance # None /\ op.entrance \notin Needed(Op(w))
    BY <1>3, <1>13, OthersWait
  <2>2. kind # "delete_location" =>
          /\ Op(w).building # None => Op(w).building \in Needed(Op(w))
          /\ Op(w).entrance # None => Op(w).entrance \in Needed(Op(w))
    BY <1>3 DEF Needed, Deletions, RowOf
  <2>3. op.kind = "delete_building" => \A m \in Placed' : location'[m].building # op.building
    <3>1. ASSUME op.kind = "delete_building", NEW m \in Placed', location'[m].building = op.building  PROVE FALSE
      <4>1. CASE m = l
        BY <1>6, <1>8, <1>11, <2>1, <2>2, <3>1, <4>1 DEF Bare
      <4>2. CASE m # l
        BY <1>9, <1>11, <2>1, <3>1, <4>2 DEF Bare
      <4> QED  BY <4>1, <4>2
    <3> QED  BY <3>1
  <2>4. op.kind = "delete_entrance" => \A m \in Placed' : location'[m].entrance # op.entrance
    <3>1. ASSUME op.kind = "delete_entrance", NEW m \in Placed', location'[m].entrance = op.entrance  PROVE FALSE
      <4>1. CASE m = l
        BY <1>6, <1>8, <1>11, <2>1, <2>2, <3>1, <4>1 DEF Bare
      <4>2. CASE m # l
        BY <1>9, <1>11, <2>1, <3>1, <4>2 DEF Bare
      <4> QED  BY <4>1, <4>2
    <3> QED  BY <3>1
  <2> QED  BY <1>1, <1>5, <2>1, <2>3, <2>4 DEF Bare
<1> QED  BY <1>3, <1>5, <1>10, <1>12, <1>13, CommitStep

-----------------------------------------------------------------------------
(* The theorems *)

(* The empty catalogue.                                                      *)
LEMMA CatalogueInit == Init => CatalogueInvariant
<1> SUFFICES ASSUME Init PROVE CatalogueInvariant
  OBVIOUS
<1>1. There = {} /\ Built = {} /\ Open = {} /\ Placed = {}
  BY NotTypes DEF Init, There, Built, Open, Placed, Unused, NoBuilding, NoLocation
<1>2. TypeOK
  <2>1. NoBuilding \in SiteRows(Objects) /\ NoBuilding \in SiteRows(Buildings)
    BY DEF NoBuilding, SiteRows
  <2> QED  BY <1>1, <2>1, IdleRequest DEF Init, TypeOK
<1>3. RulesBrokenOnlyByOverlap /\ LocationTogether
  BY <1>1, <1>2 DEF RulesBrokenOnlyByOverlap, LocationTogether
<1>4. \A w \in Workers : req[w] = Idle
  BY DEF Init
<1>5. DeletionsFinal /\ LocksApart /\ RequestsSound
  BY <1>4, IdleRequest DEF DeletionsFinal, LocksApart, RequestsSound, At, Op, Locked
<1> QED  BY <1>3, <1>5 DEF CatalogueInvariant

(* Every step.                                                               *)
LEMMA CatalogueNext == CatalogueInvariant /\ [Next]_vars => CatalogueInvariant'
<1> SUFFICES ASSUME CatalogueInvariant, [Next]_vars PROVE CatalogueInvariant'
  OBVIOUS
<1>1. CASE SyncTypes
  BY <1>1, SyncStep
<1>2. ASSUME NEW w \in Workers,
             NEW op \in TypeBodies \cup ObjectBodies \cup BuildingBodies \cup PlaceBodies, Load(w, op)
      PROVE  CatalogueInvariant'
  BY <1>2, LoadStep
<1>3. ASSUME NEW w \in Workers, Step(w)  PROVE CatalogueInvariant'
  <2>1. CASE Write(w)
    BY <2>1, WriteTypeStep, CreateObjectStep, UpdateObjectStep, DeleteObjectStep, WriteBuildingStep,
       DeleteBuildingStep, WriteEntranceStep, WriteLocationStep DEF Write
  <2>2. CASE RefusedByKey(w)
    BY <2>2, EndStep DEF RefusedByKey
  <2> QED  BY <1>3, <2>1, <2>2, ValidateStep, HangStep DEF Step
<1>4. ASSUME NEW w \in Workers, CutOff(w)  PROVE CatalogueInvariant'
  BY <1>4, EndStep DEF CutOff
<1>5. CASE UNCHANGED vars
  <2>1. UNCHANGED <<types, object, building, entrance, location, req, raced, adrift>>
    BY <1>5 DEF vars
  <2>2. CASE Workers = {}
    <3>1. /\ RulesBrokenOnlyByOverlap' = RulesBrokenOnlyByOverlap /\ LocationTogether' = LocationTogether
      BY <2>1 DEF RulesBrokenOnlyByOverlap, LocationTogether, TypeOK, There, KnownTypes, Built, Open, Placed,
                  Fits, OnCycle, Descendants
    <3> QED  BY <2>2, <3>1 DEF CatalogueInvariant, DeletionsFinal, LocksApart, RequestsSound
  <2>3. ASSUME NEW w \in Workers  PROVE CatalogueInvariant'
    <3>1. TypeOK /\ Shaped(req[w].op) /\ Current(req[w])
      BY RulesApart DEF CatalogueInvariant, RequestsSound, Op
    <3>2. req[w] \in Requests /\ Become(w, req[w])
      BY <2>1, <3>1 DEF TypeOK, Become
    <3>3. req[w].pc = "valid" /\ req[w].op.kind \in Deletions => KeysHold(req[w])
      BY DEF CatalogueInvariant, DeletionsFinal, At, Op
    <3>4. LocksApart'
      BY <2>1 DEF CatalogueInvariant, LocksApart, Locked, At, Op
    <3>5. UNCHANGED <<tables, raced, adrift>>
      BY <2>1 DEF tables
    <3>6. PICK r \in Requests : r = req[w]
      BY <3>2
    <3>7. Become(w, r) /\ Shaped(r.op) /\ Current(r) /\ (r.pc = "valid" /\ r.op.kind \in Deletions => KeysHold(r))
      BY <3>1, <3>2, <3>3, <3>6
    <3> QED  BY <3>4, <3>5, <3>7, QuietStep
  <2> QED  BY <2>2, <2>3
<1> QED  BY <1>1, <1>2, <1>3, <1>4, <1>5 DEF Next

(* However many objects, buildings and requests: what the requests have read *)
(* and locked is what CatalogueInvariant says, and the catalogue obeys.      *)
THEOREM CatalogueStaysSound == Spec => []CatalogueInvariant
  BY CatalogueInit, CatalogueNext, PTL DEF Spec

(* A rule of the hierarchy (validate_address_object_hierarchy,               *)
(* validate_building_parent) is broken only by a request that was overtaken, *)
(* or below such a cycle: rows are validated without a lock.                 *)
THEOREM RulesNeedOverlap == Spec => []RulesBrokenOnlyByOverlap
<1>1. CatalogueInvariant => RulesBrokenOnlyByOverlap
  BY DEF CatalogueInvariant
<1> QED  BY <1>1, CatalogueStaysSound, PTL

(* A deletion that has found its row bare, and holds the row, commits.       *)
THEOREM DeletionsAreFinal == Spec => []DeletionsFinal
<1>1. CatalogueInvariant => DeletionsFinal
  BY DEF CatalogueInvariant
<1> QED  BY <1>1, CatalogueStaysSound, PTL

(* The composite foreign key keeps the entrance of a location one of its     *)
(* building, whoever changes which half.                                     *)
THEOREM LocationsStayTogether == Spec => []LocationTogether
<1>1. CatalogueInvariant => LocationTogether
  BY DEF CatalogueInvariant
<1> QED  BY <1>1, CatalogueStaysSound, PTL

(* A write of x that breaks a cycle breaks it at x.                          *)
LEMMA BrokenAt ==
  ASSUME NEW x, DifferAt(object, object', x), NEW o, o \in Below(object, o), o \notin Below(object', o)
  PROVE  x \in Below(object, o) /\ x \in Below(object, x)
<1>1. x \in Cycle(object, o)
  BY CycleKept
<1> QED  BY <1>1, BelowBelow DEF Cycle

(* A step that breaks a cycle is an update of an object on it: validated in  *)
(* time, it makes a root of it.                                              *)
LEMMA CycleStep ==
  ASSUME CatalogueInvariant, [Next]_vars, NEW o \in Objects, OnCycle(o), ~OnCycle(o)'
  PROVE  \E p \in Descendants(o) : OnCycle(p) /\ (object'[p].parent = None \/ p \in raced')
<1>1. o \in Below(object, o) /\ o \notin Below(object', o) /\ object' # object
  BY DEF OnCycle, Descendants
<1>2. PICK w \in Workers : CreateAddressObject(w) \/ UpdateAddressObject(w) \/ DeleteAddressObject(w)
  BY <1>1 DEF Next, Step, Write, SyncTypes, Load, Validate, Hang, RefusedByKey, CutOff, WriteType, WriteBuilding,
     DeleteBuilding, WriteEntrance, WriteLocation, tables, vars
<1>3. object \in [Objects -> ObjectRows] /\ TablesOK
  BY RulesApart DEF CatalogueInvariant, TypeOK, TablesOK
<1>4. \A x, row : object' = [object EXCEPT ![x] = row] => DifferAt(object, object', x)
  BY <1>3 DEF DifferAt
<1>5. ASSUME CreateAddressObject(w)  PROVE FALSE
  <2>1. PICK x \in Objects : object[x] = Unused /\ DifferAt(object, object', x)
    BY <1>4, <1>5 DEF CreateAddressObject
  <2>2. x \in Below(object, o)
    BY <1>1, <2>1, BrokenAt
  <2> QED  BY <2>1, <2>2, BelowParent, NotTypes DEF Known, Unused
<1>6. ASSUME DeleteAddressObject(w)  PROVE FALSE
  <2>1. DifferAt(object, object', Op(w).object) /\ Commits(w, "delete_object")
    BY <1>4, <1>6 DEF DeleteAddressObject
  <2>2. Children(Op(w).object) = {}
    BY <2>1, Committing DEF KeysHold, Deletions
  <2>3. Below(object, Op(w).object) = {}
    BY <2>2, NothingBelow, ThereKnown DEF Children
  <2> QED  BY <1>1, <2>1, <2>3, BrokenAt
<1>7. ASSUME UpdateAddressObject(w)
      PROVE  \E p \in Descendants(o) : OnCycle(p) /\ (object'[p].parent = None \/ p \in raced')
  <2> DEFINE x == Op(w).object
  <2>1. Commits(w, "update_object") /\ object' = [object EXCEPT ![x] = Reparented(req[w])]
    BY <1>7 DEF UpdateAddressObject
  <2>2. x \in Descendants(o) /\ OnCycle(x)
    BY <1>1, <1>4, <2>1, BrokenAt DEF OnCycle, Descendants
  <2>3. Retypes(req[w]) \/ Moves(req[w])
    <3>1. ASSUME ~(Retypes(req[w]) \/ Moves(req[w]))  PROVE FALSE
      <4>1. object' = [object EXCEPT ![x] = object[x]]
        BY <2>1, <3>1, Written
      <4> QED  BY <1>1, <1>3, <4>1
    <3> QED  BY <3>1
  <2>4. req[w].overtaken => x \in raced'
    BY <1>7, <2>3 DEF UpdateAddressObject, Marks
  <2>5. ~req[w].overtaken => object'[x].parent = None
    BY <1>7, <2>2, <2>3, MoveClosesNoCycle
  <2> QED  BY <2>2, <2>4, <2>5
<1> QED  BY <1>2, <1>5, <1>6, <1>7

(* A cycle of objects is broken only by making one of them a root, or by a   *)
(* request that was overtaken: the query of the descendants does not come    *)
(* back from an object on a cycle.                                           *)
THEOREM CyclesStayKnotted == Spec => CyclesBrokenOnlyAtRoot
<1>1. CatalogueInvariant /\ [Next]_vars =>
        [\A o \in Objects : OnCycle(o) /\ ~OnCycle(o)' =>
           \E p \in Descendants(o) :
             OnCycle(p) /\ (object'[p].parent = None \/ p \in raced')]_vars
  BY CycleStep
<1> QED  BY <1>1, CatalogueStaysSound, PTL DEF Spec, CyclesBrokenOnlyAtRoot
=============================================================================
