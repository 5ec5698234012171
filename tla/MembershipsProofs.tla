------------------------- MODULE MembershipsProofs -------------------------
(***************************************************************************)
(* What memberships are given: units (UnitMemberships), roles              *)
(* (RoleDelegation) and the permissions that follow (PermissionCache), for *)
(* any number of members, units, roles and requests. Each part is about a  *)
(* specification of its own, Spec, DelegationSpec and CacheSpec; what they *)
(* share is in Handlers and Memberships.                                   *)
(*                                                                         *)
(* The primary unit of a member. The argument: open transactions have no   *)
(* row in common, so what a request has locked is at its commit what it    *)
(* was when the check passed; the unique index lets one promotion at a     *)
(* time through, and only when every other mark is among the rows it has   *)
(* cleared.                                                                *)
(*                                                                         *)
(* Roles. A member only has roles that were granted, and a request that    *)
(* nobody overtook commits what it was checked for. The argument: what a   *)
(* request has read was granted and, unless it was overtaken, is still     *)
(* there (ReadOK), and no two transactions ever have the same row open     *)
(* (Disjoint), so that one commit never takes away a row another counts on.*)
(*                                                                         *)
(* Permissions (PermissionCache). The cache is stale only by a race or a   *)
(* request cut off. Steps are of two sorts: those that leave the tables    *)
(* alone (StillStep) and those that commit (CacheCommitStep); a commit     *)
(* must say which memberships it touches, and send its request on to       *)
(* invalidate all of them.                                                 *)
(***************************************************************************)
EXTENDS UnitMemberships, RoleDelegation, PermissionCache, TLAPS

-----------------------------------------------------------------------------
(* Units                                                                     *)

(* A worker without a request.                                               *)
LEMMA IdleRequest == Idle \in Requests
  BY DEF Idle, Requests, Pcs, Ops, Adds

(* A worker without a request holds nothing and has decided nothing.         *)
LEMMA IdleHoldsNothing ==
  ASSUME NEW w \in Workers, req[w] = Idle
  PROVE  /\ Exclusive(w) /\ Decided(w)
         /\ Locks(w) = {}
         /\ ~At(w, "commit")
<1>1. req[w].pc = "idle" /\ req[w].cleared = {}
  BY DEF Idle
<1>2. Locks(w) = {} /\ ~At(w, "commit")
  BY <1>1 DEF Locks, At
<1>3. Exclusive(w)
  BY <1>1, <1>2 DEF Exclusive, At
<1>4. Decided(w)
  BY <1>1 DEF Decided, At
<1> QED
  BY <1>2, <1>3, <1>4

(* A statement that commits nothing keeps the invariant if it does for the   *)
(* worker that runs it: what the others demand of w is what w demands.       *)
LEMMA BecomeStep ==
  ASSUME UnitsInductive, NEW w \in Workers, NEW r \in Requests, Become(w, r),
         r.pc = "idle" \/ r.unit \in Units,
         Exclusive(w)', Decided(w)'
  PROVE  UnitsInductive'
<1>1. TypeOK /\ UNCHANGED <<assigned, active, primary, open>> /\ req' = [req EXCEPT ![w] = r]
  BY DEF UnitsInductive, Become, tables
<1>2. req'[w] = r /\ \A v \in Workers \ {w} : req'[v] = req[v]
  BY <1>1 DEF TypeOK
<1>3. req' \in [Workers -> Requests]
  BY <1>1 DEF TypeOK
<1>4. TypeOK'
  BY <1>1, <1>2, <1>3 DEF TypeOK, At
<1>5. OnePrimary'
  BY <1>1 DEF UnitsInductive, OnePrimary
<1>6. ASSUME NEW v \in Workers, v # w
      PROVE  Exclusive(v)' /\ Decided(v)'
  <2>1. Exclusive(v) /\ Decided(v) /\ req'[v] = req[v]
    BY <1>2, <1>6 DEF UnitsInductive
  <2>2. \A x \in Workers \ {w} : Locks(x)' = Locks(x) /\ At(x, "commit")' = At(x, "commit")
                                  /\ \A u : Inserts(x, u)' = Inserts(x, u)
    BY <1>2 DEF Locks, At, Inserts
  <2>3. Locks(w)' \cap Locks(v)' = {}
    BY <1>6 DEF Exclusive
  <2>4. \A x \in Workers \ {v} : Locks(x)' \cap Locks(v)' = {}
    BY <1>6, <2>1, <2>2, <2>3 DEF Exclusive
  <2>5. req[v].pc = "commit" /\ req[v].op \in Adds =>
          req[v].unit \notin assigned /\ \A x \in Workers \ {v} : ~Inserts(x, req[v].unit)'
    <3>1. req[v].pc = "commit" /\ req[v].op \in Adds => ~Inserts(w, req[v].unit)'
      BY <1>2, <1>6 DEF Exclusive, Inserts
    <3> QED
      BY <1>6, <2>1, <2>2, <3>1 DEF Exclusive
  <2>6. req[v].pc = "commit" /\ req[v].op \in Promotes =>
          /\ primary \subseteq req[v].cleared \cup {req[v].unit}
          /\ \A x \in Workers \ {v} : ~(At(x, "commit") /\ req[x].op \in Promotes)'
    <3>1. req[v].pc = "commit" /\ req[v].op \in Promotes => ~(At(w, "commit") /\ req[w].op \in Promotes)'
      BY <1>2, <1>6 DEF Exclusive, At
    <3> QED
      BY <1>2, <1>6, <2>1, <2>2, <3>1 DEF Exclusive, At
  <2>7. Consistent(req[v])' = Consistent(req[v])
    BY <1>1, <2>1 DEF Consistent, PrimaryAfter, ActiveAfter, WritesActive, WritesPrimary
  <2>8. Exclusive(v)'
    BY <1>1, <2>1, <2>4, <2>5, <2>6, <2>7 DEF Exclusive
  <2>9. Decided(v)'
    BY <1>1, <2>1 DEF Decided, At
  <2> QED
    BY <2>8, <2>9
<1> QED
  BY <1>4, <1>5, <1>6 DEF UnitsInductive

(* A refusal, a rollback or the end of a request that wrote nothing.         *)
LEMMA IdleStep ==
  ASSUME UnitsInductive, NEW w \in Workers, Become(w, Idle)
  PROVE  UnitsInductive'
<1>1. req'[w] = Idle
  BY DEF UnitsInductive, TypeOK, Become
<1>2. Locks(w)' = {} /\ Exclusive(w)' /\ Decided(w)'
  <2>1. (req[w].pc = "idle" /\ req[w].cleared = {})'
    BY <1>1 DEF Idle
  <2>2. Locks(w)' = {}
    BY <2>1 DEF Locks
  <2>3. Exclusive(w)'
    BY <2>1, <2>2 DEF Exclusive, At
  <2> QED
    BY <2>1, <2>2, <2>3 DEF Decided, At
<1> QED
  BY <1>2, IdleRequest, BecomeStep DEF Idle

(* A request that has no row yet.                                            *)
LEMMA HoldsNothing ==
  ASSUME UnitsInductive, NEW w \in Workers, NEW r \in Requests, Become(w, r),
         r.cleared = {},
         r.op \notin Adds /\ r.pc # "load" => r.unit \in assigned,
         \/ r.pc = "load"
         \/ r.pc \in {"clear", "clearing"} /\ r.op \in Promotes
         \/ r.pc = "lock" /\ r.op \notin Adds
         \/ r.pc = "index" /\ r.op \in Adds
  PROVE  Exclusive(w)'
<1>1. req' = [req EXCEPT ![w] = r] /\ UNCHANGED <<assigned, active, primary, open>>
  BY DEF Become, tables
<1>2. req'[w] = r
  BY <1>1 DEF UnitsInductive, TypeOK
<1>3. Locks(w)' = {}
  BY <1>2 DEF Locks
<1> QED
  BY <1>1, <1>2, <1>3 DEF Exclusive, At

(* The steps of a request, in the order of Next.                             *)
LEMMA RequestStep ==
  ASSUME UnitsInductive, NEW w \in Workers,
         \/ \E op \in Ops, u \in Units : \/ Start(w, TRUE, Units, op, u)
                                        \/ \E reach \in SUBSET Units : Start(w, FALSE, reach, op, u)
         \/ Load(w) \/ ClearBegin(w) \/ ClearEnd(w) \/ LockRow(w) \/ Index(w)
         \/ Victim(w) \/ CutOff(w)
  PROVE  UnitsInductive'
<1> DEFINE c == req[w]
<1>1. TypeOK /\ OnePrimary /\ Exclusive(w) /\ Decided(w) /\ c \in Requests
  BY DEF UnitsInductive, TypeOK
<1>2. ASSUME NEW op \in Ops, NEW u \in Units, NEW wide \in BOOLEAN, NEW reach \in SUBSET Units,
             Start(w, wide, reach, op, u)
      PROVE  UnitsInductive'
  <2> DEFINE r == [Idle EXCEPT !.pc = "load", !.op = op, !.unit = u, !.wide = wide, !.reach = reach]
  <2>1. Become(w, r) /\ Manages(wide, reach)
    BY <1>2 DEF Start
  <2>2. r \in Requests
    BY IdleRequest DEF Requests, Pcs
  <2>3. /\ r.pc = "load" /\ r.op = op /\ r.unit = u /\ r.wide = wide /\ r.reach = reach
        /\ r.cleared = {}
    BY DEF Idle
  <2> HIDE DEF r
  <2>4. Exclusive(w)'
    BY <2>1, <2>2, <2>3, HoldsNothing
  <2>5. req'[w] = r /\ primary' = primary
    BY <1>1, <2>1 DEF TypeOK, Become, tables
  <2>6. ~wide => primary \subseteq reach
    BY <1>1, <2>1 DEF Manages, OnePrimary
  <2>7. Decided(w)'
    BY <2>3, <2>5, <2>6 DEF Decided, At
  <2> QED
    BY <2>1, <2>2, <2>3, <2>4, <2>7, BecomeStep
<1>3. ASSUME Load(w)
      PROVE  UnitsInductive'
  <2> DEFINE was == {f \in {"active"} : c.unit \in active} \cup {f \in {"primary"} : c.unit \in primary}
             pc == IF c.op \in Promotes THEN "clear" ELSE IF c.op \in Adds THEN "index" ELSE "lock"
             r == [c EXCEPT !.pc = pc, !.was = was]
  <2>1. CASE Become(w, Idle)
    BY <2>1, IdleStep
  <2>2. CASE MayUse(c) /\ MayDemote(c) /\ (c.unit \in assigned <=> c.op \notin Adds) /\ Become(w, r)
    <3>1. was \in SUBSET {"active", "primary"} /\ ("primary" \in was => c.unit \in primary)
      OBVIOUS
    <3>2. pc \in {"clear", "index", "lock"}
      OBVIOUS
    <3>3. /\ pc = "clear" <=> c.op \in Promotes
          /\ pc = "index" => c.op \in Adds
          /\ pc = "lock" => c.op \notin Adds
      OBVIOUS
    <3> HIDE DEF was, pc
    <3>4. r \in Requests
      BY <1>1, <3>1, <3>2 DEF Requests, Pcs
    <3>5. /\ r.pc = pc /\ r.was = was /\ r.op = c.op /\ r.unit = c.unit /\ r.wide = c.wide
          /\ r.reach = c.reach /\ r.cleared = c.cleared /\ r.overtaken = c.overtaken
      BY <1>1 DEF Requests
    <3> HIDE DEF r
    <3>6. c.pc = "load" /\ c.unit \in Units /\ c.cleared = {}
      BY <1>1, <1>3 DEF Load, At, TypeOK, Exclusive
    <3>7. Exclusive(w)'
      BY <2>2, <3>2, <3>3, <3>4, <3>5, <3>6, HoldsNothing
    <3>8. req'[w] = r /\ UNCHANGED <<primary, open>>
      BY <1>1, <2>2 DEF TypeOK, Become, tables
    <3>9. Decided(w)'
      <4>1. ~c.wide /\ ~c.overtaken => primary \subseteq c.reach
        BY <1>1, <3>6 DEF Decided, At
      <4>2. ~c.wide /\ c.op \in Demotes => "primary" \notin was
        BY <2>2, <3>1 DEF MayDemote
      <4>3. c.op \in Adds \cup Activates => c.unit \in open
        BY <2>2 DEF MayUse
      <4> QED
        BY <3>2, <3>3, <3>5, <3>8, <4>1, <4>2, <4>3 DEF Decided, At
    <3> QED
      BY <2>2, <3>4, <3>5, <3>6, <3>7, <3>9, BecomeStep
  <2> QED
    BY <1>3, <2>1, <2>2 DEF Load
<1>4. ASSUME ClearBegin(w)
      PROVE  UnitsInductive'
  <2> DEFINE r == [c EXCEPT !.pc = "clearing", !.seen = primary]
  <2>1. Become(w, r) /\ c.pc = "clear"
    BY <1>4 DEF ClearBegin, At
  <2>2. r \in Requests
    BY <1>1 DEF Requests, Pcs, TypeOK
  <2>3. /\ r.pc = "clearing" /\ r.seen = primary /\ r.was = c.was /\ r.op = c.op /\ r.unit = c.unit /\ r.wide = c.wide
        /\ r.reach = c.reach /\ r.cleared = c.cleared /\ r.overtaken = c.overtaken
    BY <1>1 DEF Requests
  <2> HIDE DEF r
  <2>4. c.unit \in Units /\ c.cleared = {} /\ c.op \in Promotes
        /\ (c.op \notin Adds => c.unit \in assigned)
    BY <1>1, <2>1 DEF At, TypeOK, Exclusive
  <2>5. Exclusive(w)'
    BY <2>1, <2>2, <2>3, <2>4, HoldsNothing
  <2>6. req'[w] = r /\ UNCHANGED <<primary, open>>
    BY <1>1, <2>1 DEF TypeOK, Become, tables
  <2>7. Decided(w)'
    BY <1>1, <2>1, <2>3, <2>6 DEF Decided, At
  <2> QED
    BY <2>1, <2>2, <2>3, <2>4, <2>5, <2>7, BecomeStep
<1>5. ASSUME ClearEnd(w)
      PROVE  UnitsInductive'
  <2> DEFINE pc == IF c.op \in Adds THEN "index" ELSE "lock"
             cl == Clears(w)
             r == [c EXCEPT !.pc = pc, !.seen = {}, !.cleared = cl]
  <2>1. Become(w, r) /\ c.pc = "clearing" /\ Blockers(w) = {}
    BY <1>5 DEF ClearEnd, At
  <2>2. cl \subseteq c.seen /\ cl \subseteq primary /\ cl \in SUBSET Units
    BY <1>1 DEF Clears, TypeOK
  <2>3. pc \in {"index", "lock"} /\ (pc = "index" <=> c.op \in Adds)
    OBVIOUS
  <2> HIDE DEF pc, cl
  <2>4. r \in Requests
    BY <1>1, <2>2, <2>3 DEF Requests, Pcs
  <2>5. /\ r.pc = pc /\ r.was = c.was /\ r.op = c.op /\ r.unit = c.unit /\ r.wide = c.wide
        /\ r.reach = c.reach /\ r.cleared = cl /\ r.overtaken = c.overtaken
    BY <1>1 DEF Requests
  <2> HIDE DEF r
  <2>6. c.unit \in Units /\ c.op \in Promotes /\ (c.op \notin Adds => c.unit \in assigned)
    BY <1>1, <2>1 DEF At, TypeOK, Exclusive
  <2>7. req'[w] = r /\ UNCHANGED <<assigned, active, primary, open>>
        /\ \A v \in Workers \ {w} : req'[v] = req[v]
    BY <1>1, <2>1 DEF TypeOK, Become, tables
  <2>8. \A v \in Workers \ {w} : (Locks(v) \cap Locks(w) = {})'
    <3>1. Locks(w)' = cl
      BY <2>3, <2>5, <2>7 DEF Locks
    <3>2. \A v \in Workers \ {w} : Locks(v) \cap c.seen = {}
      BY <2>1 DEF Blockers, At
    <3>3. \A v \in Workers \ {w} : Locks(v)' = Locks(v)
      BY <2>7 DEF Locks
    <3> QED
      BY <2>2, <3>1, <3>2, <3>3
  <2>9. Exclusive(w)'
    BY <2>2, <2>3, <2>5, <2>6, <2>7, <2>8 DEF Exclusive, Consistent, At
  <2>10. Decided(w)'
    <3>1. ~c.overtaken => cl = primary
      BY <1>1, <2>1 DEF Decided, Clears, cl
    <3> QED
      BY <1>1, <2>1, <2>3, <2>5, <2>7, <3>1 DEF Decided, At
  <2> QED
    BY <2>1, <2>4, <2>5, <2>6, <2>9, <2>10, BecomeStep
<1>6. ASSUME LockRow(w)
      PROVE  UnitsInductive'
  <2> DEFINE pc == IF c.op \in Promotes THEN "index" ELSE "commit"
             r == [c EXCEPT !.pc = pc]
  <2>1. CASE Become(w, Idle)
    BY <2>1, IdleStep
  <2>2. CASE Blockers(w) = {} /\ Consistent(c) /\ Become(w, r)
    <3>1. pc \in {"index", "commit"} /\ (pc = "index" <=> c.op \in Promotes)
      OBVIOUS
    <3> HIDE DEF pc
    <3>2. r \in Requests
      BY <1>1, <3>1 DEF Requests, Pcs
    <3>3. /\ r.pc = pc /\ r.was = c.was /\ r.op = c.op /\ r.unit = c.unit /\ r.wide = c.wide
          /\ r.reach = c.reach /\ r.cleared = c.cleared /\ r.overtaken = c.overtaken
      BY <1>1 DEF Requests
    <3> HIDE DEF r
    <3>4. c.pc = "lock" /\ c.unit \in Units /\ c.op \notin Adds /\ c.unit \in assigned
      BY <1>1, <1>6 DEF LockRow, At, TypeOK, Exclusive
    <3>5. req'[w] = r /\ UNCHANGED <<assigned, active, primary, open>>
          /\ \A v \in Workers \ {w} : req'[v] = req[v]
      BY <1>1, <2>2 DEF TypeOK, Become, tables
    <3>6. \A v \in Workers \ {w} : (Locks(v) \cap Locks(w) = {})'
      <4>1. Locks(w)' = Locks(w) \cup {c.unit}
        BY <3>1, <3>3, <3>4, <3>5 DEF Locks
      <4>2. \A v \in Workers \ {w} : c.unit \notin Locks(v)
        BY <2>2, <3>4 DEF Blockers, At
      <4>3. \A v \in Workers \ {w} : Locks(v)' = Locks(v)
        BY <3>5 DEF Locks
      <4> QED
        BY <1>1, <4>1, <4>2, <4>3 DEF Exclusive
    <3>7. Consistent(req[w])'
      BY <2>2, <3>3, <3>5 DEF Consistent, PrimaryAfter, ActiveAfter, WritesActive, WritesPrimary
    <3>8. Exclusive(w)'
      BY <1>1, <3>1, <3>3, <3>4, <3>5, <3>6, <3>7 DEF Exclusive, At
    <3>9. Decided(w)'
      BY <1>1, <3>1, <3>3, <3>4, <3>5 DEF Decided, At
    <3> QED
      BY <2>2, <3>2, <3>3, <3>4, <3>8, <3>9, BecomeStep
  <2> QED
    BY <1>6, <2>1, <2>2 DEF LockRow, Goto
<1>7. ASSUME Index(w)
      PROVE  UnitsInductive'
  <2> DEFINE r == [c EXCEPT !.pc = "commit"]
  <2>1. CASE Become(w, Idle)
    BY <2>1, IdleStep
  <2>2. CASE Blockers(w) = {} /\ ~Conflicts(c) /\ Become(w, r)
    <3>1. r \in Requests
      BY <1>1 DEF Requests, Pcs
    <3>2. /\ r.pc = "commit" /\ r.was = c.was /\ r.op = c.op /\ r.unit = c.unit /\ r.wide = c.wide
          /\ r.reach = c.reach /\ r.cleared = c.cleared /\ r.overtaken = c.overtaken
      BY <1>1 DEF Requests
    <3> HIDE DEF r
    <3>3. c.pc = "index" /\ c.unit \in Units /\ (c.op \notin Adds => c.unit \in assigned)
      BY <1>1, <1>7 DEF Index, At, TypeOK, Exclusive
    <3>4. req'[w] = r /\ UNCHANGED <<assigned, active, primary, open>>
          /\ \A v \in Workers \ {w} : req'[v] = req[v]
      BY <1>1, <2>2 DEF TypeOK, Become, tables
    <3>5. \A v \in Workers : Locks(v)' = Locks(v)
      BY <3>2, <3>3, <3>4 DEF Locks
    <3>6. c.op \in Adds =>
            c.unit \notin assigned /\ \A v \in Workers \ {w} : ~Inserts(v, c.unit)'
      <4>1. c.op \in Adds => c.unit \notin assigned
        BY <2>2 DEF Conflicts
      <4>2. \A v \in Workers \ {w} : c.op \in Adds => ~Inserts(v, c.unit)
        BY <2>2, <3>3 DEF Blockers, At
      <4> QED
        BY <3>2, <3>4, <4>1, <4>2 DEF Inserts
    <3>7. c.op \in Promotes =>
            /\ primary \subseteq c.cleared \cup {c.unit}
            /\ \A v \in Workers \ {w} : ~(At(v, "commit") /\ req[v].op \in Promotes)'
      <4>1. c.op \in Promotes => primary \subseteq c.cleared \cup {c.unit}
        BY <2>2 DEF Conflicts
      <4>2. \A v \in Workers \ {w} : c.op \in Promotes => ~TouchesIndex(v)
        BY <2>2, <3>3 DEF Blockers, At
      <4> QED
        BY <3>4, <4>1, <4>2 DEF TouchesIndex, At
    <3>8. c.op \notin Adds => Consistent(req[w])'
      <4>1. c.op \notin Adds => Consistent(c)
        BY <1>1, <3>3 DEF Exclusive
      <4> QED
        BY <3>2, <3>4, <4>1 DEF Consistent, PrimaryAfter, ActiveAfter, WritesActive, WritesPrimary
    <3>9. Exclusive(w)'
      BY <1>1, <3>2, <3>3, <3>4, <3>5, <3>6, <3>7, <3>8 DEF Exclusive, At
    <3>10. Decided(w)'
      BY <1>1, <3>2, <3>3, <3>4 DEF Decided, At
    <3> QED
      BY <2>2, <3>1, <3>2, <3>3, <3>9, <3>10, BecomeStep
  <2> QED
    BY <1>7, <2>1, <2>2 DEF Index, Goto
<1>8. ASSUME Victim(w) \/ CutOff(w)
      PROVE  UnitsInductive'
  BY <1>8, IdleStep DEF Victim, CutOff
<1>9. Units \in SUBSET Units /\ TRUE \in BOOLEAN /\ FALSE \in BOOLEAN
  OBVIOUS
<1> QED
  BY <1>2, <1>3, <1>4, <1>5, <1>6, <1>7, <1>8, <1>9

(* The commit, seen from the tables.                                         *)
LEMMA CommitTables ==
  ASSUME UnitsInductive, NEW w \in Workers, Commit(w)
  PROVE  LET c == req[w]
         IN  /\ c \in Requests /\ c.pc = "commit" /\ c.unit \in Units
             /\ req'[w] = Idle
             /\ \A v \in Workers \ {w} :
                  req'[v] = [req[v] EXCEPT !.overtaken = req[v].pc # "idle"]
             /\ assigned' = assigned \cup {c.unit}
             /\ open' = open
             /\ c.op \in Adds => c.unit \notin assigned
             /\ \A u \in Units \ {c.unit} : u \in active' <=> u \in active
             /\ \A u \in Units \ {c.unit} : u \in primary' <=> u \in primary \ c.cleared
             /\ c.unit \in active' <=> c.op \in Adds \/ ActiveAfter(c)
             /\ c.unit \in primary' <=>
                  IF c.op \in Adds THEN c.op \in Promotes ELSE PrimaryAfter(c)
             /\ active' \in SUBSET Units /\ primary' \in SUBSET Units
<1> DEFINE c == req[w]
<1>1. c \in Requests /\ c.pc = "commit" /\ c.unit \in Units
      /\ (c.op \in Adds => c.unit \notin assigned)
  BY DEF UnitsInductive, TypeOK, Exclusive, Commit, At
<1>2. /\ req' = [v \in Workers |-> IF v = w THEN Idle
                                   ELSE [req[v] EXCEPT !.overtaken = req[v].pc # "idle"]]
      /\ assigned' = assigned \cup {c.unit}
      /\ open' = open
  BY DEF Commit, Overtake
<1>3. active' = (active \ {c.unit}) \cup
                  {u \in {c.unit} : IF c.op \in Adds THEN TRUE ELSE ActiveAfter(c)}
  BY DEF Commit
<1>4. primary' = (primary \ (c.cleared \cup {c.unit})) \cup
                   {u \in {c.unit} : IF c.op \in Adds THEN c.op \in Promotes ELSE PrimaryAfter(c)}
  BY DEF Commit
<1>5. active \in SUBSET Units /\ primary \in SUBSET Units
  BY DEF UnitsInductive, TypeOK
<1> HIDE DEF c
<1>6. active' \in SUBSET Units /\ primary' \in SUBSET Units
  BY <1>1, <1>3, <1>4, <1>5
<1>7. /\ \A u \in Units \ {c.unit} : u \in active' <=> u \in active
      /\ c.unit \in active' <=> c.op \in Adds \/ ActiveAfter(c)
  BY <1>3
<1>8. /\ \A u \in Units \ {c.unit} : u \in primary' <=> u \in primary \ c.cleared
      /\ c.unit \in primary' <=> IF c.op \in Adds THEN c.op \in Promotes ELSE PrimaryAfter(c)
  BY <1>4
<1> QED
  BY <1>1, <1>2, <1>6, <1>7, <1>8 DEF c

(* What a request holds is not changed by another commit, except that it is  *)
(* overtaken.                                                                *)
LEMMA OvertakenHolds ==
  ASSUME UnitsInductive, NEW v \in Workers,
         req'[v] = [req[v] EXCEPT !.overtaken = req[v].pc # "idle"]
  PROVE  /\ req'[v] \in Requests
         /\ req'[v].pc = req[v].pc /\ req'[v].op = req[v].op /\ req'[v].unit = req[v].unit
         /\ req'[v].wide = req[v].wide /\ req'[v].reach = req[v].reach
         /\ req'[v].was = req[v].was /\ req'[v].cleared = req[v].cleared
         /\ req'[v].pc # "idle" => req'[v].overtaken
         /\ Locks(v)' = Locks(v)
         /\ At(v, "commit")' = At(v, "commit")
         /\ \A u \in Units : Inserts(v, u)' = Inserts(v, u)
<1> DEFINE r == [req[v] EXCEPT !.overtaken = req[v].pc # "idle"]
<1>1. req[v] \in Requests
  BY DEF UnitsInductive, TypeOK
<1>2. r \in Requests /\ r.pc = req[v].pc /\ r.op = req[v].op /\ r.unit = req[v].unit
      /\ r.wide = req[v].wide /\ r.reach = req[v].reach
      /\ r.was = req[v].was /\ r.cleared = req[v].cleared
      /\ (r.pc # "idle" => r.overtaken)
  BY <1>1 DEF Requests
<1> HIDE DEF r
<1>3. req'[v] = r
  BY DEF r
<1> QED
  BY <1>2, <1>3 DEF Locks, At, Inserts

LEMMA CommitStep ==
  ASSUME UnitsInductive, NEW w \in Workers, Commit(w)
  PROVE  UnitsInductive'
<1> DEFINE c == req[w]
<1>1. TypeOK /\ OnePrimary /\ Exclusive(w)
  BY DEF UnitsInductive
<1>2. /\ c \in Requests /\ c.pc = "commit" /\ c.unit \in Units
      /\ req'[w] = Idle
      /\ \A v \in Workers \ {w} : req'[v] = [req[v] EXCEPT !.overtaken = req[v].pc # "idle"]
      /\ assigned' = assigned \cup {c.unit}
      /\ open' = open
      /\ (c.op \in Adds => c.unit \notin assigned)
      /\ active' \in SUBSET Units /\ primary' \in SUBSET Units
  BY CommitTables
<1>3. /\ \A u \in Units \ {c.unit} : u \in active' <=> u \in active
      /\ \A u \in Units \ {c.unit} : u \in primary' <=> u \in primary \ c.cleared
      /\ c.unit \in active' <=> c.op \in Adds \/ ActiveAfter(c)
      /\ c.unit \in primary' <=> IF c.op \in Adds THEN c.op \in Promotes ELSE PrimaryAfter(c)
  BY CommitTables
<1>4. c.op \notin Adds => (PrimaryAfter(c) => ActiveAfter(c))
  BY <1>1, <1>2 DEF Exclusive, Consistent
<1>5. c.op \notin Promotes => c.cleared = {} /\ primary' \subseteq primary
  <2>1. c.op \notin Promotes => c.cleared = {}
    BY <1>1 DEF Exclusive
  <2>2. c.op \notin Promotes /\ c.op \notin Adds /\ PrimaryAfter(c) => c.unit \in primary
    BY DEF PrimaryAfter, WritesPrimary, Promotes
  <2> QED
    BY <1>2, <1>3, <2>1, <2>2
<1>6. c.op \in Promotes => primary' \subseteq {c.unit}
  BY <1>1, <1>2, <1>3 DEF Exclusive, At, TypeOK
<1>7. TypeOK'
  <2>1. active' \subseteq assigned'
    BY <1>1, <1>2, <1>3 DEF TypeOK
  <2>2. primary' \subseteq active'
    BY <1>1, <1>2, <1>3, <1>4 DEF TypeOK
  <2>3. assigned' \in SUBSET Units /\ open' \in SUBSET Units
    BY <1>1, <1>2 DEF TypeOK
  <2>4. \A v \in Workers : req'[v] \in Requests /\ (req'[v].pc # "idle" => req'[v].unit \in Units)
    <3>1. req'[w] \in Requests /\ req'[w].pc = "idle"
      BY <1>2, IdleRequest DEF Idle
    <3>2. ASSUME NEW v \in Workers \ {w}
          PROVE  req'[v] \in Requests /\ (req'[v].pc # "idle" => req'[v].unit \in Units)
      <4>1. req'[v] \in Requests /\ req'[v].pc = req[v].pc /\ req'[v].unit = req[v].unit
        BY <1>2, OvertakenHolds
      <4> QED
        BY <1>1, <4>1 DEF TypeOK, At
    <3> QED
      BY <3>1, <3>2
  <2>5. req' \in [Workers -> Requests]
    <3>1. req' = [v \in Workers |-> req'[v]]
      BY DEF Commit, Overtake
    <3> QED
      BY <2>4, <3>1
  <2> QED
    BY <2>1, <2>2, <2>3, <2>4, <2>5 DEF TypeOK, At
<1>8. OnePrimary'
  BY <1>1, <1>5, <1>6 DEF OnePrimary
<1>9. (Locks(w) = {} /\ Exclusive(w) /\ Decided(w) /\ ~At(w, "commit"))'
  <2>1. (req[w].pc = "idle" /\ req[w].cleared = {})'
    BY <1>2 DEF Idle
  <2>2. Locks(w)' = {}
    BY <2>1 DEF Locks
  <2>3. Exclusive(w)'
    BY <2>1, <2>2 DEF Exclusive, At
  <2> QED
    BY <2>1, <2>2, <2>3 DEF Decided, At
<1>10. ASSUME NEW v \in Workers \ {w}
       PROVE  Exclusive(v)' /\ Decided(v)'
  <2> DEFINE d == req[v]
             e == req'[v]
  <2>1. /\ e.pc = d.pc /\ e.op = d.op /\ e.unit = d.unit /\ e.wide = d.wide /\ e.reach = d.reach
        /\ e.was = d.was /\ e.cleared = d.cleared /\ (e.pc # "idle" => e.overtaken)
    BY <1>2, <1>10, OvertakenHolds
  <2>2. \A x \in Workers \ {w} : /\ Locks(x)' = Locks(x) /\ At(x, "commit")' = At(x, "commit")
                                  /\ req'[x].op = req[x].op
                                  /\ \A u \in Units : Inserts(x, u)' = Inserts(x, u)
    BY <1>2, OvertakenHolds
  <2>3. Exclusive(v) /\ Decided(v) /\ d \in Requests
    BY <1>1, <1>10 DEF UnitsInductive, TypeOK
  <2>4. Locks(v) \cap Locks(w) = {} /\ c.cleared \subseteq Locks(w)
        /\ (c.op \notin Adds => c.unit \in Locks(w))
    BY <1>2, <1>10, <2>3 DEF Exclusive, Locks
  <2>5. ASSUME NEW u \in Locks(v), u \in assigned, u \in Units
        PROVE  (u \in active' <=> u \in active) /\ (u \in primary' <=> u \in primary)
    BY <1>2, <1>3, <2>4, <2>5
  <2>6. d.cleared \subseteq primary'
    <3>1. d.cleared \subseteq primary /\ primary \subseteq assigned /\ primary \subseteq Units
      BY <1>1, <2>3 DEF Exclusive, TypeOK
    <3> QED
      BY <2>5, <3>1 DEF Locks
  <2>7. d.pc \in {"index", "commit"} /\ d.op \notin Adds => Consistent(req[v])'
    <3>1. SUFFICES ASSUME d.pc \in {"index", "commit"}, d.op \notin Adds
                   PROVE  Consistent(req[v])'
      OBVIOUS
    <3>2. Consistent(d) /\ d.unit \in assigned /\ d.unit \in Locks(v) /\ d.unit \in Units
      BY <1>1, <2>3, <3>1 DEF Exclusive, Locks, TypeOK, At
    <3>3. (d.unit \in active' <=> d.unit \in active) /\ (d.unit \in primary' <=> d.unit \in primary)
      BY <2>5, <3>2
    <3> QED
      BY <2>1, <3>2, <3>3 DEF Consistent, PrimaryAfter, ActiveAfter, WritesActive, WritesPrimary
  <2>8. d.pc = "commit" /\ d.op \in Adds =>
          d.unit \notin assigned' /\ \A x \in Workers \ {v} : ~Inserts(x, d.unit)'
    <3>1. SUFFICES ASSUME d.pc = "commit", d.op \in Adds
                   PROVE  d.unit \notin assigned' /\ \A x \in Workers \ {v} : ~Inserts(x, d.unit)'
      OBVIOUS
    <3>2. d.unit \in Units /\ d.unit \notin assigned /\ \A x \in Workers \ {v} : ~Inserts(x, d.unit)
      BY <1>1, <2>3, <3>1 DEF Exclusive, TypeOK, At
    <3>3. d.unit # c.unit
      <4>1. CASE c.op \in Adds
        BY <1>2, <1>10, <3>2, <4>1 DEF Inserts
      <4>2. CASE c.op \notin Adds
        BY <1>1, <1>2, <3>2, <4>2 DEF Exclusive
      <4> QED
        BY <4>1, <4>2
    <3>4. ~Inserts(w, d.unit)'
      BY <1>9 DEF Inserts, At
    <3> QED
      BY <1>2, <2>1, <2>2, <3>2, <3>3, <3>4
  <2>9. d.pc = "commit" /\ d.op \in Promotes =>
          /\ primary' \subseteq d.cleared \cup {d.unit}
          /\ \A x \in Workers \ {v} : ~(At(x, "commit") /\ req[x].op \in Promotes)'
    <3>1. SUFFICES ASSUME d.pc = "commit", d.op \in Promotes
                   PROVE  /\ primary' \subseteq d.cleared \cup {d.unit}
                          /\ \A x \in Workers \ {v} : ~(At(x, "commit") /\ req[x].op \in Promotes)'
      OBVIOUS
    <3>2. /\ primary \subseteq d.cleared \cup {d.unit}
          /\ \A x \in Workers \ {v} : ~(At(x, "commit") /\ req[x].op \in Promotes)
      BY <2>3, <3>1 DEF Exclusive
    <3>3. c.op \notin Promotes
      BY <1>2, <1>10, <3>2 DEF At
    <3> QED
      BY <1>5, <1>9, <2>1, <2>2, <3>2, <3>3
  <2>10. \A x \in Workers \ {v} : Locks(x)' \cap Locks(v)' = {}
    BY <1>9, <1>10, <2>2, <2>3 DEF Exclusive
  <2>11. d.pc \notin {"idle", "load"} /\ d.op \notin Adds => d.unit \in assigned'
    BY <1>2, <2>3 DEF Exclusive
  <2>12. Exclusive(v)'
    BY <2>1, <2>3, <2>6, <2>7, <2>8, <2>9, <2>10, <2>11 DEF Exclusive
  <2>13. Decided(v)'
    BY <2>1, <2>3 DEF Decided, At
  <2> QED
    BY <2>12, <2>13
<1> QED
  BY <1>7, <1>8, <1>9, <1>10 DEF UnitsInductive

LEMMA SwitchStep ==
  ASSUME UnitsInductive, NEW u \in Units, SwitchUnit(u)
  PROVE  UnitsInductive'
<1>1. TypeOK /\ OnePrimary /\ UNCHANGED <<assigned, active, primary>> /\ open' \in SUBSET Units
      /\ req' = [v \in Workers |-> [req[v] EXCEPT !.overtaken = req[v].pc # "idle"]]
  BY DEF UnitsInductive, SwitchUnit, TypeOK
<1>2. ASSUME NEW v \in Workers
      PROVE  /\ req'[v] \in Requests
             /\ req'[v].pc = req[v].pc /\ req'[v].op = req[v].op /\ req'[v].unit = req[v].unit
             /\ req'[v].wide = req[v].wide /\ req'[v].reach = req[v].reach
             /\ req'[v].was = req[v].was /\ req'[v].cleared = req[v].cleared
             /\ req'[v].pc # "idle" => req'[v].overtaken
             /\ Locks(v)' = Locks(v)
             /\ At(v, "commit")' = At(v, "commit")
             /\ \A x \in Units : Inserts(v, x)' = Inserts(v, x)
  BY <1>1, OvertakenHolds
<1>3. TypeOK'
  <2>1. req' \in [Workers -> Requests]
    BY <1>1, <1>2
  <2> QED
    BY <1>1, <1>2, <2>1 DEF TypeOK, At
<1>4. OnePrimary'
  BY <1>1 DEF OnePrimary
<1>5. ASSUME NEW v \in Workers
      PROVE  Exclusive(v)' /\ Decided(v)'
  <2>1. Exclusive(v) /\ Decided(v) /\ (req[v].pc # "idle" => req[v].unit \in Units)
    BY <1>1 DEF UnitsInductive, TypeOK, At
  <2>2. Consistent(req[v])' = Consistent(req[v])
    BY <1>1, <1>2 DEF Consistent, PrimaryAfter, ActiveAfter, WritesActive, WritesPrimary
  <2>3. req[v].pc = "commit" /\ req[v].op \in Adds =>
          req[v].unit \notin assigned' /\ \A x \in Workers \ {v} : ~Inserts(x, req[v].unit)'
    BY <1>1, <1>2, <2>1 DEF Exclusive
  <2>4. req[v].pc = "commit" /\ req[v].op \in Promotes =>
          /\ primary' \subseteq req[v].cleared \cup {req[v].unit}
          /\ \A x \in Workers \ {v} : ~(At(x, "commit") /\ req[x].op \in Promotes)'
    BY <1>1, <1>2, <2>1 DEF Exclusive
  <2>5. \A x \in Workers \ {v} : Locks(x)' \cap Locks(v)' = {}
    BY <1>2, <2>1 DEF Exclusive
  <2>6. Exclusive(v)'
    BY <1>1, <1>2, <2>1, <2>2, <2>3, <2>4, <2>5 DEF Exclusive
  <2>7. Decided(v)'
    BY <1>1, <1>2, <2>1 DEF Decided, At
  <2> QED
    BY <2>6, <2>7
<1> QED
  BY <1>3, <1>4, <1>5 DEF UnitsInductive

(* The primary unit of a member is one at most and active, and what an open  *)
(* transaction holds is nobody else's (OnePrimary, Exclusive, Decided).      *)
THEOREM UnitsInvariant == Spec => []UnitsInductive
<1>1. Init => UnitsInductive
  <2> SUFFICES ASSUME Init PROVE UnitsInductive
    OBVIOUS
  <2>1. PICK first \in Units \cup {None} :
          assigned = {first} \ {None} /\ active = assigned /\ primary = assigned
    BY DEF Init
  <2>2. assigned \in SUBSET Units /\ OnePrimary
    BY <2>1, NoneAssumption DEF OnePrimary
  <2>3. \A w \in Workers : req[w] = Idle
    BY DEF Init
  <2>4. TypeOK
    <3>1. req \in [Workers -> Requests] /\ open \in SUBSET Units
      BY IdleRequest DEF Init
    <3>2. Idle.pc = "idle"
      BY DEF Idle
    <3>3. \A w \in Workers : At(w, "idle")
      BY <2>3, <3>2 DEF At
    <3> QED
      BY <2>1, <2>2, <3>1, <3>3 DEF TypeOK
  <2>5. \A w \in Workers : Exclusive(w) /\ Decided(w)
    BY <2>3, IdleHoldsNothing
  <2> QED
    BY <2>2, <2>4, <2>5 DEF UnitsInductive
<1>2. UnitsInductive /\ [Next]_vars => UnitsInductive'
  <2> SUFFICES ASSUME UnitsInductive, [Next]_vars PROVE UnitsInductive'
    OBVIOUS
  <2>1. CASE Next
    BY <2>1, RequestStep, CommitStep, SwitchStep DEF Next
  <2>2. CASE UNCHANGED vars
    BY <2>2 DEF vars, UnitsInductive, TypeOK, OnePrimary, Exclusive, Decided, Locks, Inserts, At,
                Consistent, PrimaryAfter, ActiveAfter, WritesActive, WritesPrimary
  <2> QED
    BY <2>1, <2>2
<1> QED
  BY <1>1, <1>2, PTL DEF Spec

(* Only a commit and SwitchUnit change the tables.                           *)
LEMMA TableSteps ==
  ASSUME UnitsInductive, [Next]_vars
  PROVE  \/ UNCHANGED <<assigned, active, primary, open>>
         \/ UNCHANGED <<assigned, active, primary>> /\ \A w \in Workers : ~Commits(w)
         \/ \E w \in Workers : Commit(w)
<1>1. CASE UNCHANGED vars
  BY <1>1 DEF vars
<1>2. ASSUME NEW u \in Units, SwitchUnit(u)
      PROVE  UNCHANGED <<assigned, active, primary>> /\ \A w \in Workers : ~Commits(w)
  <2>1. ASSUME NEW w \in Workers, Commits(w)
        PROVE  FALSE
    <3>1. req[w].pc = "commit" /\ req'[w].pc = "idle"
      BY <2>1 DEF Commits, At, Idle
    <3>2. req'[w].pc = req[w].pc
      BY <1>2, OvertakenHolds DEF SwitchUnit
    <3> QED
      BY <3>1, <3>2
  <2> QED
    BY <1>2, <2>1 DEF SwitchUnit
<1>3. ASSUME NEW w \in Workers, Load(w) \/ ClearBegin(w) \/ ClearEnd(w) \/ LockRow(w) \/ Index(w)
                                \/ Victim(w) \/ CutOff(w)
      PROVE  UNCHANGED <<assigned, active, primary, open>>
  BY <1>3 DEF Load, ClearBegin, ClearEnd, LockRow, Index, Victim, CutOff, Goto, Become, tables
<1>4. ASSUME NEW w \in Workers, NEW op, NEW u, NEW wide, NEW reach, Start(w, wide, reach, op, u)
      PROVE  UNCHANGED <<assigned, active, primary, open>>
  BY <1>4 DEF Start, Become, tables
<1> QED
  BY <1>1, <1>2, <1>3, <1>4 DEF Next

(* A commit is the commit of one request.                                    *)
LEMMA OneCommits ==
  ASSUME UnitsInductive, NEW w \in Workers, NEW v \in Workers, Commit(w), Commits(v)
  PROVE  v = w
<1> SUFFICES ASSUME v # w PROVE FALSE
  OBVIOUS
<1>1. req'[v].pc = "idle" /\ req[v].pc = "commit"
  BY DEF Commits, At, Idle
<1>2. req'[v].pc = req[v].pc
  BY CommitTables, OvertakenHolds
<1> QED
  BY <1>1, <1>2

(* A commit that changes the primary units is one of `Commits`.              *)
LEMMA CommitCommits ==
  ASSUME UnitsInductive, NEW w \in Workers, Commit(w),
         primary' # primary \/ active' # active
  PROVE  Commits(w)
<1>1. At(w, "commit")
  BY DEF Commit
<1>2. req'[w] = Idle
  BY CommitTables
<1> QED
  BY <1>1, <1>2 DEF Commits, tables

(* Whatever the order of promotions, a member has one primary unit at most.  *)
THEOREM SinglePrimary == Spec => []OnePrimary
<1>1. UnitsInductive => OnePrimary
  BY DEF UnitsInductive
<1> QED
  BY <1>1, UnitsInvariant, PTL

(* removes_primary: only scope COMPANY leaves a member without primary unit, *)
(* whatever the order of the statements of the requests in flight.           *)
THEOREM PrimaryStays == Spec => OnlyCompanyLeavesNone
<1>1. ASSUME UnitsInductive, [Next]_vars, primary # {}, primary' = {}
      PROVE  \E w \in Workers : Commits(w) /\ req[w].wide
  <2>1. PICK w \in Workers : Commit(w)
    BY <1>1, TableSteps
  <2> DEFINE c == req[w]
  <2>2. Commits(w)
    BY <1>1, <2>1, CommitCommits
  <2>3. /\ c.pc = "commit" /\ c.unit \in Units /\ (c.op \in Adds => c.unit \notin assigned)
        /\ \A u \in Units \ {c.unit} : u \in primary' <=> u \in primary \ c.cleared
        /\ c.unit \in primary' <=> IF c.op \in Adds THEN c.op \in Promotes ELSE PrimaryAfter(c)
    BY <1>1, <2>1, CommitTables
  <2>4. TypeOK /\ Exclusive(w) /\ Decided(w)
    BY <1>1 DEF UnitsInductive
  <2>5. c.op \notin Promotes
    BY <1>1, <2>3 DEF PrimaryAfter, WritesPrimary, Promotes, Adds
  <2>6. c.cleared = {}
    BY <2>4, <2>5 DEF Exclusive
  <2>7. c.unit \in primary /\ c.op \notin Adds
    BY <1>1, <2>3, <2>4, <2>6 DEF TypeOK
  <2>8. WritesPrimary(c)
    BY <1>1, <2>3, <2>6, <2>7 DEF PrimaryAfter
  <2>9. c.wide
    BY <2>3, <2>4, <2>5, <2>8 DEF WritesPrimary, Promotes, Decided
  <2> QED
    BY <2>2, <2>9
<1>2. UnitsInductive /\ [Next]_vars => [primary # {} /\ primary' = {} =>
                                       \E w \in Workers : Commits(w) /\ req[w].wide]_vars
  BY <1>1
<1> QED
  BY <1>2, UnitsInvariant, PTL DEF Spec, OnlyCompanyLeavesNone

(* A requester with unit scope takes the mark from a unit of theirs, unless  *)
(* the mark moved while the request was in flight.                           *)
THEOREM TakenFromReach == Spec => TakenWithinReach
<1>1. ASSUME UnitsInductive, [Next]_vars, NEW v \in Workers, Commits(v), NEW u \in primary \ primary'
      PROVE  Allows(req[v], u) \/ req[v].overtaken
  <2>1. PICK w \in Workers : Commit(w)
    BY <1>1, TableSteps
  <2>2. v = w
    BY <1>1, <2>1, OneCommits
  <2>3. Decided(w) /\ req[w].pc = "commit"
    BY <1>1, <2>1 DEF UnitsInductive, Commit, At
  <2> QED
    BY <1>1, <2>2, <2>3 DEF Decided, Allows, At
<1>2. UnitsInductive /\ [Next]_vars =>
        [\A w \in Workers : Commits(w) =>
           \A u \in primary \ primary' : Allows(req[w], u) \/ req[w].overtaken]_vars
  BY <1>1
<1> QED
  BY <1>2, UnitsInvariant, PTL DEF Spec, TakenWithinReach

(* A row becomes active in a unit in use, unless the unit was closed while   *)
(* the request was in flight.                                                *)
THEOREM ActivatedWhereOpen == Spec => ActiveInOpenUnits
<1>1. ASSUME UnitsInductive, [Next]_vars, NEW u \in active' \ active, u \notin open
      PROVE  \E w \in Workers : Commits(w) /\ req[w].overtaken
  <2>1. PICK w \in Workers : Commit(w)
    BY <1>1, TableSteps
  <2> DEFINE c == req[w]
  <2>2. Commits(w)
    BY <1>1, <2>1, CommitCommits
  <2>3. /\ c.pc = "commit" /\ active' \in SUBSET Units
        /\ \A x \in Units \ {c.unit} : x \in active' <=> x \in active
        /\ c.unit \in active' <=> c.op \in Adds \/ ActiveAfter(c)
    BY <1>1, <2>1, CommitTables
  <2>4. u = c.unit
    BY <1>1, <2>3
  <2>5. c.op \in Adds \cup Activates
    BY <1>1, <2>3, <2>4 DEF ActiveAfter, WritesActive
  <2>6. Decided(w)
    BY <1>1 DEF UnitsInductive
  <2> QED
    BY <1>1, <2>2, <2>3, <2>4, <2>5, <2>6 DEF Decided
<1>2. UnitsInductive /\ [Next]_vars =>
        [\A u \in active' \ active : u \in open \/ \E w \in Workers : Commits(w) /\ req[w].overtaken]_vars
  BY <1>1
<1> QED
  BY <1>2, UnitsInvariant, PTL DEF Spec, ActiveInOpenUnits

(* Requests that nobody overtook do not deadlock: each of those that hold    *)
(* cleared rows holds all there are, so there is only one.                   *)
THEOREM NoDeadlockInOrder == Spec => []DeadlockOnlyByOvertaking
<1>1. ASSUME UnitsInductive, NEW D \in SUBSET Workers, Deadlock(D)
      PROVE  \E w \in D : req[w].overtaken
  <2> SUFFICES ASSUME \A w \in D : ~req[w].overtaken PROVE FALSE
    OBVIOUS
  <2>1. \A w \in D : /\ Blockers(w) \cap D # {}
                    /\ req[w].pc \in {"clearing", "lock", "index"}
    BY <1>1 DEF Deadlock, Blockers, At
  <2>2. ASSUME NEW w \in D, NEW v \in Blockers(w) \cap D
        PROVE  v # w /\ req[v].cleared # {}
    <3>1. req[v].pc \in {"clearing", "lock", "index"} /\ v # w /\ v \in Workers /\ w \in Workers
      BY <2>1, <2>2 DEF Blockers
    <3> SUFFICES ASSUME req[v].cleared = {} PROVE FALSE
      BY <3>1
    <3>2. ~TouchesIndex(v) /\ \A u : ~Inserts(v, u)
      BY <3>1 DEF TouchesIndex, Inserts, At
    <3>3. Locks(v) # {}
      BY <2>2, <3>2 DEF Blockers
    <3>4. req[v].pc = "index" /\ req[v].op \notin Adds
      BY <3>1, <3>3 DEF Locks
    <3>5. PICK x \in Blockers(v) \cap D : TRUE
      BY <2>1, <2>2
    <3>6. x \in Workers /\ req[x].pc # "commit" /\ req[v].op \in Promotes /\ TouchesIndex(x)
      BY <2>1, <3>4, <3>5 DEF Blockers, At
    <3>7. primary # {}
      BY <1>1, <3>6 DEF TouchesIndex, UnitsInductive, Exclusive
    <3> QED
      BY <1>1, <2>2, <3>1, <3>4, <3>6, <3>7 DEF UnitsInductive, Decided
  <2>3. \A v \in D : req[v].cleared # {} => req[v].cleared = primary
    BY <1>1, <2>1 DEF UnitsInductive, Exclusive, Decided
  <2>4. PICK w \in D : TRUE
    BY <1>1 DEF Deadlock
  <2>5. PICK v \in Blockers(w) \cap D : TRUE
    BY <2>1, <2>4
  <2>6. PICK x \in Blockers(v) \cap D : TRUE
    BY <2>1, <2>5
  <2>7. x # v /\ req[v].cleared = primary /\ req[x].cleared = primary /\ primary # {}
    BY <2>2, <2>3, <2>4, <2>5, <2>6
  <2>8. primary \subseteq Locks(v) \cap Locks(x) /\ v \in Workers /\ x \in Workers
    BY <2>5, <2>6, <2>7 DEF Locks
  <2> QED
    BY <1>1, <2>7, <2>8 DEF UnitsInductive, Exclusive
<1>2. UnitsInductive => DeadlockOnlyByOvertaking
  BY <1>1 DEF DeadlockOnlyByOvertaking
<1> QED
  BY <1>2, UnitsInvariant, PTL

-----------------------------------------------------------------------------
(* Roles                                                                     *)

(* A worker without a request. *)
LEMMA NoReplacementTyped == NoReplacement \in Replacements
  BY DEF NoReplacement, Replacements, Stages

(* A step of one request: the tables stay, and what is left to show is about *)
(* the request and the rows it has open.                                     *)
LEMMA ProceedStep ==
  ASSUME DelegationInductive, NEW w \in Workers, NEW r \in Replacements, Proceed(w, r), ReadOK(w)',
         \A v \in Workers \ {w} :
           req[v].target = r.target => Locked(v) \cap Locked(w)' = {}
  PROVE  DelegationInductive'
<1>1. DelegationTypeOK /\ UNCHANGED <<usable, deleg, held, changes, granted>>
      /\ req' = [req EXCEPT ![w] = r]
  BY DEF DelegationInductive, Proceed
<1>2. DelegationTypeOK' /\ req'[w] = r
  BY <1>1 DEF DelegationTypeOK
<1>3. ASSUME NEW v \in Workers, v # w
      PROVE  req'[v] = req[v] /\ ReadOK(v)' /\ Locked(v)' = Locked(v)
  <2>1. ReadOK(v) /\ req'[v] = req[v]
    BY <1>1, <1>3 DEF DelegationInductive, DelegationTypeOK
  <2>2. ReadOK(v)'
    BY <1>1, <2>1 DEF ReadOK
  <2>3. Locked(v)' = Locked(v)
    BY <2>1 DEF Locked, At
  <2> QED
    BY <2>1, <2>2, <2>3
<1>4. HeldWereGranted'
  BY <1>1 DEF DelegationInductive, HeldWereGranted
<1>5. ASSUME NEW u \in Workers, NEW v \in Workers, u # v, req'[u].target = req'[v].target
      PROVE  Locked(u)' \cap Locked(v)' = {}
  <2>1. CASE u = w
    BY <1>2, <1>3, <1>5, <2>1
  <2>2. CASE v = w
    BY <1>2, <1>3, <1>5, <2>2
  <2>3. CASE u # w /\ v # w
    BY <1>3, <1>5, <2>3 DEF DelegationInductive, Disjoint
  <2> QED
    BY <2>1, <2>2, <2>3
<1>6. Disjoint'
  BY <1>5 DEF Disjoint
<1> QED
  BY <1>2, <1>3, <1>4, <1>6 DEF DelegationInductive

(* The steps of a request before it locks a row, and its end.                *)
LEMMA ReadStep ==
  ASSUME DelegationInductive, NEW w \in Workers,
         \/ \E t \in Members : ReadTarget(w, t)
         \/ \E want \in SUBSET Roles : ReadRoles(w, want)
         \/ \E a \in Members : ReadActor(w, a)
         \/ ReadDelegations(w)
         \/ DeleteBegin(w)
         \/ Abort(w)
  PROVE  DelegationInductive'
<1>1. DelegationTypeOK /\ ReadOK(w) /\ req[w] \in Replacements /\ HeldWereGranted
  BY DEF DelegationInductive, DelegationTypeOK
<1>2. \A r : Proceed(w, r) => req'[w] = r /\ UNCHANGED <<held, granted>>
  BY <1>1 DEF Proceed, DelegationTypeOK
<1>3. ASSUME NEW r \in Replacements, Proceed(w, r), ReadOK(w)', r.pc \notin {"insert", "commit"}
      PROVE  DelegationInductive'
  <2>1. Locked(w)' = {}
    BY <1>2, <1>3 DEF Locked, At
  <2> QED
    BY <1>3, <2>1, ProceedStep
<1>4. ASSUME Proceed(w, NoReplacement)
      PROVE  DelegationInductive'
  <2>1. ReadOK(w)'
    BY <1>2, <1>4 DEF ReadOK, NoReplacement
  <2> QED
    BY <1>3, <1>4, <2>1, NoReplacementTyped DEF NoReplacement
<1>5. ASSUME NEW t \in Members, ReadTarget(w, t)
      PROVE  DelegationInductive'
  <2> DEFINE r == [NoReplacement EXCEPT !.pc = "roles", !.target = t,
                                        !.cur = held[t], !.seen = held[t] \cap usable]
  <2>1. r \in Replacements
    BY <1>1, NoReplacementTyped DEF Replacements, Stages, DelegationTypeOK
  <2>2. r.pc = "roles" /\ r.target = t /\ r.cur = held[t]
    BY DEF NoReplacement
  <2>3. Proceed(w, r)
    BY <1>5 DEF ReadTarget
  <2> HIDE DEF r
  <2>4. ReadOK(w)'
    BY <1>1, <1>2, <2>2, <2>3 DEF ReadOK, HeldWereGranted
  <2> QED
    BY <1>3, <2>1, <2>2, <2>3, <2>4
<1>6. ASSUME NEW want \in SUBSET Roles, ReadRoles(w, want)
      PROVE  DelegationInductive'
  <2> DEFINE r == [req[w] EXCEPT !.pc = "actor", !.want = want]
  <2>1. r \in Replacements
    BY <1>1 DEF Replacements, Stages
  <2>2. r.pc = "actor" /\ r.target = req[w].target /\ r.cur = req[w].cur
        /\ r.overtaken = req[w].overtaken
    BY <1>1 DEF Replacements
  <2>3. req[w].pc = "roles" /\ (Proceed(w, r) \/ Proceed(w, NoReplacement))
    BY <1>6 DEF ReadRoles, At
  <2> HIDE DEF r
  <2>4. CASE Proceed(w, r)
    <3>1. ReadOK(w)'
      BY <1>1, <1>2, <2>2, <2>3, <2>4 DEF ReadOK
    <3> QED
      BY <1>3, <2>1, <2>2, <2>4, <3>1
  <2> QED
    BY <1>4, <2>3, <2>4
<1>7. ASSUME NEW a \in Members, ReadActor(w, a)
      PROVE  DelegationInductive'
  <2> DEFINE seen == Managers(w, a)
             r == [req[w] EXCEPT !.pc = "delegations", !.seen = seen]
  <2>1. seen \in SUBSET Roles
    BY <1>1 DEF Managers, DelegationTypeOK
  <2>2. req[w].pc = "actor" /\ Proceed(w, r)
    BY <1>7 DEF ReadActor, At
  <2> HIDE DEF seen
  <2>3. r \in Replacements
    BY <1>1, <2>1 DEF Replacements, Stages
  <2>4. r.pc = "delegations" /\ r.target = req[w].target /\ r.cur = req[w].cur
        /\ r.overtaken = req[w].overtaken
    BY <1>1 DEF Replacements
  <2> HIDE DEF r
  <2>5. ReadOK(w)'
    BY <1>1, <1>2, <2>2, <2>4 DEF ReadOK
  <2> QED
    BY <1>3, <2>2, <2>3, <2>4, <2>5
<1>8. ASSUME ReadDelegations(w)
      PROVE  DelegationInductive'
  <2> DEFINE may == UNION {deleg[m] : m \in req[w].seen}
             r == [req[w] EXCEPT !.pc = "delete", !.seen = {}, !.may = may]
  <2>1. may \in SUBSET Roles
    BY <1>1 DEF DelegationTypeOK, Replacements
  <2>2. /\ req[w].pc = "delegations"
        /\ \/ Changed(req[w].cur, req[w].want) \subseteq may /\ Proceed(w, r)
           \/ Proceed(w, NoReplacement)
    BY <1>8 DEF ReadDelegations, At
  <2> HIDE DEF may
  <2>3. r \in Replacements
    BY <1>1, <2>1 DEF Replacements, Stages
  <2>4. r.pc = "delete" /\ r.target = req[w].target /\ r.cur = req[w].cur
        /\ r.want = req[w].want /\ r.may = may /\ r.overtaken = req[w].overtaken
    BY <1>1 DEF Replacements
  <2> HIDE DEF r
  <2>5. CASE Changed(req[w].cur, req[w].want) \subseteq may /\ Proceed(w, r)
    <3>1. /\ req[w].want \subseteq req[w].cur \cup may
          /\ Differing(req[w].cur, req[w].want) \subseteq may
      BY <2>5 DEF Changed, Differing
    <3>2. ReadOK(w)'
      BY <1>1, <1>2, <2>2, <2>4, <2>5, <3>1 DEF ReadOK
    <3> QED
      BY <1>3, <2>3, <2>4, <2>5, <3>2
  <2> QED
    BY <1>4, <2>2, <2>5
<1>9. ASSUME DeleteBegin(w)
      PROVE  DelegationInductive'
  <2> DEFINE t == req[w].target
             r == [req[w] EXCEPT !.pc = "rows", !.rows = held[t], !.cur = {}]
  <2>1. req[w].pc = "delete" /\ Proceed(w, r) /\ t \in Members
    BY <1>1, <1>9 DEF DeleteBegin, At, ReadOK
  <2>2. r \in Replacements
    BY <1>1, <2>1 DEF Replacements, Stages, DelegationTypeOK
  <2>3. r.pc = "rows" /\ r.target = req[w].target /\ r.rows = held[t] /\ r.cur = {}
        /\ r.want = req[w].want /\ r.may = req[w].may /\ r.overtaken = req[w].overtaken
    BY <1>1 DEF Replacements
  <2> HIDE DEF r
  <2>4. ReadOK(w)'
    BY <1>1, <1>2, <2>1, <2>3 DEF ReadOK
  <2> QED
    BY <1>3, <2>1, <2>2, <2>3, <2>4
<1> QED
  BY <1>4, <1>5, <1>6, <1>7, <1>8, <1>9 DEF Abort

(* DELETE has locked its rows: nobody else has one of them open.             *)
LEMMA DeleteEndStep ==
  ASSUME DelegationInductive, NEW w \in Workers, DeleteEnd(w)
  PROVE  DelegationInductive'
<1> DEFINE r == [req[w] EXCEPT !.pc = "insert"]
<1>1. DelegationTypeOK /\ ReadOK(w) /\ req[w] \in Replacements
  BY DEF DelegationInductive, DelegationTypeOK
<1>2. req[w].pc = "rows" /\ Proceed(w, r) /\ ~Blocked(w, req[w].rows)
  BY DEF DeleteEnd, At
<1>3. r \in Replacements
  BY <1>1 DEF Replacements, Stages
<1>4. r.pc = "insert" /\ r.target = req[w].target /\ r.rows = req[w].rows /\ r.cur = req[w].cur
      /\ r.want = req[w].want /\ r.may = req[w].may /\ r.overtaken = req[w].overtaken
  BY <1>1 DEF Replacements
<1> HIDE DEF r
<1>5. req'[w] = r /\ UNCHANGED <<held, granted>>
  BY <1>1, <1>2 DEF Proceed, DelegationTypeOK
<1>6. ReadOK(w)'
  BY <1>1, <1>2, <1>4, <1>5 DEF ReadOK
<1>7. Locked(w)' = req[w].rows
  BY <1>4, <1>5 DEF Locked, At
<1>8. \A v \in Workers \ {w} : req[v].target = r.target => Locked(v) \cap Locked(w)' = {}
  BY <1>2, <1>4, <1>7 DEF Blocked
<1> QED
  BY <1>2, <1>3, <1>6, <1>8, ProceedStep

(* INSERT waited for the keys it writes and had the deleted rows already.    *)
LEMMA InsertStep ==
  ASSUME DelegationInductive, NEW w \in Workers, Insert(w)
  PROVE  DelegationInductive'
<1> DEFINE r == [req[w] EXCEPT !.pc = "commit"]
<1>1. DelegationTypeOK /\ ReadOK(w) /\ req[w] \in Replacements /\ Disjoint
  BY DEF DelegationInductive, DelegationTypeOK
<1>2. req[w].pc = "insert" /\ (Proceed(w, r) \/ Proceed(w, NoReplacement)) /\ ~Blocked(w, req[w].want)
  BY DEF Insert, At
<1>3. r \in Replacements
  BY <1>1 DEF Replacements, Stages
<1>4. r.pc = "commit" /\ r.target = req[w].target /\ r.rows = req[w].rows /\ r.cur = req[w].cur
      /\ r.want = req[w].want /\ r.may = req[w].may /\ r.overtaken = req[w].overtaken
  BY <1>1 DEF Replacements
<1> HIDE DEF r
<1>5. \A q : Proceed(w, q) => req'[w] = q /\ UNCHANGED <<held, granted>>
  BY <1>1 DEF Proceed, DelegationTypeOK
<1>6. CASE Proceed(w, NoReplacement)
  <2>1. ReadOK(w)' /\ Locked(w)' = {}
    BY <1>5, <1>6 DEF ReadOK, NoReplacement, Locked, At
  <2> QED
    BY <1>6, <2>1, NoReplacementTyped, ProceedStep
<1>7. CASE Proceed(w, r)
  <2>1. ReadOK(w)'
    BY <1>1, <1>2, <1>4, <1>5, <1>7 DEF ReadOK
  <2>2. Locked(w)' = req[w].rows \cup req[w].want /\ Locked(w) = req[w].rows
    BY <1>2, <1>4, <1>5, <1>7 DEF Locked, At
  <2>3. ASSUME NEW v \in Workers \ {w}, req[v].target = r.target
        PROVE  Locked(v) \cap Locked(w)' = {}
    <3>1. Locked(v) \cap req[w].want = {}
      BY <1>2, <1>4, <2>3 DEF Blocked
    <3>2. Locked(v) \cap req[w].rows = {}
      BY <1>1, <1>4, <2>2, <2>3 DEF Disjoint
    <3> QED
      BY <2>2, <3>1, <3>2
  <2> QED
    BY <1>3, <1>7, <2>1, <2>3, ProceedStep
<1> QED
  BY <1>2, <1>6, <1>7

(* The commit: what it inserts was granted or may be assigned, and it takes  *)
(* away no row that another transaction has open.                            *)
LEMMA CommitRolesStep ==
  ASSUME DelegationInductive, NEW w \in Workers, CommitRoles(w)
  PROVE  DelegationInductive'
<1> DEFINE t == req[w].target
<1>1. DelegationTypeOK /\ ReadOK(w) /\ req[w] \in Replacements /\ HeldWereGranted /\ Disjoint
  BY DEF DelegationInductive, DelegationTypeOK
<1>2. /\ req[w].pc = "commit" /\ t \in Members
      /\ req[w].want \subseteq granted[t] \cup req[w].may
      /\ req[w].want \in SUBSET Roles /\ req[w].rows \in SUBSET Roles
      /\ Locked(w) = req[w].rows \cup req[w].want
  BY <1>1 DEF CommitRoles, At, ReadOK, Replacements, Locked
<1>3. /\ UNCHANGED <<usable, deleg>> /\ changes' \in 0 .. MaxChanges
      /\ held' = [held EXCEPT ![t] = Result(w)]
      /\ granted' = [granted EXCEPT ![t] = granted[t] \cup (req[w].want \cap req[w].may)]
  <2>1. changes' \in 0 .. MaxChanges
    <3>1. changes < MaxChanges /\ changes' = changes + 1
      BY DEF CommitRoles, Change
    <3>2. changes \in Nat
      BY <1>1 DEF DelegationTypeOK
    <3> QED
      BY <3>1, <3>2, MaxChangesAssumption
  <2>2. /\ UNCHANGED <<usable, deleg>> /\ held' = [held EXCEPT ![t] = Result(w)]
        /\ granted' = [granted EXCEPT ![t] = granted[t] \cup (req[w].want \cap req[w].may)]
    BY Zenon DEF CommitRoles
  <2> QED
    BY <2>1, <2>2
<1>4. Result(w) = (held[t] \ req[w].rows) \cup req[w].want /\ Result(w) \in SUBSET Roles
  BY <1>1, <1>2 DEF Result, DelegationTypeOK
<1>5. req'[w] = NoReplacement
  BY DEF CommitRoles
<1>6. ASSUME NEW v \in Workers, v # w, req[v].target # t
      PROVE  req'[v] = req[v]
  BY <1>6 DEF CommitRoles
<1>7. ASSUME NEW v \in Workers, v # w, req[v].target = t
      PROVE  /\ req'[v] \in Replacements
             /\ req'[v].pc = req[v].pc /\ req'[v].target = req[v].target
             /\ req'[v].want = req[v].want /\ req'[v].cur = req[v].cur
             /\ req'[v].may = req[v].may /\ req'[v].overtaken
             /\ req'[v].rows = IF req[v].pc = "rows" THEN req[v].rows \ req[w].rows
                               ELSE req[v].rows
  <2>1. req[v] \in Replacements
    BY <1>1 DEF DelegationTypeOK
  <2>2. req'[v] = [req[v] EXCEPT !.overtaken = TRUE,
                     !.rows = IF At(v, "rows") THEN req[v].rows \ req[w].rows ELSE req[v].rows]
    BY <1>7, <2>1 DEF CommitRoles, Replacements
  <2> QED
    BY <2>1, <2>2 DEF Replacements, At
<1>8. ASSUME NEW v \in Workers
      PROVE  req'[v] \in Replacements
  <2>1. req[v] \in Replacements
    BY <1>1 DEF DelegationTypeOK
  <2> QED
    BY <1>5, <1>6, <1>7, <2>1, NoReplacementTyped
<1>9. DelegationTypeOK'
  <2>1. req' \in [Workers -> Replacements]
    BY <1>8 DEF CommitRoles
  <2>2. held' \in [Members -> SUBSET Roles] /\ granted' \in [Members -> SUBSET Roles]
    BY <1>1, <1>2, <1>3, <1>4 DEF DelegationTypeOK
  <2> QED
    BY <1>1, <1>3, <2>1, <2>2 DEF DelegationTypeOK
<1>10. /\ held'[t] = (held[t] \ req[w].rows) \cup req[w].want
       /\ granted'[t] = granted[t] \cup (req[w].want \cap req[w].may)
       /\ \A m \in Members : m # t => held'[m] = held[m] /\ granted'[m] = granted[m]
  BY <1>1, <1>2, <1>3, <1>4 DEF DelegationTypeOK
<1>11. HeldWereGranted'
  <2>1. held'[t] \subseteq granted'[t]
    BY <1>1, <1>2, <1>10 DEF HeldWereGranted
  <2> QED
    BY <1>1, <1>10, <2>1 DEF HeldWereGranted
<1>12. ASSUME NEW v \in Workers, v # w
       PROVE  Locked(v)' = Locked(v) /\ req'[v].target = req[v].target
  BY <1>6, <1>7, <1>12 DEF Locked, At
<1>13. Disjoint'
  <2>1. Locked(w)' = {}
    BY <1>5 DEF Locked, At, NoReplacement
  <2> QED
    BY <1>1, <1>12, <2>1 DEF Disjoint
<1>14. ASSUME NEW v \in Workers
       PROVE  ReadOK(v)'
  <2>1. CASE v = w
    BY <1>5, <2>1 DEF ReadOK, NoReplacement
  <2>2. CASE v # w /\ req[v].target # t
    <3>1. ReadOK(v) /\ req'[v] = req[v] /\ (req[v].pc # "idle" => req[v].target \in Members)
      BY <1>6, <2>2 DEF DelegationInductive, ReadOK
    <3>2. req[v].pc # "idle" => /\ held'[req[v].target] = held[req[v].target]
                                /\ granted'[req[v].target] = granted[req[v].target]
      BY <1>10, <2>2, <3>1
    <3> QED
      BY <3>1, <3>2 DEF ReadOK
  <2>3. CASE v # w /\ req[v].target = t
    <3>1. ReadOK(v)
      BY DEF DelegationInductive
    <3>2. req[v].pc \in {"insert", "commit"} => req[v].rows \cap req[w].rows = {}
      <4>1. req[v].pc \in {"insert", "commit"} => req[v].rows \subseteq Locked(v)
        BY DEF Locked, At
      <4> QED
        BY <1>1, <1>2, <2>3, <4>1 DEF Disjoint
    <3>3. req[v].pc \in {"rows", "insert", "commit"} => req'[v].rows \subseteq held'[t]
      BY <1>7, <1>10, <2>3, <3>1, <3>2 DEF ReadOK
    <3> QED
      BY <1>2, <1>7, <1>10, <2>3, <3>1, <3>3 DEF ReadOK
  <2> QED
    BY <2>1, <2>2, <2>3
<1> QED
  BY <1>9, <1>11, <1>13, <1>14 DEF DelegationInductive

(* Other administration touches neither members' roles nor requests.         *)
LEMMA AdministrationStep ==
  ASSUME DelegationInductive,
         \/ \E r \in Roles, roles \in SUBSET Roles : ReplaceDelegations(r, roles)
         \/ \E r \in Roles : UpdateRole(r)
  PROVE  DelegationInductive'
<1>1. DelegationTypeOK /\ UNCHANGED <<held, req, granted>>
  BY DEF DelegationInductive, ReplaceDelegations, UpdateRole
<1>2. changes' \in 0 .. MaxChanges
  BY <1>1, MaxChangesAssumption DEF ReplaceDelegations, UpdateRole, Change, DelegationTypeOK
<1>3. usable' \in SUBSET Roles /\ deleg' \in [Roles -> SUBSET Roles]
  BY <1>1 DEF ReplaceDelegations, UpdateRole, DelegationTypeOK
<1>4. DelegationTypeOK'
  BY <1>1, <1>2, <1>3 DEF DelegationTypeOK
<1>5. HeldWereGranted' /\ Disjoint' /\ \A w \in Workers : ReadOK(w)'
  BY <1>1 DEF DelegationInductive, HeldWereGranted, Disjoint, Locked, At, ReadOK
<1> QED
  BY <1>4, <1>5 DEF DelegationInductive

(* The inductive invariant, for any number of members, roles and requests.   *)
THEOREM DelegationInvariant == DelegationSpec => []DelegationInductive
<1>1. DelegationInit => DelegationInductive
  <2> SUFFICES ASSUME DelegationInit
               PROVE  DelegationInductive
    OBVIOUS
  <2>1. req = [w \in Workers |-> NoReplacement] /\ held = granted
        /\ (\A w \in Workers : req[w] = NoReplacement)
    BY DEF DelegationInit
  <2>2. DelegationTypeOK
    BY <2>1, NoReplacementTyped, MaxChangesAssumption DEF DelegationInit, DelegationTypeOK
  <2>3. HeldWereGranted /\ Disjoint /\ \A w \in Workers : ReadOK(w)
    BY <2>1 DEF HeldWereGranted, Disjoint, Locked, At, ReadOK, NoReplacement
  <2> QED
    BY <2>2, <2>3 DEF DelegationInductive
<1>2. DelegationInductive /\ [DelegationNext]_delegationVars => DelegationInductive'
  <2> SUFFICES ASSUME DelegationInductive, [DelegationNext]_delegationVars
               PROVE  DelegationInductive'
    OBVIOUS
  <2>1. ASSUME NEW w \in Workers, Assign(w)
        PROVE  DelegationInductive'
    BY <2>1, ReadStep, DeleteEndStep, InsertStep, CommitRolesStep DEF Assign
  <2>2. CASE UNCHANGED delegationVars
    <3>1. UNCHANGED <<usable, deleg, held, req, changes, granted>>
      BY <2>2 DEF delegationVars
    <3> QED
      BY <3>1 DEF DelegationInductive, DelegationTypeOK, HeldWereGranted, Disjoint, Locked, At, ReadOK
  <2> QED
    BY <2>1, <2>2, AdministrationStep DEF DelegationNext
<1> QED
  BY <1>1, <1>2, PTL DEF DelegationSpec

(* A member only ever has roles somebody could grant.                        *)
THEOREM HeldGranted == DelegationSpec => []HeldWereGranted
<1>1. DelegationInductive => HeldWereGranted
  BY DEF DelegationInductive
<1> QED
  BY <1>1, DelegationInvariant, PTL

(* A request that no other commit overtook changes what it was checked for.  *)
THEOREM Checked == DelegationSpec => []CommitsAsChecked
<1>1. DelegationInductive => CommitsAsChecked
  <2> SUFFICES ASSUME DelegationInductive, NEW w \in Workers,
                      At(w, "commit"), ~req[w].overtaken
               PROVE  /\ Result(w) = req[w].want
                      /\ Differing(held[req[w].target], req[w].want) \subseteq req[w].may
    BY DEF CommitsAsChecked
  <2>1. /\ req[w].rows = held[req[w].target]
        /\ Differing(held[req[w].target], req[w].want) \subseteq req[w].may
    BY DEF DelegationInductive, ReadOK, At
  <2> QED
    BY <2>1 DEF Result
<1> QED
  BY <1>1, DelegationInvariant, PTL

-----------------------------------------------------------------------------
(* Permissions                                                               *)

(* Writers that still owe the key of m a DEL. *)
Owed(m) ==
  \E w \in Workers : \/ At(w, "members") /\ m \in Holders(req[w].role)
                     \/ At(w, "del") /\ m \in req[w].ids

(* StaleOnlyByRace for one membership. *)
KeyOK(m) == cache[m] \notin {None, Effective(m)} => m \in late \cup cut \/ Owed(m)

(* The invariant about keys, one membership at a time. *)
LEMMA KeysOK == StaleOnlyByRace <=> \A m \in Members : KeyOK(m)
  BY DEF StaleOnlyByRace, KeyOK, Owed

(* Every scope is a set of ranks. *)
LEMMA ScopesAreRanks == Scopes \subseteq SUBSET Ranks /\ {} \in Scopes /\ Company \in Scopes
  BY ScopeAssumption DEF Scopes, Ranks, Company

(* What a key may hold. *)
LEMMA KeyTypes == None \in KeyValues /\ SUBSET Ranks \subseteq KeyValues
  BY DEF KeyValues

(* Roles and overrides yield sets of ranks. *)
LEMMA EffectiveRanks ==
  ASSUME CacheTypeOK, NEW m \in Members
  PROVE  /\ RoleScope(m) \in SUBSET Ranks
         /\ \A s \in SUBSET Ranks : Merge(s, OverrideOf(m)) \in SUBSET Ranks
<1>1. \A r \in Roles : grant[r] \in SUBSET Ranks
  BY ScopesAreRanks DEF CacheTypeOK
<1>2. RoleScope(m) \in SUBSET Ranks
  BY <1>1 DEF CacheTypeOK, RoleScope
<1>3. OverrideOf(m) \in Scopes \cup {Deny, None}
  BY DEF OverrideOf, CacheTypeOK, Overrides
<1>4. \A s \in SUBSET Ranks : Merge(s, OverrideOf(m)) \in SUBSET Ranks
  BY <1>3, ScopesAreRanks DEF Merge
<1> QED
  BY <1>2, <1>4

(* A worker without a request owes nothing. *)
LEMMA AtRestRequest == AtRest \in CacheRequests
  BY ScopesAreRanks DEF AtRest, CacheRequests, CacheSteps, Overrides

(* The two requests that invalidate. *)
LEMMA InvalidateRequests ==
  /\ \A m \in Members : InvalidateMember(m) \in CacheRequests
  /\ \A r \in Roles : InvalidateRole(r) \in CacheRequests
  /\ \A ids \in SUBSET Members : [AtRest EXCEPT !.pc = "del", !.ids = ids] \in CacheRequests
  BY AtRestRequest DEF AtRest, CacheRequests, CacheSteps, InvalidateMember, InvalidateRole

(* Where the tables stay as they are, so does what they say. *)
LEMMA Frame ==
  ASSUME UNCHANGED accessTables
  PROVE  /\ \A m : RoleScope(m)' = RoleScope(m) /\ Effective(m)' = Effective(m)
         /\ \A r : Holders(r)' = Holders(r)
         /\ SystemRoleKept => SystemRoleKept'
<1>1. UNCHANGED <<enabled, usable, held, grant, override>>
  BY DEF accessTables
<1>2. \A m : RoleScope(m)' = RoleScope(m)
  BY <1>1 DEF RoleScope
<1>3. \A m : OverrideOf(m)' = OverrideOf(m)
  BY <1>1 DEF OverrideOf
<1>4. \A m : Effective(m)' = Effective(m)
  BY <1>2, <1>3 DEF Effective
<1>5. \A r : Holders(r)' = Holders(r)
  BY <1>1 DEF Holders
<1>6. SystemRoleKept => SystemRoleKept'
  BY <1>1 DEF SystemRoleKept
<1> QED
  BY <1>2, <1>4, <1>5, <1>6

(* A step of w that leaves the tables alone: what is left to show is about w *)
(* and about the keys.                                                       *)
LEMMA StillStep ==
  ASSUME CacheInductive, UNCHANGED <<accessTables, commits>>, NEW w \in Workers, NEW r \in CacheRequests,
         req' = [req EXCEPT ![w] = r],
         cache' \in [Members -> KeyValues],
         late' \in SUBSET Members, cut' \in SUBSET Members,
         FillOK(w)',
         \A m \in Members : KeyOK(m)'
  PROVE  CacheInductive'
<1>1. CacheTypeOK'
  BY DEF CacheInductive, CacheTypeOK, accessTables
<1>2. SystemRoleKept'
  BY Frame DEF CacheInductive
<1>3. ASSUME NEW v \in Workers, v # w
      PROVE  FillOK(v)'
  <2>1. req'[v] = req[v] /\ FillOK(v)
    BY <1>3 DEF CacheInductive, CacheTypeOK
  <2> QED
    BY <2>1, Frame DEF FillOK
<1>4. StaleOnlyByRace'
  BY DEF StaleOnlyByRace, KeyOK, Owed
<1> QED
  BY <1>1, <1>2, <1>3, <1>4 DEF CacheInductive

(* Who owed a DEL still owes it while another request takes a step.          *)
LEMMA StillOwed ==
  ASSUME CacheTypeOK, UNCHANGED accessTables, NEW w \in Workers, NEW r, NEW m \in Members,
         req' = [req EXCEPT ![w] = r], ~At(w, "members"), ~At(w, "del"), Owed(m)
  PROVE  Owed(m)'
<1>1. PICK v \in Workers : \/ At(v, "members") /\ m \in Holders(req[v].role)
                           \/ At(v, "del") /\ m \in req[v].ids
  BY DEF Owed
<1>2. v # w
  BY <1>1 DEF At
<1>3. req'[v] = req[v]
  BY <1>2 DEF CacheTypeOK
<1>4. Holders(req[v].role)' = Holders(req[v].role)
  BY <1>3, Frame
<1> QED
  BY <1>1, <1>3, <1>4 DEF Owed, At

(* A reader's step that leaves Redis alone. *)
LEMMA ReaderStep ==
  ASSUME CacheInductive, UNCHANGED <<accessTables, commits, cache, late, cut>>,
         NEW w \in Workers, NEW r \in CacheRequests, req' = [req EXCEPT ![w] = r],
         ~At(w, "members"), ~At(w, "del"), FillOK(w)'
  PROVE  CacheInductive'
<1>1. CacheTypeOK
  BY DEF CacheInductive
<1>2. ASSUME NEW m \in Members
      PROVE  KeyOK(m)'
  <2>1. KeyOK(m)
    BY KeysOK DEF CacheInductive
  <2>2. Effective(m)' = Effective(m) /\ (Owed(m) => Owed(m)')
    BY <1>1, Frame, StillOwed
  <2> QED
    BY <2>1, <2>2 DEF KeyOK
<1> QED
  BY <1>1, <1>2, StillStep DEF CacheTypeOK

(* A commit touches the memberships of `touched`: what the tables say of the *)
(* others stays, and the request goes on to delete the keys of all of them.  *)
LEMMA CacheCommitStep ==
  ASSUME CacheInductive, NEW w \in Workers, NEW r \in CacheRequests, NEW touched \in SUBSET Members,
         CommitAnd(w, r, touched),
         ~At(w, "members"), ~At(w, "del"),
         enabled' \in SUBSET Members, usable' \in SUBSET Roles,
         held' \in [Members -> SUBSET Roles], grant' \in [Roles -> Scopes],
         override' \in [Members -> Overrides],
         SystemRoleKept',
         ~r.overtaken,
         \/ r.pc = "members" /\ r.role \in Roles
         \/ r.pc = "del",
         \A m \in Members \ touched :
           /\ RoleScope(m)' = RoleScope(m)
           /\ Effective(m)' = Effective(m)
           /\ \A role \in Roles : m \in Holders(role) => m \in Holders(role)',
         \A m \in touched : \/ r.pc = "members" /\ m \in Holders(r.role)'
                            \/ r.pc = "del" /\ m \in r.ids
  PROVE  CacheInductive'
<1>1. CacheTypeOK
  BY DEF CacheInductive
<1>2. req'[w] = r
  BY DEF CommitAnd
<1>3. ASSUME NEW v \in Workers, v # w
      PROVE  /\ req'[v] \in CacheRequests
             /\ \A f \in {"pc", "member", "role", "scope", "old", "new", "ids"} : req'[v][f] = req[v][f]
             /\ req'[v].overtaken = \/ req[v].overtaken
                                    \/ /\ req[v].pc \in {"overrides", "set"}
                                       /\ req[v].member \in touched
  BY <1>1, <1>3 DEF CommitAnd, CacheTypeOK, CacheRequests
<1>4. CacheTypeOK'
  <2>1. req' \in [Workers -> CacheRequests]
    BY <1>2, <1>3 DEF CommitAnd
  <2>2. commits' \in 0 .. MaxCommits
    BY <1>1, BoundAssumption DEF CommitAnd, CacheTypeOK
  <2> QED
    BY <1>1, <2>1, <2>2 DEF CacheTypeOK, CommitAnd
<1>5. ASSUME NEW v \in Workers
      PROVE  FillOK(v)'
  <2>1. CASE v = w
    BY <1>2, <2>1 DEF FillOK
  <2>2. CASE v # w
    <3>1. FillOK(v)
      BY DEF CacheInductive
    <3>2. req[v].pc \in {"overrides", "set"} /\ ~req'[v].overtaken =>
            ~req[v].overtaken /\ req[v].member \in Members \ touched
      BY <1>3, <2>2, <3>1 DEF FillOK
    <3>3. req'[v].pc = req[v].pc /\ req'[v].member = req[v].member /\ req'[v].role = req[v].role
          /\ req'[v].scope = req[v].scope
      BY <1>3, <2>2
    <3>4. req[v].pc \notin {"overrides", "set"} => ~req'[v].overtaken
      BY <1>3, <2>2, <3>1 DEF FillOK
    <3> QED
      BY <3>1, <3>2, <3>3, <3>4 DEF FillOK
  <2> QED
    BY <2>1, <2>2
<1>6. ASSUME NEW m \in Members
      PROVE  KeyOK(m)'
  <2>1. CASE m \in touched
    BY <1>2, <2>1 DEF KeyOK, Owed, At
  <2>2. CASE m \notin touched
    <3>1. ASSUME Owed(m) PROVE Owed(m)'
      <4>1. PICK v \in Workers : \/ At(v, "members") /\ m \in Holders(req[v].role)
                                 \/ At(v, "del") /\ m \in req[v].ids
        BY <3>1 DEF Owed
      <4>2. v # w
        BY <4>1 DEF At
      <4>3. req'[v].pc = req[v].pc /\ req'[v].role = req[v].role /\ req'[v].ids = req[v].ids
        BY <1>3, <4>2
      <4>4. At(v, "members") => req[v].role \in Roles
        BY DEF CacheInductive, FillOK, At
      <4>5. At(v, "members") => req[v].role \in held'[m]
        BY <2>2, <4>1, <4>4 DEF Holders, At
      <4> QED
        BY <4>1, <4>3, <4>5 DEF Owed, At, Holders
    <3>2. KeyOK(m)
      BY KeysOK DEF CacheInductive
    <3> QED
      BY <2>2, <3>1, <3>2 DEF KeyOK, CommitAnd
  <2> QED
    BY <2>1, <2>2
<1>7. StaleOnlyByRace'
  BY <1>6 DEF StaleOnlyByRace, KeyOK, Owed
<1> QED
  BY <1>4, <1>5, <1>7 DEF CacheInductive

-----------------------------------------------------------------------------
(* The steps of a reader                                                     *)

(* Enter, the SELECTs, a hit and the decision leave Redis alone; the second  *)
(* SELECT completes what the first one began unless a commit overtook it.    *)
LEMMA CacheReadStep ==
  ASSUME CacheInductive, NEW w \in Workers, Read(w)
  PROVE  CacheInductive'
<1>1. CacheTypeOK /\ FillOK(w) /\ req[w] \in CacheRequests
  BY DEF CacheInductive, CacheTypeOK
<1>2. ASSUME NEW m \in Members, CacheMiss(w, m)
      PROVE  CacheInductive'
  <2> DEFINE r == [AtRest EXCEPT !.pc = "roles", !.member = m]
  <2>1. r \in CacheRequests
    BY AtRestRequest DEF CacheRequests, CacheSteps
  <2>2. FillOK(w)'
    BY <1>1, <1>2 DEF CacheMiss, FillOK, AtRest, CacheTypeOK
  <2> QED
    BY <1>2, <2>1, <2>2, ReaderStep DEF CacheMiss, At
<1>4. CASE SelectRoles(w)
  <2>1. PICK m \in Members : m = req[w].member
    BY <1>1, <1>4 DEF SelectRoles, FillOK, At
  <2> DEFINE r == [req[w] EXCEPT !.pc = "overrides", !.scope = RoleScope(m)]
  <2>2. RoleScope(m) \in SUBSET Ranks /\ RoleScope(m)' = RoleScope(m)
    BY <1>1, <1>4, EffectiveRanks, Frame DEF SelectRoles
  <2>3. r \in CacheRequests
    BY <1>1, <2>2 DEF CacheRequests, CacheSteps
  <2>4. req' = [req EXCEPT ![w] = r] /\ req'[w] = r
    BY <1>1, <1>4, <2>1 DEF SelectRoles, CacheTypeOK
  <2>5. r.pc = "overrides" /\ r.scope = RoleScope(m) /\ r.member = m
    BY <1>1, <2>1 DEF CacheRequests
  <2> HIDE DEF r
  <2>6. FillOK(w)'
    BY <2>2, <2>4, <2>5 DEF FillOK, RoleScope
  <2> QED
    BY <1>4, <2>3, <2>4, <2>6, ReaderStep DEF SelectRoles, At
<1>5. CASE SelectOverrides(w)
  <2>1. PICK m \in Members : m = req[w].member
    BY <1>1, <1>5 DEF SelectOverrides, FillOK, At
  <2> DEFINE s == Merge(req[w].scope, OverrideOf(m))
             r == [req[w] EXCEPT !.pc = "set", !.scope = s]
  <2>2. s \in SUBSET Ranks /\ (~req[w].overtaken => s = Effective(m))
    BY <1>1, <1>5, <2>1, EffectiveRanks DEF SelectOverrides, At, FillOK, Effective, CacheRequests
  <2>3. r \in CacheRequests
    BY <1>1, <2>2 DEF CacheRequests, CacheSteps
  <2>4. req' = [req EXCEPT ![w] = r] /\ req'[w] = r
    BY <1>1, <1>5, <2>1 DEF SelectOverrides, CacheTypeOK
  <2>5. r.pc = "set" /\ r.scope = s /\ r.member = m /\ r.overtaken = req[w].overtaken
    BY <1>1, <2>1 DEF CacheRequests
  <2>6. Effective(m)' = Effective(m)
    BY <1>5, Frame DEF SelectOverrides
  <2> HIDE DEF r, s
  <2>7. FillOK(w)'
    BY <2>2, <2>4, <2>5, <2>6 DEF FillOK, Effective, RoleScope, OverrideOf
  <2> QED
    BY <1>5, <2>3, <2>4, <2>7, ReaderStep DEF SelectOverrides, At
<1>6. CASE CacheSet(w)
  <2>1. PICK m \in Members : m = req[w].member
    BY <1>1, <1>6 DEF CacheSet, FillOK, At
  <2>2. AtRest.pc = "idle" /\ ~AtRest.overtaken
    BY DEF AtRest
  <2>3. req' = [req EXCEPT ![w] = AtRest] /\ req'[w] = AtRest
    BY <1>1, <1>6 DEF CacheSet, CacheTypeOK
  <2>4. /\ cache' = [cache EXCEPT ![m] = req[w].scope]
        /\ late' = (IF req[w].overtaken THEN late \cup {m} ELSE late \ {m})
        /\ cut' = cut \ {m}
        /\ UNCHANGED <<accessTables, commits>>
    BY <1>6, <2>1 DEF CacheSet
  <2>5. req[w].scope \in SUBSET Ranks /\ req[w].pc = "set"
    BY <1>1, <1>6 DEF CacheSet, At, CacheRequests
  <2>6. /\ cache' \in [Members -> KeyValues]
        /\ late' \in SUBSET Members /\ cut' \in SUBSET Members
    BY <1>1, <2>4, <2>5, KeyTypes DEF CacheTypeOK
  <2>7. FillOK(w)'
    BY <2>2, <2>3 DEF FillOK
  <2>8. ASSUME NEW k \in Members
        PROVE  KeyOK(k)'
    <3>1. KeyOK(k) /\ Effective(k)' = Effective(k)
      BY <2>4, KeysOK, Frame DEF CacheInductive
    <3>2. CASE k = m
      BY <1>1, <2>1, <2>4, <2>5, <3>1, <3>2 DEF KeyOK, FillOK, CacheTypeOK
    <3>3. CASE k # m
      <4>1. Owed(k) => Owed(k)'
        BY <1>1, <2>3, <2>4, <2>5, StillOwed DEF At
      <4>2. cache'[k] = cache[k] /\ (k \in late \cup cut => k \in late' \cup cut')
        BY <1>1, <2>4, <3>3 DEF CacheTypeOK
      <4> QED
        BY <3>1, <4>1, <4>2 DEF KeyOK
    <3> QED
      BY <3>2, <3>3
  <2> QED
    BY <2>3, <2>4, <2>6, <2>7, <2>8, AtRestRequest, StillStep
<1> QED
  BY <1>2, <1>4, <1>5, <1>6 DEF Read

-----------------------------------------------------------------------------
(* The steps of a writer                                                     *)

(* A commit that changes one role touches the memberships that hold it.      *)
LEMMA RoleCommit ==
  ASSUME CacheInductive, NEW w \in Workers, NEW role \in Roles, role # SystemRole, At(w, "idle"),
         UNCHANGED <<enabled, held, override>>,
         usable' \in SUBSET Roles, grant' \in [Roles -> Scopes],
         \A q \in Roles \ {role} : (q \in usable' <=> q \in usable) /\ grant'[q] = grant[q],
         CommitAnd(w, InvalidateRole(role), Holders(role))
  PROVE  CacheInductive'
<1> DEFINE r == InvalidateRole(role)
<1>1. CacheTypeOK /\ SystemRoleKept
  BY DEF CacheInductive
<1>2. r \in CacheRequests /\ r.pc = "members" /\ r.role = role /\ ~r.overtaken
  BY InvalidateRequests DEF InvalidateRole, AtRest
<1>3. Holders(role) \in SUBSET Members /\ \A q : Holders(q)' = Holders(q)
  BY DEF Holders
<1>4. SystemRoleKept'
  BY <1>1, SystemAssumption DEF SystemRoleKept
<1>5. ASSUME NEW m \in Members \ Holders(role)
      PROVE  RoleScope(m)' = RoleScope(m) /\ Effective(m)' = Effective(m)
  <2>1. role \notin held[m] /\ held[m] \subseteq Roles
    BY <1>1 DEF Holders, CacheTypeOK
  <2>2. held[m] \cap usable' = held[m] \cap usable
    BY <2>1
  <2>3. \A q \in held[m] \cap usable : grant'[q] = grant[q]
    BY <2>1
  <2>4. RoleScope(m)' = RoleScope(m)
    BY <2>2, <2>3 DEF RoleScope
  <2> QED
    BY <2>4 DEF Effective, OverrideOf
<1>6. /\ enabled' \in SUBSET Members /\ held' \in [Members -> SUBSET Roles]
      /\ override' \in [Members -> Overrides]
  BY <1>1 DEF CacheTypeOK
<1> HIDE DEF r
<1>7. \A m \in Holders(role) : r.pc = "members" /\ m \in Holders(r.role)'
  BY <1>2, <1>3
<1>8. \A m \in Members, q \in Roles : m \in Holders(q) => m \in Holders(q)'
  BY <1>3
<1>9. ~At(w, "members") /\ ~At(w, "del") /\ CommitAnd(w, r, Holders(role))
  BY DEF At, r
<1> QED
  BY <1>2, <1>3, <1>4, <1>5, <1>6, <1>7, <1>8, <1>9, CacheCommitStep

(* A commit that changes the rows of one membership touches that one.        *)
LEMMA MemberCommit ==
  ASSUME CacheInductive, NEW w \in Workers, NEW k \in Members, ~At(w, "members"), ~At(w, "del"),
         UNCHANGED <<usable, grant>>,
         enabled' \in SUBSET Members, held' \in [Members -> SUBSET Roles],
         override' \in [Members -> Overrides],
         \A m \in Members \ {k} : /\ m \in enabled' <=> m \in enabled
                                  /\ held'[m] = held[m]
                                  /\ override'[m] = override[m],
         CommitAnd(w, InvalidateMember(k), {k})
  PROVE  CacheInductive'
<1> DEFINE r == InvalidateMember(k)
<1>1. CacheTypeOK /\ SystemRoleKept
  BY DEF CacheInductive
<1>2. r \in CacheRequests /\ r.pc = "del" /\ r.ids = {k} /\ ~r.overtaken
  BY InvalidateRequests DEF InvalidateMember, AtRest
<1>3. SystemRoleKept' /\ usable' \in SUBSET Roles /\ grant' \in [Roles -> Scopes]
  BY <1>1 DEF SystemRoleKept, CacheTypeOK
<1>4. ASSUME NEW m \in Members \ {k}
      PROVE  /\ RoleScope(m)' = RoleScope(m)
             /\ Effective(m)' = Effective(m)
             /\ \A role \in Roles : m \in Holders(role) => m \in Holders(role)'
  <2>1. RoleScope(m)' = RoleScope(m)
    BY DEF RoleScope
  <2>2. OverrideOf(m)' = OverrideOf(m)
    BY DEF OverrideOf
  <2> QED
    BY <2>1, <2>2 DEF Effective, Holders
<1>5. CommitAnd(w, r, {k}) /\ {k} \in SUBSET Members
  BY DEF r
<1> HIDE DEF r
<1> QED
  BY <1>2, <1>3, <1>4, <1>5, CacheCommitStep

(* Every step of a handler that changes the tables, and of its invalidation. *)
LEMMA WriteStep ==
  ASSUME CacheInductive, NEW w \in Workers, Write(w)
  PROVE  CacheInductive'
<1>1. CacheTypeOK /\ FillOK(w) /\ req[w] \in CacheRequests
  BY DEF CacheInductive, CacheTypeOK
<1>2. ASSUME NEW role \in Roles, NEW scope \in Scopes, ReplaceRolePermissions(w, role, scope)
      PROVE  CacheInductive'
  BY <1>1, <1>2, RoleCommit DEF ReplaceRolePermissions, CacheTypeOK
<1>3. ASSUME NEW role \in Roles, NEW on \in BOOLEAN, SwitchRole(w, role, on)
      PROVE  CacheInductive'
  <2>1. usable' \in SUBSET Roles /\ \A q \in Roles \ {role} : q \in usable' <=> q \in usable
    BY <1>1, <1>3 DEF SwitchRole, CacheTypeOK
  <2> QED
    BY <1>1, <1>3, <2>1, RoleCommit DEF SwitchRole, CacheTypeOK
<1>4. ASSUME NEW m \in Members, NEW roles \in SUBSET Roles, ReplaceMembershipRoles(w, m, roles)
      PROVE  CacheInductive'
  <2>1. held' \in [Members -> SUBSET Roles] /\ \A k \in Members \ {m} : held'[k] = held[k]
    BY <1>1, <1>4 DEF ReplaceMembershipRoles, CacheTypeOK
  <2> QED
    BY <1>1, <1>4, <2>1, MemberCommit DEF ReplaceMembershipRoles, CacheTypeOK, At
<1>5. ASSUME NEW m \in Members, NEW on \in BOOLEAN, UpdateMembership(w, m, on)
      PROVE  CacheInductive'
  <2>1. enabled' \in SUBSET Members /\ \A k \in Members \ {m} : k \in enabled' <=> k \in enabled
    BY <1>1, <1>5 DEF UpdateMembership, CacheTypeOK
  <2> QED
    BY <1>1, <1>5, <2>1, MemberCommit DEF UpdateMembership, CacheTypeOK, At
<1>6. ASSUME NEW m \in Members, NEW new \in Overrides, OverrideRead(w, m, new)
      PROVE  CacheInductive'
  <2> DEFINE r == [AtRest EXCEPT !.pc = "flush", !.member = m, !.old = override[m], !.new = new]
  <2>1. r \in CacheRequests /\ r.pc = "flush" /\ r.member = m /\ ~r.overtaken
    <3>1. override[m] \in Overrides
      BY <1>1 DEF CacheTypeOK
    <3> QED
      BY <3>1, AtRestRequest DEF CacheRequests, CacheSteps, AtRest
  <2>2. req' = [req EXCEPT ![w] = r] /\ req'[w] = r
    BY <1>1, <1>6 DEF OverrideRead, CacheTypeOK
  <2> HIDE DEF r
  <2>3. FillOK(w)'
    BY <2>1, <2>2 DEF FillOK
  <2> QED
    BY <1>6, <2>1, <2>2, <2>3, ReaderStep DEF OverrideRead, At
<1>7. CASE OverrideFlush(w)
  <2>1. PICK m \in Members : m = req[w].member
    BY <1>1, <1>7 DEF OverrideFlush, FillOK, At
  <2>2. ~At(w, "members") /\ ~At(w, "del") /\ UNCHANGED <<enabled, usable, held, grant>>
    BY <1>7 DEF OverrideFlush, At
  <2>3. CASE override' = [override EXCEPT ![m] = req[w].new]
             /\ CommitAnd(w, InvalidateMember(m), {m})
    <3>1. req[w].new \in Overrides
      BY <1>1 DEF CacheRequests
    <3>2. /\ override' \in [Members -> Overrides]
          /\ \A k \in Members \ {m} : override'[k] = override[k]
      BY <1>1, <2>3, <3>1 DEF CacheTypeOK
    <3>3. enabled' \in SUBSET Members /\ held' \in [Members -> SUBSET Roles]
      BY <1>1, <2>2 DEF CacheTypeOK
    <3> QED
      BY <2>2, <2>3, <3>2, <3>3, MemberCommit
  <2>4. CASE req' = [req EXCEPT ![w] = AtRest] /\ UNCHANGED <<override, cache, commits, late, cut>>
    <3>1. FillOK(w)'
      BY <1>1, <2>4 DEF FillOK, AtRest, CacheTypeOK
    <3> QED
      BY <2>2, <2>4, <3>1, AtRestRequest, ReaderStep DEF accessTables
  <2> QED
    BY <1>7, <2>1, <2>3, <2>4 DEF OverrideFlush
<1>8. CASE ReadMembers(w)
  <2>1. PICK role \in Roles : role = req[w].role
    BY <1>1, <1>8 DEF ReadMembers, FillOK, At
  <2> DEFINE ids == Holders(role)
             r == IF ids = {} THEN AtRest ELSE [AtRest EXCEPT !.pc = "del", !.ids = ids]
  <2>2. ids \in SUBSET Members
    BY DEF Holders
  <2>3. r \in CacheRequests /\ ~r.overtaken /\ r.pc \in {"idle", "del"}
        /\ \A m \in ids : r.pc = "del" /\ m \in r.ids
    <3>1. [AtRest EXCEPT !.pc = "del", !.ids = ids] \in CacheRequests
      BY <2>2, InvalidateRequests
    <3> QED
      BY <3>1, AtRestRequest DEF AtRest
  <2>4. /\ req' = [req EXCEPT ![w] = r] /\ req'[w] = r
        /\ UNCHANGED <<accessTables, cache, commits, late, cut>>
    BY <1>1, <1>8, <2>1 DEF ReadMembers, Invalidated, CacheTypeOK
  <2> HIDE DEF r
  <2>5. FillOK(w)'
    BY <2>3, <2>4 DEF FillOK
  <2>6. ASSUME NEW m \in Members
        PROVE  KeyOK(m)'
    <3>1. KeyOK(m) /\ Effective(m)' = Effective(m)
      BY <2>4, KeysOK, Frame DEF CacheInductive
    <3>2. ASSUME Owed(m) PROVE Owed(m)'
      <4>1. PICK v \in Workers : \/ At(v, "members") /\ m \in Holders(req[v].role)
                                 \/ At(v, "del") /\ m \in req[v].ids
        BY <3>2 DEF Owed
      <4>2. CASE v = w
        BY <1>8, <2>1, <2>3, <2>4, <4>1, <4>2 DEF ReadMembers, At, Owed
      <4>3. CASE v # w
        <5>1. req'[v] = req[v] /\ held' = held
          BY <1>1, <2>4, <4>3 DEF CacheTypeOK, accessTables
        <5> QED
          BY <4>1, <5>1 DEF Owed, At, Holders
      <4> QED
        BY <4>2, <4>3
    <3> QED
      BY <2>4, <3>1, <3>2 DEF KeyOK
  <2>7. CacheTypeOK'
    BY <1>1, <2>3, <2>4 DEF CacheTypeOK, accessTables
  <2> QED
    BY <2>3, <2>4, <2>5, <2>6, <2>7, StillStep DEF CacheTypeOK
<1>9. CASE CacheDel(w)
  <2>1. /\ cache' = [m \in Members |-> IF m \in req[w].ids THEN None ELSE cache[m]]
        /\ late' = late \ req[w].ids /\ cut' = cut \ req[w].ids
        /\ req' = [req EXCEPT ![w] = AtRest] /\ req'[w] = AtRest
        /\ UNCHANGED <<accessTables, commits>>
        /\ req[w].pc = "del"
    BY <1>1, <1>9 DEF CacheDel, CacheTypeOK, At
  <2>2. /\ cache' \in [Members -> KeyValues]
        /\ late' \in SUBSET Members /\ cut' \in SUBSET Members
    BY <1>1, <2>1, KeyTypes DEF CacheTypeOK
  <2>3. FillOK(w)'
    BY <2>1 DEF FillOK, AtRest
  <2>4. ASSUME NEW m \in Members
        PROVE  KeyOK(m)'
    <3>1. KeyOK(m) /\ Effective(m)' = Effective(m)
      BY <2>1, KeysOK, Frame DEF CacheInductive
    <3>2. CASE m \in req[w].ids
      BY <2>1, <3>2 DEF KeyOK
    <3>3. ASSUME m \notin req[w].ids, Owed(m) PROVE Owed(m)'
      <4>1. PICK v \in Workers : \/ At(v, "members") /\ m \in Holders(req[v].role)
                                 \/ At(v, "del") /\ m \in req[v].ids
        BY <3>3 DEF Owed
      <4>2. v # w
        BY <2>1, <3>3, <4>1 DEF At
      <4>3. req'[v] = req[v] /\ held' = held
        BY <1>1, <2>1, <4>2 DEF CacheTypeOK, accessTables
      <4> QED
        BY <4>1, <4>3 DEF Owed, At, Holders
    <3> QED
      BY <2>1, <3>1, <3>2, <3>3 DEF KeyOK
  <2> QED
    BY <2>1, <2>2, <2>3, <2>4, AtRestRequest, StillStep
<1> QED
  BY <1>2, <1>3, <1>4, <1>5, <1>6, <1>7, <1>8, <1>9 DEF Write

-----------------------------------------------------------------------------
(* The environment                                                           *)

(* A request that is cut off before its DEL leaves its keys to `cut`.        *)
LEMMA CutShortStep ==
  ASSUME CacheInductive, NEW w \in Workers, CutShort(w)
  PROVE  CacheInductive'
<1>1. CacheTypeOK /\ FillOK(w)
  BY DEF CacheInductive
<1>2. /\ req' = [req EXCEPT ![w] = AtRest] /\ req'[w] = AtRest
      /\ UNCHANGED <<accessTables, cache, commits, late>>
  BY <1>1 DEF CutShort, CacheTypeOK
<1>3. /\ cut \subseteq cut' /\ cut' \in SUBSET Members
      /\ At(w, "members") => Holders(req[w].role) \subseteq cut'
      /\ At(w, "del") => req[w].ids \subseteq cut'
  <2>1. Holders(req[w].role) \subseteq Members /\ req[w].ids \subseteq Members
    BY <1>1 DEF Holders, CacheTypeOK, CacheRequests
  <2> QED
    BY <1>1, <2>1 DEF CutShort, CacheTypeOK, At
<1>4. FillOK(w)'
  BY <1>2 DEF FillOK, AtRest
<1>5. ASSUME NEW m \in Members
      PROVE  KeyOK(m)'
  <2>1. KeyOK(m) /\ Effective(m)' = Effective(m)
    BY <1>2, KeysOK, Frame DEF CacheInductive
  <2>2. ASSUME Owed(m) PROVE Owed(m)' \/ m \in cut'
    <3>1. PICK v \in Workers : \/ At(v, "members") /\ m \in Holders(req[v].role)
                               \/ At(v, "del") /\ m \in req[v].ids
      BY <2>2 DEF Owed
    <3>2. CASE v = w
      BY <1>3, <3>1, <3>2
    <3>3. CASE v # w
      <4>1. req'[v] = req[v] /\ held' = held
        BY <1>1, <1>2, <3>3 DEF CacheTypeOK, accessTables
      <4> QED
        BY <3>1, <4>1 DEF Owed, At, Holders
    <3> QED
      BY <3>2, <3>3
  <2> QED
    BY <1>2, <1>3, <2>1, <2>2 DEF KeyOK
<1> QED
  BY <1>1, <1>2, <1>3, <1>4, <1>5, AtRestRequest, StillStep DEF CacheTypeOK

(* An expired key is no longer stale. *)
LEMMA ExpireStep ==
  ASSUME CacheInductive, NEW m \in Members, Expire(m)
  PROVE  CacheInductive'
<1>1. CacheTypeOK /\ UNCHANGED <<accessTables, req, commits>>
  BY DEF CacheInductive, Expire
<1>2. CacheTypeOK'
  BY <1>1, KeyTypes DEF CacheTypeOK, Expire, accessTables
<1>3. \A w \in Workers : FillOK(w)'
  BY <1>1, Frame DEF CacheInductive, FillOK
<1>4. ASSUME NEW k \in Members
      PROVE  KeyOK(k)'
  <2>1. KeyOK(k) /\ Effective(k)' = Effective(k)
    BY <1>1, KeysOK, Frame DEF CacheInductive
  <2>2. Owed(k) => Owed(k)'
    BY <1>1 DEF Owed, At, Holders, accessTables
  <2> QED
    BY <1>1, <2>1, <2>2 DEF KeyOK, Expire, CacheTypeOK
<1>5. StaleOnlyByRace'
  BY <1>4 DEF StaleOnlyByRace, KeyOK, Owed
<1> QED
  BY <1>1, <1>2, <1>3, <1>5, Frame DEF CacheInductive

(* A restart leaves no request and no key. *)
LEMMA RestartStep ==
  ASSUME CacheInductive, Restart
  PROVE  CacheInductive'
<1>1. CacheTypeOK
  BY DEF CacheInductive
<1>2. usable' \in SUBSET Roles /\ enabled' \in SUBSET Members
  BY <1>1, SystemAssumption DEF Restart, CacheTypeOK
<1>3. held' \in [Members -> SUBSET Roles]
  BY <1>1, SystemAssumption DEF Restart, CacheTypeOK
<1>4. grant' \in [Roles -> Scopes]
  BY <1>1, ScopesAreRanks DEF Restart, CacheTypeOK
<1>5. CacheTypeOK'
  <2>1. cache' \in [Members -> KeyValues]
    BY KeyTypes DEF Restart
  <2> QED
    BY <1>1, <1>2, <1>3, <1>4, <2>1, AtRestRequest DEF Restart, CacheTypeOK
<1>6. SystemRoleKept'
  BY <1>1, SystemAssumption DEF Restart, CacheTypeOK, SystemRoleKept
<1>7. \A w \in Workers : FillOK(w)'
  BY DEF Restart, FillOK, AtRest
<1>8. StaleOnlyByRace'
  BY DEF Restart, StaleOnlyByRace
<1> QED
  BY <1>5, <1>6, <1>7, <1>8 DEF CacheInductive

(* Every step preserves the invariant. *)
LEMMA CacheInductiveStep == CacheInductive /\ [CacheNext]_cacheVars => CacheInductive'
<1> SUFFICES ASSUME CacheInductive, [CacheNext]_cacheVars PROVE CacheInductive'
  OBVIOUS
<1>1. CASE UNCHANGED cacheVars
  <2>1. CacheTypeOK' /\ SystemRoleKept'
    BY <1>1 DEF CacheInductive, CacheTypeOK, SystemRoleKept, cacheVars
  <2>2. UNCHANGED accessTables
    BY <1>1 DEF cacheVars, accessTables
  <2>3. \A w \in Workers : FillOK(w)'
    BY <1>1, <2>2, Frame DEF CacheInductive, FillOK, cacheVars
  <2>4. StaleOnlyByRace'
    BY <1>1, <2>2, Frame DEF CacheInductive, StaleOnlyByRace, At, cacheVars
  <2> QED
    BY <2>1, <2>3, <2>4 DEF CacheInductive
<1>2. CASE CacheNext
  BY <1>2, CacheReadStep, WriteStep, CutShortStep, ExpireStep, RestartStep DEF CacheNext
<1> QED
  BY <1>1, <1>2

(* Tables in order, and an empty cache. *)
LEMMA CacheInductiveInit == CacheInit => CacheInductive
<1> SUFFICES ASSUME CacheInit PROVE CacheInductive
  OBVIOUS
<1>1. CacheTypeOK
  <2>1. cache \in [Members -> KeyValues]
    BY KeyTypes DEF CacheInit
  <2> QED
    BY <2>1, BoundAssumption, AtRestRequest DEF CacheInit, CacheTypeOK
<1>2. SystemRoleKept
  BY SystemAssumption DEF CacheInit, SystemRoleKept
<1>3. \A w \in Workers : FillOK(w)
  BY DEF CacheInit, FillOK, AtRest
<1> QED
  BY <1>1, <1>2, <1>3 DEF CacheInductive, StaleOnlyByRace, CacheInit

-----------------------------------------------------------------------------

(* Types, protected system role, faithful fills and explained staleness hold *)
(* in every reachable state.                                                 *)
THEOREM CacheInvariant == CacheSpec => []CacheInductive
  BY CacheInductiveInit, CacheInductiveStep, PTL DEF CacheSpec

(* The cache disagrees with PostgreSQL only while a writer still owes a DEL, *)
(* after a fill that a commit overtook, or after a request was cut off.      *)
THEOREM StaleByRace == CacheSpec => []StaleOnlyByRace
<1>1. CacheInductive => StaleOnlyByRace
  BY DEF CacheInductive
<1> QED
  BY <1>1, CacheInvariant, PTL

(* A DENY override in force is not overruled by the cache. *)
THEOREM DenyWins == CacheSpec => []DenyHonoured
<1>1. CacheInductive => DenyHonoured
  <2> SUFFICES ASSUME CacheInductive, NEW m \in Members, m \in enabled, override[m] = Deny,
                      m \notin late \cup cut,
                      ~\E w \in Workers : At(w, "members") \/ At(w, "del")
               PROVE  cache[m] \in {None, {}}
    BY DEF DenyHonoured
  <2>1. Effective(m) = {}
    <3>1. OverrideOf(m) = Deny
      BY DEF OverrideOf
    <3> QED
      BY <3>1, ValuesAssumption DEF Effective, Merge
  <2> QED
    BY <2>1 DEF CacheInductive, StaleOnlyByRace
<1> QED
  BY <1>1, CacheInvariant, PTL
=============================================================================
