------------------------- MODULE CompanyTreeProofs -------------------------
(***************************************************************************)
(* Without an overlap of requests no active company comes to be under an   *)
(* inactive one, for any number of companies and requests. The argument: a *)
(* request that nobody overtook finds at its commit what it read (ReadOK), *)
(* and the subtree it deactivates contains the children of its members.    *)
(***************************************************************************)
EXTENDS CompanyTree, TLAPS

(* A worker without a request. *)
LEMMA IdleRequest == Idle \in Requests
  BY DEF Idle, Requests, Pcs

(* A subtree consists of existing companies, with the children of each. *)
LEMMA SubtreeClosed ==
  ASSUME NEW c
  PROVE  /\ Subtree(c) \subseteq exists
         /\ \A d \in exists : parent[d] \in Subtree(c) => d \in Subtree(c)
<1>1. Subtree(c) \subseteq exists
  BY DEF Subtree
<1>2. ASSUME NEW d \in exists, parent[d] \in Subtree(c)
      PROVE  d \in Subtree(c)
  <2>1. ASSUME NEW S \in SUBSET exists, c \in S, \A e \in exists : parent[e] \in S => e \in S
        PROVE  d \in S
    <3>1. parent[d] \in S
      BY <1>2, <2>1 DEF Subtree
    <3> QED
      BY <2>1, <3>1
  <2> QED
    BY <2>1 DEF Subtree
<1> QED
  BY <1>1, <1>2

(* A read: the tables stay, and what is left to show is about the request.   *)
LEMMA BeginStep ==
  ASSUME HierarchyInductive, NEW w \in Workers, NEW r \in Requests, Begin(w, r), ReadOK(w)'
  PROVE  HierarchyInductive'
<1>1. TypeOK /\ UNCHANGED <<exists, parent, active, raced>> /\ req' = [req EXCEPT ![w] = r]
  BY DEF HierarchyInductive, Begin
<1>2. TypeOK'
  BY <1>1 DEF TypeOK
<1>3. ASSUME NEW v \in Workers, v # w
      PROVE  ReadOK(v)'
  <2>1. ReadOK(v) /\ req'[v] = req[v]
    BY <1>1, <1>3 DEF HierarchyInductive, TypeOK
  <2> QED
    BY <1>1, <2>1 DEF ReadOK
<1>4. InversionsOnlyByOverlap'
  BY <1>1 DEF HierarchyInductive, InversionsOnlyByOverlap, Inverted
<1> QED
  BY <1>2, <1>3, <1>4 DEF HierarchyInductive

(* A commit: the other requests are overtaken, and nothing they still claim  *)
(* depends on more than the rows being there.                                *)
LEMMA CommitStep ==
  ASSUME HierarchyInductive, NEW w \in Workers, Commit(w),
         exists \subseteq exists', exists' \in SUBSET Companies, active' \in SUBSET exists',
         parent' \in [Companies -> exists' \cup {None}], raced' \in SUBSET Companies,
         InversionsOnlyByOverlap'
  PROVE  HierarchyInductive'
<1>1. TypeOK
  BY DEF HierarchyInductive
<1>2. req'[w] = Idle
  BY DEF Commit
<1>3. ASSUME NEW v \in Workers, v # w
      PROVE  /\ req'[v] \in Requests
             /\ req'[v].pc = req[v].pc /\ req'[v].company = req[v].company
             /\ req'[v].parent = req[v].parent /\ req'[v].ids = req[v].ids
             /\ ~req'[v].overtaken => req[v].pc = "idle"
  BY <1>1, <1>3 DEF Commit, TypeOK, Requests
<1>4. req' \in [Workers -> Requests]
  BY <1>2, <1>3, IdleRequest DEF Commit
<1>5. TypeOK'
  BY <1>4 DEF TypeOK
<1>6. ASSUME NEW v \in Workers
      PROVE  ReadOK(v)'
  <2>1. CASE v = w
    BY <1>2, <2>1 DEF ReadOK, Idle
  <2>2. CASE v # w
    <3>1. ReadOK(v)
      BY DEF HierarchyInductive
    <3> QED
      BY <1>3, <2>2, <3>1 DEF ReadOK
  <2> QED
    BY <2>1, <2>2
<1> QED
  BY <1>5, <1>6 DEF HierarchyInductive

(* The reads. *)
LEMMA ReadStep ==
  ASSUME HierarchyInductive, NEW w \in Workers,
         \/ \E root \in exists : Enter(w, root)
         \/ \E p \in exists : CreateRead(w, p)
         \/ \E c, p \in exists : MoveRead(w, c, p)
         \/ \E c \in exists : ActivateRead(w, c) \/ DeactivateRead(w, c)
         \/ CascadeRead(w)
         \/ CutOff(w)
  PROVE  HierarchyInductive'
<1>1. TypeOK /\ ReadOK(w) /\ req[w] \in Requests
  BY DEF HierarchyInductive, TypeOK
<1>2. \A r : Begin(w, r) => req'[w] = r /\ UNCHANGED <<exists, parent, active>>
  BY <1>1 DEF Begin, TypeOK
<1>3. ASSUME NEW root \in exists, Enter(w, root)
      PROVE  HierarchyInductive'
  <2> DEFINE r == [Idle EXCEPT !.pc = "context", !.company = root]
  <2>1. r \in Requests /\ Begin(w, r)
    BY <1>1, <1>3, IdleRequest DEF Enter, Requests, Pcs, TypeOK
  <2>2. r.pc = "context" /\ r.company = root /\ root \in active /\ root \in exists
    BY <1>3 DEF Enter, Idle
  <2> HIDE DEF r
  <2>3. ReadOK(w)'
    BY <1>2, <2>1, <2>2 DEF ReadOK
  <2> QED
    BY <2>1, <2>3, BeginStep
<1>4. ASSUME At(w, "context")
      PROVE  /\ Context(w) \in exists
             /\ ~req[w].overtaken => SeenActive(w) = active
  BY <1>1, <1>4 DEF At, Context, SeenActive, ReadOK
<1>5. ASSUME NEW p \in exists, CreateRead(w, p)
      PROVE  HierarchyInductive'
  <2> DEFINE r == [req[w] EXCEPT !.pc = "create", !.company = None, !.parent = p]
  <2>1. At(w, "context") /\ p \in SeenActive(w) /\ Begin(w, r)
    BY <1>5 DEF CreateRead
  <2>2. r \in Requests
    BY <1>1 DEF Requests, Pcs, TypeOK
  <2>3. r.pc = "create" /\ r.parent = p /\ r.overtaken = req[w].overtaken
    BY <1>1 DEF Requests
  <2> HIDE DEF r
  <2>4. ReadOK(w)'
    BY <1>2, <1>4, <2>1, <2>3 DEF ReadOK
  <2> QED
    BY <2>1, <2>2, <2>4, BeginStep
<1>6. ASSUME NEW c \in exists, NEW p \in exists, MoveRead(w, c, p)
      PROVE  HierarchyInductive'
  <2> DEFINE r == [req[w] EXCEPT !.pc = "move", !.company = c, !.parent = p]
  <2>1. At(w, "context") /\ (c \in active => p \in SeenActive(w)) /\ Begin(w, r)
    BY <1>6 DEF MoveRead
  <2>2. r \in Requests
    BY <1>1 DEF Requests, Pcs, TypeOK
  <2>3. r.pc = "move" /\ r.company = c /\ r.parent = p /\ r.overtaken = req[w].overtaken
    BY <1>1 DEF Requests
  <2> HIDE DEF r
  <2>4. ReadOK(w)'
    BY <1>2, <1>4, <2>1, <2>3 DEF ReadOK
  <2> QED
    BY <2>1, <2>2, <2>4, BeginStep
<1>7. ASSUME NEW c \in exists, ActivateRead(w, c)
      PROVE  HierarchyInductive'
  <2> DEFINE r == [req[w] EXCEPT !.pc = "on", !.company = c]
  <2>1. At(w, "context") /\ parent[c] \in SeenActive(w) /\ Begin(w, r)
    BY <1>7 DEF ActivateRead
  <2>2. r \in Requests
    BY <1>1 DEF Requests, Pcs, TypeOK
  <2>3. r.pc = "on" /\ r.company = c /\ r.overtaken = req[w].overtaken
    BY <1>1 DEF Requests
  <2> HIDE DEF r
  <2>4. ReadOK(w)'
    BY <1>2, <1>4, <2>1, <2>3 DEF ReadOK
  <2> QED
    BY <2>1, <2>2, <2>4, BeginStep
<1>8. ASSUME NEW c \in exists, DeactivateRead(w, c)
      PROVE  HierarchyInductive'
  <2> DEFINE ids == Subtree(Context(w)) \ SeenActive(w)
             r == [req[w] EXCEPT !.pc = "cascade", !.company = c, !.ids = ids]
  <2>1. ids \subseteq exists /\ ids \cap active = {}
    BY SubtreeClosed DEF SeenActive
  <2>2. At(w, "context") /\ Begin(w, r)
    BY <1>8 DEF DeactivateRead
  <2> HIDE DEF ids
  <2>3. r \in Requests
    BY <1>1, <2>1 DEF Requests, Pcs, TypeOK
  <2>4. r.pc = "cascade" /\ r.company = c /\ r.ids = ids
    BY <1>1 DEF Requests
  <2> HIDE DEF r
  <2>5. ReadOK(w)'
    BY <1>2, <2>1, <2>2, <2>4 DEF ReadOK
  <2> QED
    BY <2>2, <2>3, <2>5, BeginStep
<1>9. CASE CascadeRead(w)
  <2> DEFINE tree == Subtree(req[w].company)
             ids == tree \ req[w].ids
             r == [req[w] EXCEPT !.pc = "off", !.ids = ids]
  <2>1. /\ req[w].pc = "cascade" /\ req[w].company \in exists
        /\ ~req[w].overtaken => req[w].ids \cap active = {}
    BY <1>1, <1>9 DEF CascadeRead, At, ReadOK
  <2>2. tree \subseteq exists /\ \A d \in exists : parent[d] \in tree => d \in tree
    BY SubtreeClosed
  <2> HIDE DEF tree
  <2>3. ids \subseteq exists
        /\ (~req[w].overtaken => \A c \in active : parent[c] \in ids => c \in ids)
    BY <1>1, <2>1, <2>2 DEF TypeOK
  <2>4. Begin(w, r)
    BY <1>9 DEF CascadeRead, Cascade, tree
  <2> HIDE DEF ids
  <2>5. r \in Requests
    BY <1>1, <2>3 DEF Requests, Pcs, TypeOK
  <2>6. r.pc = "off" /\ r.company = req[w].company /\ r.ids = ids /\ r.overtaken = req[w].overtaken
    BY <1>1 DEF Requests
  <2> HIDE DEF r
  <2>7. ReadOK(w)'
    BY <1>2, <2>1, <2>3, <2>4, <2>6 DEF ReadOK
  <2> QED
    BY <2>4, <2>5, <2>7, BeginStep
<1>10. CASE CutOff(w)
  <2>1. ReadOK(w)'
    BY <1>2, <1>10 DEF CutOff, ReadOK, Idle
  <2> QED
    BY <1>10, <2>1, IdleRequest, BeginStep DEF CutOff
<1> QED
  BY <1>3, <1>5, <1>6, <1>7, <1>8, <1>9, <1>10

(* The five commits. *)
LEMMA WriteStep ==
  ASSUME HierarchyInductive, NEW w \in Workers,
         \/ \E c \in Companies : CreateCommit(w, c) \/ CreateRoot(w, c)
         \/ MoveCommit(w)
         \/ ActivateCommit(w)
         \/ CascadeCommit(w)
  PROVE  HierarchyInductive'
<1>1. TypeOK /\ ReadOK(w) /\ req[w] \in Requests /\ InversionsOnlyByOverlap
  BY DEF HierarchyInductive, TypeOK
<1>2. ASSUME NEW c \in Companies, CreateCommit(w, c)
      PROVE  HierarchyInductive'
  <2>1. req[w].parent \in exists /\ (~req[w].overtaken => req[w].parent \in active)
    BY <1>1, <1>2 DEF CreateCommit, At, ReadOK
  <2>2. /\ exists' = exists \cup {c} /\ parent' = [parent EXCEPT ![c] = req[w].parent]
        /\ active' = active \cup {c} /\ c \notin exists
        /\ raced' = (IF req[w].overtaken THEN raced \cup {c} ELSE raced)
        /\ Commit(w)
    BY <1>2 DEF CreateCommit
  <2>3. InversionsOnlyByOverlap'
    BY <1>1, <2>1, <2>2 DEF InversionsOnlyByOverlap, Inverted, TypeOK
  <2>4. /\ exists' \in SUBSET Companies /\ active' \in SUBSET exists'
        /\ parent' \in [Companies -> exists' \cup {None}] /\ raced' \in SUBSET Companies
    BY <1>1, <2>1, <2>2 DEF TypeOK
  <2> QED
    BY <2>2, <2>3, <2>4, CommitStep
<1>3. ASSUME NEW c \in Companies, CreateRoot(w, c)
      PROVE  HierarchyInductive'
  <2>1. InversionsOnlyByOverlap'
    BY <1>1, <1>3 DEF CreateRoot, InversionsOnlyByOverlap, Inverted, TypeOK
  <2>2. /\ exists' \in SUBSET Companies /\ active' \in SUBSET exists'
        /\ parent' \in [Companies -> exists' \cup {None}] /\ raced' \in SUBSET Companies
    BY <1>1, <1>3 DEF CreateRoot, TypeOK
  <2> QED
    BY <1>3, <2>1, <2>2, CommitStep DEF CreateRoot
<1>4. CASE MoveCommit(w)
  <2>1. /\ req[w].company \in exists /\ req[w].parent \in exists
        /\ ~req[w].overtaken => (req[w].company \in active => req[w].parent \in active)
    BY <1>1, <1>4 DEF MoveCommit, At, ReadOK
  <2>2. /\ parent' = [parent EXCEPT ![req[w].company] = req[w].parent]
        /\ raced' = (IF req[w].overtaken THEN raced \cup {req[w].company} ELSE raced)
        /\ Commit(w) /\ UNCHANGED <<exists, active>>
    BY <1>4 DEF MoveCommit
  <2>3. InversionsOnlyByOverlap'
    BY <1>1, <2>1, <2>2 DEF InversionsOnlyByOverlap, Inverted, TypeOK
  <2>4. parent' \in [Companies -> exists' \cup {None}] /\ raced' \in SUBSET Companies
    BY <1>1, <2>1, <2>2 DEF TypeOK
  <2> QED
    BY <1>1, <2>2, <2>3, <2>4, CommitStep DEF TypeOK
<1>5. CASE ActivateCommit(w)
  <2>1. req[w].company \in exists /\ (~req[w].overtaken => parent[req[w].company] \in active)
    BY <1>1, <1>5 DEF ActivateCommit, At, ReadOK
  <2>2. /\ active' = active \cup {req[w].company}
        /\ raced' = (IF req[w].overtaken THEN raced \cup {req[w].company}
                                         ELSE raced \ {req[w].company})
        /\ Commit(w) /\ UNCHANGED <<exists, parent>>
    BY <1>5 DEF ActivateCommit
  <2>3. InversionsOnlyByOverlap'
    BY <1>1, <2>1, <2>2 DEF InversionsOnlyByOverlap, Inverted, TypeOK
  <2>4. active' \in SUBSET exists' /\ raced' \in SUBSET Companies
    BY <1>1, <2>1, <2>2 DEF TypeOK
  <2> QED
    BY <1>1, <2>2, <2>3, <2>4, CommitStep DEF TypeOK
<1>6. CASE CascadeCommit(w)
  <2>1. /\ req[w].ids \subseteq exists
        /\ ~req[w].overtaken => \A c \in active : parent[c] \in req[w].ids => c \in req[w].ids
    BY <1>1, <1>6 DEF CascadeCommit, At, ReadOK
  <2>2. /\ active' = active \ req[w].ids
        /\ raced' = (IF req[w].overtaken THEN raced \cup req[w].ids ELSE raced \ req[w].ids)
        /\ Commit(w) /\ UNCHANGED <<exists, parent>>
    BY <1>6 DEF CascadeCommit
  <2>3. InversionsOnlyByOverlap'
    BY <1>1, <2>1, <2>2 DEF InversionsOnlyByOverlap, Inverted, TypeOK
  <2>4. active' \in SUBSET exists' /\ raced' \in SUBSET Companies
    BY <1>1, <2>1, <2>2 DEF TypeOK
  <2> QED
    BY <1>1, <2>2, <2>3, <2>4, CommitStep DEF TypeOK
<1> QED
  BY <1>2, <1>3, <1>4, <1>5, <1>6

(* The installation leaves one company and no request.                       *)
LEMMA InitHierarchy == Init => HierarchyInductive
<1> SUFFICES ASSUME Init PROVE HierarchyInductive
  OBVIOUS
<1>1. TypeOK
  BY RootAssumption, IdleRequest DEF Init, TypeOK
<1>2. \A w \in Workers : ReadOK(w)
  BY DEF Init, ReadOK, Idle
<1>3. InversionsOnlyByOverlap
  BY RootAssumption DEF Init, InversionsOnlyByOverlap, Inverted
<1> QED
  BY <1>1, <1>2, <1>3 DEF HierarchyInductive

(* The inductive invariant holds in every reachable state. *)
THEOREM HierarchyInvariant == Spec => []HierarchyInductive
<1>1. Init => HierarchyInductive
  BY InitHierarchy
<1>2. HierarchyInductive /\ [Next]_vars => HierarchyInductive'
  <2>1. HierarchyInductive /\ Next => HierarchyInductive'
    BY ReadStep, WriteStep DEF Next, Step
  <2>2. HierarchyInductive /\ UNCHANGED vars => HierarchyInductive'
    BY DEF HierarchyInductive, TypeOK, ReadOK, InversionsOnlyByOverlap, Inverted, vars
  <2> QED
    BY <2>1, <2>2
<1> QED
  BY <1>1, <1>2, PTL DEF Spec

(* Every reachable state has the declared types. *)
THEOREM HierarchyTypes == Spec => []TypeOK
<1>1. HierarchyInductive => TypeOK
  BY DEF HierarchyInductive
<1> QED
  BY <1>1, HierarchyInvariant, PTL

(* An active company is under an inactive one only where a request that      *)
(* another one overtook wrote one of the two.                                *)
THEOREM InversionNeedsOverlap == Spec => []InversionsOnlyByOverlap
<1>1. HierarchyInductive => InversionsOnlyByOverlap
  BY DEF HierarchyInductive
<1> QED
  BY <1>1, HierarchyInvariant, PTL

-----------------------------------------------------------------------------
(* Trees and cycles, as facts about any table of parents                     *)

(* The least set that contains c and the children of its members.            *)
Below(table, up, c) ==
  {d \in table : \A S \in SUBSET table :
                   c \in S /\ (\A e \in table : up[e] \in S => e \in S) => d \in S}

(* c is below itself. *)
Cyclic(table, up, c) == up[c] \in Below(table, up, c)

(* The subtree of a company is the one of the table, now and after a step.   *)
LEMMA SubtreeBelow ==
  /\ \A c : Subtree(c) = Below(exists, parent, c)
  /\ \A c : Subtree(c)' = Below(exists', parent', c)
BY DEF Subtree, Below

(* So are the cycles: None is below nothing.                                 *)
LEMMA CycleBelow ==
  ASSUME TypeOK
  PROVE  \A c : OnCycle(c) <=> Cyclic(exists, parent, c)
BY SubtreeBelow, NoneAssumption DEF OnCycle, Cyclic, TypeOK, Below

(* The same after a step.                                                    *)
LEMMA CycleBelowNext ==
  ASSUME TypeOK'
  PROVE  \A c : OnCycle(c)' <=> Cyclic(exists', parent', c)
BY SubtreeBelow, NoneAssumption DEF OnCycle, Cyclic, TypeOK, Below

(* What Below says: it contains the top and is closed, and it is the least.  *)
LEMMA BelowLeast ==
  ASSUME NEW table, NEW up, NEW c \in table
  PROVE  /\ Below(table, up, c) \subseteq table
         /\ c \in Below(table, up, c)
         /\ \A d \in table : up[d] \in Below(table, up, c) => d \in Below(table, up, c)
         /\ \A S : c \in S /\ (\A d \in table : up[d] \in S => d \in S) => Below(table, up, c) \subseteq S
<1>1. Below(table, up, c) \subseteq table /\ c \in Below(table, up, c)
  BY DEF Below
<1>2. ASSUME NEW d \in table, up[d] \in Below(table, up, c)
      PROVE  d \in Below(table, up, c)
  <2>1. ASSUME NEW S \in SUBSET table, c \in S, \A e \in table : up[e] \in S => e \in S
        PROVE  d \in S
    BY <1>2, <2>1 DEF Below
  <2> QED
    BY <1>2, <2>1 DEF Below
<1>3. ASSUME NEW S, c \in S, \A d \in table : up[d] \in S => d \in S
      PROVE  Below(table, up, c) \subseteq S
  <2>1. /\ S \cap table \in SUBSET table /\ c \in S \cap table
        /\ \A e \in table : up[e] \in S \cap table => e \in S \cap table
    BY <1>3
  <2> QED
    BY <2>1 DEF Below
<1> QED
  BY <1>1, <1>2, <1>3

(* What is below a company, but for the company, has its parent there.       *)
LEMMA BelowParent ==
  ASSUME NEW table, NEW up, NEW c \in table, NEW d \in Below(table, up, c), d # c
  PROVE  up[d] \in Below(table, up, c)
<1> DEFINE B == Below(table, up, c)
           S == {e \in B : e = c \/ up[e] \in B}
<1>1. c \in S /\ \A e \in table : up[e] \in S => e \in S
  BY BelowLeast
<1>2. B \subseteq S
  <2> HIDE DEF S
  <2> QED
    BY <1>1, BelowLeast
<1> QED
  BY <1>2

(* Subtrees are nested.                                                      *)
LEMMA BelowNested ==
  ASSUME NEW table, NEW up, NEW c \in table, NEW d \in Below(table, up, c)
  PROVE  Below(table, up, d) \subseteq Below(table, up, c)
<1>1. d \in table
  BY BelowLeast
<1>2. \A e \in table : up[e] \in Below(table, up, c) => e \in Below(table, up, c)
  BY BelowLeast
<1> QED
  BY <1>1, <1>2, BelowLeast

(* Whoever has a company on a cycle below it is on that cycle.               *)
LEMMA AboveCycle ==
  ASSUME NEW table, NEW up, NEW c \in table, NEW x \in Below(table, up, c), Cyclic(table, up, x)
  PROVE  c \in Below(table, up, x) /\ Cyclic(table, up, c)
<1> DEFINE B == Below(table, up, c)
           X == Below(table, up, x)
<1>1. x \in table /\ X \subseteq B
  BY BelowLeast, BelowNested
<1>2. \A e \in X : up[e] \in X
  BY <1>1, BelowParent DEF Cyclic
<1>3. c \in X
  <2> SUFFICES ASSUME c \notin X PROVE FALSE
    OBVIOUS
  <2> DEFINE S == B \ X
  <2>1. c \in S /\ \A e \in table : up[e] \in S => e \in S
    BY <1>2, BelowLeast
  <2>2. x \notin S
    BY <1>1, BelowLeast
  <2> HIDE DEF S
  <2>3. B \subseteq S
    BY <2>1, BelowLeast
  <2> QED
    BY <2>2, <2>3
<1> QED
  BY <1>1, <1>2, <1>3 DEF Cyclic

(* A company that nobody has as parent is on no cycle.                       *)
LEMMA ChildlessOffCycle ==
  ASSUME NEW table, NEW up, NEW c \in table, \A d \in table : up[d] # c
  PROVE  ~Cyclic(table, up, c)
<1> DEFINE S == {c}
<1>1. c \in S /\ \A d \in table : up[d] \in S => d \in S
  OBVIOUS
<1>2. up[c] \notin S
  OBVIOUS
<1> HIDE DEF S
<1>3. Below(table, up, c) \subseteq S
  BY <1>1, BelowLeast
<1> QED
  BY <1>2, <1>3 DEF Cyclic

(* A cycle does not see a change outside of it: where one company c gets     *)
(* another parent, or comes in, and T is a set with c that is closed before  *)
(* and after, the rest of the table keeps its subtrees, up to T.             *)
LEMMA OutsideGraft ==
  ASSUME NEW table, NEW up, NEW new, NEW after, NEW c, NEW T,
         table \subseteq new, new \subseteq table \cup {c},
         \A d \in table \ {c} : after[d] = up[d],
         c \in T, \A d \in new \ {c} : after[d] \in T => d \in T,
         NEW x \in table \ T
  PROVE  /\ \A d \in table \ T : d \in Below(new, after, x) <=> d \in Below(table, up, x)
         /\ Cyclic(new, after, x) <=> Cyclic(table, up, x)
<1> DEFINE old == Below(table, up, x)
           now == Below(new, after, x)
<1>1. now \subseteq old \cup T
  <2> DEFINE S == old \cup T
  <2>1. x \in S /\ \A d \in new : after[d] \in S => d \in S
    BY BelowLeast
  <2> HIDE DEF S
  <2>2. now \subseteq S
    BY <2>1, BelowLeast
  <2> QED
    BY <2>2 DEF S
<1>2. old \subseteq now \cup T
  <2> DEFINE S == now \cup T
  <2>1. x \in S /\ \A d \in table : up[d] \in S => d \in S
    BY BelowLeast
  <2> HIDE DEF S
  <2>2. old \subseteq S
    BY <2>1, BelowLeast
  <2> QED
    BY <2>2 DEF S
<1>3. x # c /\ after[x] = up[x] /\ up[x] \notin T
  OBVIOUS
<1>4. old \subseteq table /\ now \subseteq new
  BY BelowLeast
<1> QED
  BY <1>1, <1>2, <1>3, <1>4 DEF Cyclic

-----------------------------------------------------------------------------
(* Cycles                                                                    *)

(* Below a company that is on no cycle nothing is on one.                    *)
LEMMA OffCycleBelow ==
  ASSUME TypeOK, NEW c \in exists, ~OnCycle(c), NEW d \in Subtree(c)
  PROVE  ~OnCycle(d)
BY SubtreeBelow, CycleBelow, AboveCycle

(* The witness of a cycle is on it.                                          *)
LEMMA WitnessOnCycle ==
  ASSUME TypeOK, NEW c \in exists, OnCycle(c), NEW d \in exists, c \in Subtree(d)
  PROVE  OnCycle(d)
BY SubtreeBelow, CycleBelow, AboveCycle

(* A read: the tables stay, and so do the cycles.                            *)
LEMMA CyclesBegin ==
  ASSUME CyclesInductive, NEW w \in Workers, NEW r, Begin(w, r), OffCycles(w)'
  PROVE  CyclesOnlyByOverlap' /\ \A v \in Workers : OffCycles(v)'
<1>1. /\ TypeOK /\ UNCHANGED <<exists, parent, raced>>
      /\ \A v \in Workers \ {w} : req'[v] = req[v]
  BY DEF CyclesInductive, HierarchyInductive, Begin, TypeOK
<1>2. \A c : Subtree(c)' = Subtree(c) /\ OnCycle(c)' = OnCycle(c)
  BY <1>1 DEF Subtree, OnCycle
<1>3. CyclesOnlyByOverlap'
  BY <1>1, <1>2 DEF CyclesInductive, CyclesOnlyByOverlap
<1>4. ASSUME NEW v \in Workers \ {w}
      PROVE  OffCycles(v)'
  BY <1>1, <1>2 DEF CyclesInductive, OffCycles
<1> QED
  BY <1>3, <1>4

(* After a commit every other request is overtaken.                          *)
LEMMA CyclesCommit ==
  ASSUME TypeOK, NEW w \in Workers, Commit(w)
  PROVE  \A v \in Workers : OffCycles(v)'
<1>1. req'[w] = Idle
  BY DEF Commit
<1>2. ASSUME NEW v \in Workers \ {w}
      PROVE  req'[v].pc = req[v].pc /\ (~req'[v].overtaken => req[v].pc = "idle")
  BY DEF Commit, TypeOK, Requests
<1> QED
  BY <1>1, <1>2 DEF OffCycles, Idle

(* The reads. A request only finds a company through the tree it works  *)
(* in, whose query has ended.                                                *)
LEMMA CyclesReadStep ==
  ASSUME CyclesInductive, NEW w \in Workers,
         \/ \E root \in exists : Enter(w, root)
         \/ \E p \in exists : CreateRead(w, p)
         \/ \E c, p \in exists : MoveRead(w, c, p)
         \/ \E c \in exists : ActivateRead(w, c) \/ DeactivateRead(w, c)
         \/ CascadeRead(w)
         \/ CutOff(w)
  PROVE  CyclesOnlyByOverlap' /\ \A v \in Workers : OffCycles(v)'
<1>1. TypeOK /\ ReadOK(w) /\ req[w] \in Requests
  BY DEF CyclesInductive, HierarchyInductive, TypeOK
<1>2. ASSUME NEW r, Begin(w, r)
      PROVE  req'[w] = r /\ \A c : Subtree(c)' = Subtree(c) /\ OnCycle(c)' = OnCycle(c)
  BY <1>1, <1>2 DEF Begin, TypeOK, Subtree, OnCycle
<1>3. ASSUME At(w, "context"), NEW c \in exists, InTree(w, c)
      PROVE  ~OnCycle(c)
  <2>1. Context(w) \in exists
    BY <1>1, <1>3 DEF At, Context, ReadOK
  <2> QED
    BY <1>1, <1>3, <2>1, OffCycleBelow DEF InTree, Terminates
<1>4. ASSUME NEW root \in exists, Enter(w, root)
      PROVE  \E r : Begin(w, r) /\ r.pc = "context"
  <2> DEFINE r == [Idle EXCEPT !.pc = "context", !.company = root]
  <2>1. Begin(w, r)
    BY <1>4 DEF Enter
  <2>2. r.pc = "context"
    BY DEF Idle
  <2> QED
    BY <2>1, <2>2
<1>5. ASSUME NEW p \in exists, CreateRead(w, p)
      PROVE  \E r : Begin(w, r) /\ r.pc = "create"
  <2> DEFINE r == [req[w] EXCEPT !.pc = "create", !.company = None, !.parent = p]
  <2>1. Begin(w, r)
    BY <1>5 DEF CreateRead
  <2>2. r.pc = "create"
    BY <1>1 DEF Requests
  <2> QED
    BY <2>1, <2>2
<1>6. ASSUME NEW c \in exists, NEW p \in exists, MoveRead(w, c, p)
      PROVE  \E r : /\ Begin(w, r) /\ r.pc = "move" /\ r.company = c /\ r.parent = p
                    /\ ~OnCycle(c) /\ p \notin Subtree(c)
  <2> DEFINE r == [req[w] EXCEPT !.pc = "move", !.company = c, !.parent = p]
  <2>1. Begin(w, r) /\ ~OnCycle(c) /\ p \notin Subtree(c)
    BY <1>3, <1>6 DEF MoveRead, WouldCycle
  <2>2. r.pc = "move" /\ r.company = c /\ r.parent = p
    BY <1>1 DEF Requests
  <2> QED
    BY <2>1, <2>2
<1>7. ASSUME NEW c \in exists, ActivateRead(w, c)
      PROVE  \E r : Begin(w, r) /\ r.pc = "on" /\ r.company = c /\ ~OnCycle(c)
  <2> DEFINE r == [req[w] EXCEPT !.pc = "on", !.company = c]
  <2>1. Begin(w, r) /\ ~OnCycle(c)
    BY <1>3, <1>7 DEF ActivateRead
  <2>2. r.pc = "on" /\ r.company = c
    BY <1>1 DEF Requests
  <2> QED
    BY <2>1, <2>2
<1>8. ASSUME NEW c \in exists, DeactivateRead(w, c)
      PROVE  \E r : Begin(w, r) /\ r.pc = "cascade"
  <2> DEFINE r == [req[w] EXCEPT !.pc = "cascade", !.company = c,
                                 !.ids = Subtree(Context(w)) \ SeenActive(w)]
  <2>1. Begin(w, r)
    BY <1>8 DEF DeactivateRead
  <2>2. r.pc = "cascade"
    BY <1>1 DEF Requests
  <2> QED
    BY <2>1, <2>2
<1>9. CASE CascadeRead(w)
  <2> DEFINE tree == Subtree(req[w].company)
             r == [req[w] EXCEPT !.pc = "off", !.ids = tree \ req[w].ids]
  <2>1. req[w].company \in exists /\ ~OnCycle(req[w].company)
    BY <1>1, <1>9 DEF CascadeRead, At, ReadOK, Terminates
  <2>2. \A c \in tree : ~OnCycle(c)
    BY <1>1, <2>1, OffCycleBelow
  <2>3. Begin(w, r)
    BY <1>9 DEF CascadeRead, Cascade
  <2>4. r.pc = "off" /\ r.ids \subseteq tree
    BY <1>1 DEF Requests
  <2> HIDE DEF r, tree
  <2>5. \A c \in req'[w].ids : ~OnCycle(c)'
    BY <1>2, <2>2, <2>3, <2>4
  <2>6. OffCycles(w)'
    BY <1>2, <2>3, <2>4, <2>5 DEF OffCycles
  <2> QED
    BY <2>3, <2>6, CyclesBegin
<1>10. CASE CutOff(w)
  BY <1>2, <1>10, CyclesBegin DEF CutOff, OffCycles, Idle
<1>11. ASSUME NEW r, Begin(w, r), r.pc \in {"context", "create", "move", "on", "cascade"},
              r.pc = "move" => r.parent \notin Subtree(r.company),
              r.pc \in {"move", "on"} => ~OnCycle(r.company)
       PROVE  CyclesOnlyByOverlap' /\ \A v \in Workers : OffCycles(v)'
  BY <1>2, <1>11, CyclesBegin DEF OffCycles
<1> QED
  BY <1>4, <1>5, <1>6, <1>7, <1>8, <1>9, <1>10, <1>11

(* A row c that comes in or gets another parent: outside of T, a set that    *)
(* holds what is below c, every cycle keeps its witness.                     *)
LEMMA CyclesGraft ==
  ASSUME TypeOK, TypeOK', CyclesOnlyByOverlap,
         NEW c, exists \subseteq exists', exists' \subseteq exists \cup {c}, raced \subseteq raced',
         \A d \in exists \ {c} : parent'[d] = parent[d],
         NEW T, c \in T, \A d \in exists' \ {c} : parent'[d] \in T => d \in T,
         NEW x \in exists \ T
  PROVE  /\ OnCycle(x)' <=> OnCycle(x)
         /\ OnCycle(x)' => \E d \in raced' : d \in Subtree(x)' /\ x \in Subtree(d)'
<1>1. OnCycle(x)' <=> OnCycle(x)
  BY OutsideGraft, CycleBelow, CycleBelowNext
<1>2. ASSUME OnCycle(x)
      PROVE  \E d \in raced' : d \in Subtree(x)' /\ x \in Subtree(d)'
  <2>1. PICK d \in raced : d \in Subtree(x) /\ x \in Subtree(d)
    BY <1>2 DEF CyclesOnlyByOverlap
  <2>2. d \in exists
    BY <2>1, SubtreeClosed
  <2>3. d \notin T
    <3>1. SUFFICES ASSUME d \in T PROVE FALSE
      OBVIOUS
    <3>2. \A e \in exists : parent[e] \in T => e \in T
      OBVIOUS
    <3>3. Below(exists, parent, d) \subseteq T
      BY <2>2, <3>1, <3>2, BelowLeast
    <3> QED
      BY <2>1, <3>3, SubtreeBelow
  <2>4. /\ d \in Below(exists', parent', x) <=> d \in Below(exists, parent, x)
        /\ x \in Below(exists', parent', d) <=> x \in Below(exists, parent, d)
    BY <2>2, <2>3, OutsideGraft
  <2> QED
    BY <2>1, <2>4, SubtreeBelow
<1> QED
  BY <1>1, <1>2

(* A new company is on no cycle, and takes none away.                        *)
LEMMA CyclesCreate ==
  ASSUME TypeOK, TypeOK', CyclesOnlyByOverlap, NEW c \in Companies \ exists,
         NEW p \in exists \cup {None}, exists' = exists \cup {c},
         parent' = [parent EXCEPT ![c] = p], raced \subseteq raced'
  PROVE  CyclesOnlyByOverlap' /\ \A x \in exists : OnCycle(x)' <=> OnCycle(x)
<1>1. /\ \A d \in exists \ {c} : parent'[d] = parent[d]
      /\ parent'[c] = p
  BY DEF TypeOK
<1>2. \A d \in exists' : parent'[d] # c
  BY <1>1, NoneAssumption DEF TypeOK
<1>3. ~OnCycle(c)'
  BY <1>2, ChildlessOffCycle, CycleBelowNext
<1>4. ASSUME NEW x \in exists
      PROVE  /\ OnCycle(x)' <=> OnCycle(x)
             /\ OnCycle(x)' => \E d \in raced' : d \in Subtree(x)' /\ x \in Subtree(d)'
  <2>1. x \in exists \ {c} /\ c \in {c} /\ \A d \in exists' \ {c} : parent'[d] \in {c} => d \in {c}
    BY <1>2
  <2> QED
    BY <1>1, <2>1, CyclesGraft
<1> QED
  BY <1>3, <1>4 DEF CyclesOnlyByOverlap

(* A move makes a cycle only when its request was overtaken, and so does it  *)
(* when it breaks one.                                                       *)
LEMMA CyclesMove ==
  ASSUME CyclesInductive, TypeOK', NEW w \in Workers, MoveCommit(w)
  PROVE  /\ CyclesOnlyByOverlap'
         /\ \A x \in exists : OnCycle(x) /\ ~OnCycle(x)' => req[w].overtaken
<1>1. TypeOK /\ ReadOK(w) /\ OffCycles(w) /\ CyclesOnlyByOverlap
  BY DEF CyclesInductive, HierarchyInductive
<1>2. PICK c \in exists, p \in exists : c = req[w].company /\ p = req[w].parent
  BY <1>1 DEF MoveCommit, At, ReadOK
<1>3. /\ parent'[c] = p /\ \A d \in exists \ {c} : parent'[d] = parent[d]
      /\ exists' = exists /\ raced \subseteq raced'
      /\ req[w].overtaken => c \in raced'
  BY <1>1, <1>2 DEF MoveCommit, TypeOK
<1>4. ~req[w].overtaken => p \notin Subtree(c) /\ ~OnCycle(c)
  BY <1>1, <1>2 DEF MoveCommit, At, OffCycles
<1> DEFINE T == Subtree(c)
<1>5. c \in T /\ (\A d \in exists : parent[d] \in T => d \in T) /\ T \subseteq exists
  BY SubtreeBelow, BelowLeast
<1>6. T = Subtree(c)'
  <2>1. Below(exists', parent', c) \subseteq Below(exists, parent, c)
    BY <1>3, <1>5, BelowLeast, SubtreeBelow
  <2>2. /\ \A d \in exists : parent[d] \in Below(exists', parent', c) => d \in Below(exists', parent', c)
        /\ c \in Below(exists', parent', c)
    BY <1>3, BelowLeast
  <2>3. Below(exists, parent, c) \subseteq Below(exists', parent', c)
    BY <2>2, BelowLeast
  <2> QED
    BY <2>1, <2>3, SubtreeBelow
<1> HIDE DEF T
<1>7. ASSUME NEW x \in exists \ T
      PROVE  /\ OnCycle(x)' <=> OnCycle(x)
             /\ OnCycle(x)' => \E d \in raced' : d \in Subtree(x)' /\ x \in Subtree(d)'
  <2>1. \A d \in exists' \ {c} : parent'[d] \in T => d \in T
    BY <1>3, <1>5
  <2> QED
    BY <1>1, <1>3, <1>5, <2>1, CyclesGraft
<1>8. ASSUME NEW x \in T, OnCycle(x)'
      PROVE  c \in raced' /\ c \in Subtree(x)' /\ x \in Subtree(c)'
  <2>1. x \in Below(exists', parent', c) /\ Cyclic(exists', parent', x) /\ c \in exists'
    BY <1>3, <1>6, <1>8, SubtreeBelow, CycleBelowNext
  <2>2. c \in Below(exists', parent', x) /\ Cyclic(exists', parent', c)
    BY <2>1, AboveCycle
  <2>3. p \in T
    BY <1>3, <1>6, <2>2, SubtreeBelow DEF Cyclic
  <2> QED
    BY <1>3, <1>4, <1>6, <2>1, <2>2, <2>3, SubtreeBelow DEF T
<1>9. ASSUME NEW x \in T, OnCycle(x)
      PROVE  OnCycle(c)
  BY <1>1, <1>5, <1>9, WitnessOnCycle DEF T
<1>10. CyclesOnlyByOverlap'
  BY <1>3, <1>7, <1>8 DEF CyclesOnlyByOverlap
<1> QED
  BY <1>4, <1>7, <1>9, <1>10

(* Switching companies on or off leaves the tree alone; what `raced` forgets *)
(* is on no cycle.                                                           *)
LEMMA CyclesForget ==
  ASSUME TypeOK, CyclesOnlyByOverlap, UNCHANGED <<exists, parent>>,
         NEW G, \A c \in G : ~OnCycle(c), raced \ G \subseteq raced'
  PROVE  CyclesOnlyByOverlap' /\ \A c : OnCycle(c)' <=> OnCycle(c)
<1>1. \A c : Subtree(c)' = Subtree(c) /\ OnCycle(c)' = OnCycle(c)
  BY DEF Subtree, OnCycle
<1>2. ASSUME NEW c \in exists, OnCycle(c)
      PROVE  \E d \in raced' : d \in Subtree(c) /\ c \in Subtree(d)
  <2>1. PICK d \in raced : d \in Subtree(c) /\ c \in Subtree(d)
    BY <1>2 DEF CyclesOnlyByOverlap
  <2>2. d \in exists /\ OnCycle(d)
    BY <1>2, <2>1, SubtreeClosed, WitnessOnCycle
  <2> QED
    BY <2>1, <2>2
<1> QED
  BY <1>1, <1>2 DEF CyclesOnlyByOverlap

(* The five commits, and who can break a cycle.                              *)
LEMMA CyclesWriteStep ==
  ASSUME CyclesInductive, TypeOK', NEW w \in Workers,
         \/ \E c \in Companies : CreateCommit(w, c) \/ CreateRoot(w, c)
         \/ MoveCommit(w)
         \/ ActivateCommit(w)
         \/ CascadeCommit(w)
  PROVE  /\ CyclesOnlyByOverlap' /\ \A v \in Workers : OffCycles(v)'
         /\ \A c \in exists : OnCycle(c) /\ ~OnCycle(c)' => req[w].overtaken /\ At(w, "move")
<1>1. TypeOK /\ ReadOK(w) /\ OffCycles(w) /\ CyclesOnlyByOverlap
  BY DEF CyclesInductive, HierarchyInductive
<1>2. \A v \in Workers : OffCycles(v)'
  BY <1>1, CyclesCommit DEF CreateCommit, CreateRoot, MoveCommit, ActivateCommit, CascadeCommit
<1>3. ASSUME NEW c \in Companies, CreateCommit(w, c) \/ CreateRoot(w, c)
      PROVE  CyclesOnlyByOverlap' /\ \A x \in exists : OnCycle(x)' <=> OnCycle(x)
  <2>1. \E p \in exists \cup {None} : parent' = [parent EXCEPT ![c] = p]
    BY <1>1, <1>3 DEF CreateCommit, CreateRoot, At, ReadOK
  <2>2. c \in Companies \ exists /\ exists' = exists \cup {c} /\ raced \subseteq raced'
    BY <1>3 DEF CreateCommit, CreateRoot
  <2> QED
    BY <1>1, <2>1, <2>2, CyclesCreate
<1>4. CASE MoveCommit(w)
  BY <1>2, <1>4, CyclesMove DEF MoveCommit
<1>5. CASE ActivateCommit(w) \/ CascadeCommit(w)
  <2> DEFINE G == IF req[w].overtaken THEN {}
                  ELSE IF At(w, "on") THEN {req[w].company} ELSE req[w].ids
  <2>1. UNCHANGED <<exists, parent>> /\ raced \ G \subseteq raced'
    BY <1>5 DEF ActivateCommit, CascadeCommit, At
  <2>2. \A c \in G : ~OnCycle(c)
    BY <1>1, <1>5 DEF ActivateCommit, CascadeCommit, At, OffCycles
  <2> HIDE DEF G
  <2>3. CyclesOnlyByOverlap' /\ \A c : OnCycle(c)' <=> OnCycle(c)
    BY <1>1, <2>1, <2>2, CyclesForget
  <2> QED
    BY <1>2, <2>3
<1> QED
  BY <1>2, <1>3, <1>4, <1>5

(* Every step keeps the invariant, and no step takes a company out of a      *)
(* cycle but the commit of a move that was overtaken.                        *)
LEMMA CyclesStep ==
  ASSUME CyclesInductive, HierarchyInductive', [Next]_vars
  PROVE  /\ CyclesInductive'
         /\ \A c \in exists : OnCycle(c) /\ ~OnCycle(c)' =>
              \E w \in Workers : req[w].overtaken /\ At(w, "move")
<1>1. TypeOK'
  BY DEF HierarchyInductive
<1>2. ASSUME UNCHANGED <<exists, parent>>
      PROVE  \A c : OnCycle(c)' = OnCycle(c) /\ Subtree(c)' = Subtree(c)
  BY <1>2 DEF Subtree, OnCycle
<1>3. ASSUME NEW w \in Workers,
             \/ \E root \in exists : Enter(w, root)
             \/ \E p \in exists : CreateRead(w, p)
             \/ \E c, p \in exists : MoveRead(w, c, p)
             \/ \E c \in exists : ActivateRead(w, c) \/ DeactivateRead(w, c)
             \/ CascadeRead(w)
             \/ CutOff(w)
      PROVE  /\ CyclesOnlyByOverlap' /\ \A v \in Workers : OffCycles(v)'
             /\ \A c : OnCycle(c)' = OnCycle(c)
  <2>1. UNCHANGED <<exists, parent>>
    BY <1>3 DEF Enter, CreateRead, MoveRead, ActivateRead, DeactivateRead, CascadeRead, CutOff, Begin
  <2> QED
    BY <1>2, <1>3, <2>1, CyclesReadStep
<1>4. ASSUME NEW w \in Workers,
             \/ \E c \in Companies : CreateCommit(w, c) \/ CreateRoot(w, c)
             \/ MoveCommit(w)
             \/ ActivateCommit(w)
             \/ CascadeCommit(w)
      PROVE  /\ CyclesOnlyByOverlap' /\ \A v \in Workers : OffCycles(v)'
             /\ \A c \in exists : OnCycle(c) /\ ~OnCycle(c)' => req[w].overtaken /\ At(w, "move")
  BY <1>1, <1>4, CyclesWriteStep
<1>5. CASE UNCHANGED vars
  <2>1. UNCHANGED <<exists, parent, req, raced>>
    BY <1>5 DEF vars
  <2>2. CyclesOnlyByOverlap' /\ \A v \in Workers : OffCycles(v)'
    BY <1>2, <2>1 DEF CyclesInductive, CyclesOnlyByOverlap, OffCycles
  <2> QED
    BY <1>2, <2>1, <2>2 DEF CyclesInductive
<1>6. CASE Next
  <2>1. PICK w \in Workers : Step(w)
    BY <1>6 DEF Next
  <2> QED
    BY <1>3, <1>4, <2>1 DEF Step, CyclesInductive
<1> QED
  BY <1>5, <1>6

(* Cycles have a witness in every reachable state, and requests that nobody  *)
(* overtook know of none.                                                    *)
THEOREM CyclesInvariant == Spec => []CyclesInductive
<1>1. Init => CyclesInductive
  <2> SUFFICES ASSUME Init PROVE CyclesInductive
    OBVIOUS
  <2>1. HierarchyInductive
    BY InitHierarchy
  <2>2. \A c \in exists : ~OnCycle(c)
    BY RootAssumption DEF Init, OnCycle
  <2>3. \A w \in Workers : OffCycles(w)
    BY DEF Init, OffCycles, Idle
  <2> QED
    BY <2>1, <2>2, <2>3 DEF CyclesInductive, CyclesOnlyByOverlap
<1> QED
  BY <1>1, HierarchyInvariant, CyclesStep, PTL DEF Spec

(* A cycle of companies has a company that a request overtaken between its   *)
(* check and its commit has moved (_validate_parent_change).                 *)
THEOREM CycleNeedsOverlap == Spec => []CyclesOnlyByOverlap
<1>1. CyclesInductive => CyclesOnlyByOverlap
  BY DEF CyclesInductive
<1> QED
  BY <1>1, CyclesInvariant, PTL

(* Once there, a cycle is out of reach of every request that reads it: the   *)
(* query for a tree with a company on it never ends.                         *)
THEOREM CyclesStay == Spec => CyclesAreForever
<1>1. CyclesInductive /\ HierarchyInductive' /\ [Next]_vars =>
        [\A c \in exists : OnCycle(c) /\ ~OnCycle(c)' =>
           \E w \in Workers : req[w].overtaken /\ At(w, "move")]_vars
  BY CyclesStep
<1> QED
  BY <1>1, CyclesInvariant, HierarchyInvariant, PTL DEF Spec, CyclesAreForever
=============================================================================
