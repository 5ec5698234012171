------------------------- MODULE MapWorkspaceProofs -------------------------
(***************************************************************************)
(* Theorems about MapWorkspace, for any layers, objects, users and clients *)
(* and any limits.                                                         *)
(*                                                                         *)
(* First what walks and rounds of bounded length reach, then what requests *)
(* ask for; then every handler that writes, in one shape: the tables stay  *)
(* sound and no row changes behind its version (Step). Requests under way  *)
(* survive such a step, because versions only grow, and what one has been  *)
(* permitted stays so, because the others wait for its lock; only the      *)
(* house of a marker may go before the row of the marker is locked. At the *)
(* end the handlers are shown to implement OptimisticStore.                *)
(***************************************************************************)
EXTENDS MapWorkspace, FiniteSetTheorems, TLAPS

-----------------------------------------------------------------------------
(* Numbers, and what is repeated at most MaxDepth times                      *)

(* A set of numbers has a least one: induction on numbers, in first order.   *)
LEMMA LeastNumber ==
  ASSUME NEW S \in SUBSET Nat, S # {}
  PROVE  \E n \in S : \A m \in S : n <= m
<1> DEFINE Below(n) == 0 .. n
           T == {Below(n) : n \in S}
           R == StrictSubsetOrdering(Nat)
<1>1. \A n \in Nat : Below(n) \in FiniteSubsetsOf(Nat)
  BY FS_Interval DEF FiniteSubsetsOf
<1>2. T \subseteq FiniteSubsetsOf(Nat) /\ T # {}
  BY <1>1
<1>3. IsWellFoundedOn(R, FiniteSubsetsOf(Nat))
  BY FS_StrictSubsetOrderingWellFounded
<1>4. PICK x \in T : \A y \in T : ~(<<y, x>> \in R)
  <2> HIDE DEF T, R
  <2> QED  BY <1>2, <1>3, WFMin
<1>5. PICK n \in S : x = Below(n)
  BY <1>4
<1>6. ASSUME NEW m \in S, m < n  PROVE FALSE
  <2>1. Below(m) \subseteq Below(n) /\ n \in Below(n) /\ n \notin Below(m)
    BY <1>6
  <2>2. Below(m) \in SUBSET Nat /\ Below(n) \in SUBSET Nat
    OBVIOUS
  <2>3. <<Below(m), Below(n)>> \in R
    BY <2>1, <2>2 DEF StrictSubsetOrdering
  <2> QED  BY <2>3, <1>4, <1>5
<1> QED  BY <1>6

(* Whatever starts at a and makes the steps of F is a sequence.              *)
LEMMA Iterates ==
  ASSUME NEW D, NEW F \in [D -> D], NEW a \in D
  PROVE  \E f \in [0..MaxDepth -> D] :
           f[0] = a /\ \A n \in 1..MaxDepth : f[n] = F[f[n - 1]]
<1> USE LimitAssumption
<1> DEFINE Steps(n, f) ==
             /\ f \in [0..n -> D] /\ f[0] = a
             /\ \A k \in 1..n : f[k] = F[f[k - 1]]
           Bad == {n \in 0..MaxDepth : ~\E f : Steps(n, f)}
<1>1. Bad = {}
  <2> SUFFICES ASSUME Bad # {} PROVE FALSE
    OBVIOUS
  <2>1. PICK n \in Bad : \A m \in Bad : n <= m
    <3>1. Bad \in SUBSET Nat
      OBVIOUS
    <3> HIDE DEF Bad
    <3> QED  BY <3>1, LeastNumber
  <2>2. Steps(0, [k \in 0..0 |-> a])
    OBVIOUS
  <2>3. n # 0
    BY <2>2
  <2>4. n - 1 \in 0..MaxDepth /\ n - 1 \notin Bad
    BY <2>1, <2>3
  <2>5. PICK f : Steps(n - 1, f)
    BY <2>4
  <2> DEFINE h == [k \in 0..n |-> IF k = n THEN F[f[n - 1]] ELSE f[k]]
  <2>6. h \in [0..n -> D] /\ h[0] = a
    BY <2>3, <2>4, <2>5
  <2>7. ASSUME NEW k \in 1..n PROVE h[k] = F[h[k - 1]]
    <3>1. CASE k = n
      BY <3>1, <2>3
    <3>2. CASE k # n
      <4>1. k \in 1..n - 1
        BY <3>2
      <4>2. f[k] = F[f[k - 1]] /\ h[k] = f[k] /\ h[k - 1] = f[k - 1]
        BY <4>1, <2>5
      <4> QED  BY <4>2
    <3> QED  BY <3>1, <3>2
  <2>8. Steps(n, h)
    BY <2>6, <2>7
  <2> QED  BY <2>8
<1> QED  BY <1>1

(* A sequence whose steps do not leave D stays in D.                         *)
LEMMA StaysIn ==
  ASSUME NEW D, NEW g, g[0] \in D,
         \A n \in 1..MaxDepth : g[n - 1] \in D => g[n] \in D
  PROVE  \A n \in 0..MaxDepth : g[n] \in D
<1> USE LimitAssumption
<1> DEFINE Off == {n \in 0..MaxDepth : g[n] \notin D}
<1> SUFFICES ASSUME Off # {} PROVE FALSE
  OBVIOUS
<1>1. PICK n \in Off : \A m \in Off : n <= m
  <2>1. Off \in SUBSET Nat
    OBVIOUS
  <2> HIDE DEF Off
  <2> QED  BY <2>1, LeastNumber
<1>2. n # 0
  OBVIOUS
<1>3. n - 1 \in 0..MaxDepth /\ n - 1 \notin Off
  BY <1>1, <1>2
<1> QED  BY <1>2, <1>3

(* A walk up stays among the layers until it has left the tree.              *)
LEMMA WalkSteps ==
  ASSUME NEW S, None \notin S, NEW p \in [S -> S \cup {None}], NEW s \in S \cup {None}
  PROVE  /\ WalkUp(p, s) \in [0..MaxDepth -> S \cup {None}]
         /\ WalkUp(p, s)[0] = s
         /\ \A n \in 1..MaxDepth : WalkUp(p, s)[n] = Above(p, WalkUp(p, s)[n - 1])
<1> DEFINE D == S \cup {None}
           F == [x \in D |-> Above(p, x)]
<1>1. F \in [D -> D]
  BY DEF Above
<1>2. PICK f \in [0..MaxDepth -> D] :
        f[0] = s /\ \A n \in 1..MaxDepth : f[n] = F[f[n - 1]]
  <2>1. s \in D
    OBVIOUS
  <2> HIDE DEF D, F
  <2> QED  BY <1>1, <2>1, Iterates
<1>3. f = [n \in 0..MaxDepth |-> IF n = 0 THEN s ELSE Above(p, f[n - 1])]
  <2>1. ASSUME NEW n \in 0..MaxDepth, n # 0  PROVE f[n] = Above(p, f[n - 1])
    <3>1. n \in 1..MaxDepth /\ n - 1 \in 0..MaxDepth
      BY <2>1, LimitAssumption
    <3>2. f[n] = F[f[n - 1]] /\ f[n - 1] \in D
      <4> HIDE DEF D, F
      <4> QED  BY <1>2, <3>1
    <3> QED  BY <3>2
  <2>2. \A n \in 0..MaxDepth : f[n] = IF n = 0 THEN s ELSE Above(p, f[n - 1])
    BY <1>2, <2>1, LimitAssumption
  <2> QED  BY <2>2
<1> DEFINE W == CHOOSE up : up = [n \in 0..MaxDepth |-> IF n = 0 THEN s ELSE Above(p, up[n - 1])]
<1>4. W = [n \in 0..MaxDepth |-> IF n = 0 THEN s ELSE Above(p, W[n - 1])]
  BY <1>3
<1>5. W = WalkUp(p, s)
  BY DEF WalkUp
<1> HIDE DEF W
<1>6. W[0] = s /\ \A n \in 1..MaxDepth : W[n] = Above(p, W[n - 1])
  BY <1>4, LimitAssumption
<1>7. \A n \in 0..MaxDepth : W[n] \in D
  <2>1. W[0] \in D
    BY <1>6
  <2>2. \A n \in 1..MaxDepth : W[n - 1] \in D => W[n] \in D
    BY <1>6 DEF Above
  <2> HIDE DEF D
  <2> QED  BY <2>1, <2>2, StaysIn
<1>8. W \in [0..MaxDepth -> D]
  BY <1>4, <1>7
<1> QED  BY <1>5, <1>6, <1>8

(* The rounds of an expansion.                                               *)
LEMMA RoundSteps ==
  ASSUME NEW S \in SUBSET Existing
  PROVE  /\ Rounds(S) \in [0..MaxDepth -> SUBSET Existing]
         /\ Rounds(S)[0] = S
         /\ \A n \in 1..MaxDepth :
              Rounds(S)[n] = Rounds(S)[n - 1] \cup {l \in Existing : layer[l].parent \in Rounds(S)[n - 1]}
<1> DEFINE D == SUBSET Existing
           G(x) == x \cup {l \in Existing : layer[l].parent \in x}
           F == [x \in D |-> G(x)]
<1>1. F \in [D -> D]
  OBVIOUS
<1>2. PICK f \in [0..MaxDepth -> D] :
        f[0] = S /\ \A n \in 1..MaxDepth : f[n] = F[f[n - 1]]
  <2>1. S \in D
    OBVIOUS
  <2> HIDE DEF D, F
  <2> QED  BY <1>1, <2>1, Iterates
<1>3. f = [n \in 0..MaxDepth |-> IF n = 0 THEN S ELSE G(f[n - 1])]
  <2>1. ASSUME NEW n \in 0..MaxDepth, n # 0  PROVE f[n] = G(f[n - 1])
    <3> HIDE DEF G
    <3>1. n \in 1..MaxDepth /\ n - 1 \in 0..MaxDepth
      BY <2>1, LimitAssumption
    <3>2. f[n] = F[f[n - 1]] /\ f[n - 1] \in D
      <4> HIDE DEF D, F
      <4> QED  BY <1>2, <3>1
    <3> QED  BY <3>2
  <2> HIDE DEF G
  <2>2. \A n \in 0..MaxDepth : f[n] = IF n = 0 THEN S ELSE G(f[n - 1])
    BY <1>2, <2>1, LimitAssumption
  <2> QED  BY <2>2
<1> DEFINE W == CHOOSE round : round = [n \in 0..MaxDepth |-> IF n = 0 THEN S ELSE G(round[n - 1])]
<1>4. W = [n \in 0..MaxDepth |-> IF n = 0 THEN S ELSE G(W[n - 1])]
  <2> HIDE DEF G
  <2> QED  BY <1>3
<1>5. W = Rounds(S)
  BY DEF Rounds
<1> HIDE DEF W
<1>6. W[0] = S /\ \A n \in 1..MaxDepth : W[n] = G(W[n - 1])
  <2> HIDE DEF G
  <2> QED  BY <1>4, LimitAssumption
<1>7. \A n \in 0..MaxDepth : W[n] \in D
  <2>1. W[0] \in D
    BY <1>6
  <2>2. \A n \in 1..MaxDepth : W[n - 1] \in D => W[n] \in D
    BY <1>6
  <2> HIDE DEF D
  <2> QED  BY <2>1, <2>2, StaysIn
<1>8. W \in [0..MaxDepth -> D]
  <2> HIDE DEF G, D
  <2> QED  BY <1>4, <1>7
<1> QED  BY <1>5, <1>6, <1>8

(* Who is his own parent never leaves the tree.                              *)
LEMMA NotOwnParent ==
  ASSUME NEW S, None \notin S, NEW p \in [S -> S \cup {None}], NEW l \in S, EndsInTime(p, l)
  PROVE  p[l] # l
<1> SUFFICES ASSUME p[l] = l PROVE FALSE
  OBVIOUS
<1> DEFINE u == WalkUp(p, l)
<1>1. u[0] = l /\ \A n \in 1..MaxDepth : u[n] = Above(p, u[n - 1])
  BY WalkSteps
<1> DEFINE D == {l}
<1>2. \A n \in 0..MaxDepth : u[n] \in D
  <2>1. u[0] \in D
    BY <1>1
  <2>2. \A n \in 1..MaxDepth : u[n - 1] \in D => u[n] \in D
    BY <1>1 DEF Above
  <2> HIDE DEF u, D
  <2> QED  BY <2>1, <2>2, StaysIn
<1>3. u[MaxDepth] = None
  BY DEF EndsInTime
<1> QED  BY <1>2, <1>3, LimitAssumption

(* From p to q every layer got nearer to the top, or stayed where it was: its *)
(* parent in q is its parent or its grandparent in p. Then walks in q are at *)
(* most as long as in p. This is what deleting a layer does to its children, *)
(* and what a new layer does: it begins where 0 did.                         *)
LEMMA Shorter ==
  ASSUME NEW S, None \notin S, NEW p \in [S -> S \cup {None}], NEW a \in S \cup {None},
         NEW T, None \notin T, NEW q \in [T -> T \cup {None}], NEW b \in T \cup {None},
         Above(q, b) \in (S \cap T) \cup {None},
         Above(q, b) \in {Above(p, a), Above(p, Above(p, a))},
         \A x \in S \cap T : /\ q[x] \in (S \cap T) \cup {None}
                             /\ q[x] \in {p[x], Above(p, p[x])},
         EndsInTime(p, a)
  PROVE  EndsInTime(q, b)
<1> DEFINE K == S \cap T
           u == WalkUp(p, a)
           v == WalkUp(q, b)
           Ahead(n) == v[n] = None \/ (v[n] \in K /\ \E j \in n..MaxDepth : v[n] = u[j])
           Off == {n \in 1..MaxDepth : ~Ahead(n)}
<1> USE LimitAssumption
<1>1. /\ u \in [0..MaxDepth -> S \cup {None}] /\ u[0] = a
      /\ \A n \in 1..MaxDepth : u[n] = Above(p, u[n - 1])
  BY WalkSteps
<1>2. /\ v \in [0..MaxDepth -> T \cup {None}] /\ v[0] = b
      /\ \A n \in 1..MaxDepth : v[n] = Above(q, v[n - 1])
  BY WalkSteps
<1>3. u[MaxDepth] = None
  BY DEF EndsInTime
<1> HIDE DEF u, v
<1>4. ASSUME NEW j \in 0..MaxDepth, u[j] # None
      PROVE  /\ j + 1 \in 0..MaxDepth /\ u[j + 1] = Above(p, u[j])
             /\ \/ Above(p, Above(p, u[j])) = None
                \/ j + 2 \in 0..MaxDepth /\ u[j + 2] = Above(p, Above(p, u[j]))
  <2>1. j + 1 \in 1..MaxDepth /\ (j + 1) - 1 = j
    BY <1>3, <1>4
  <2>2. u[j + 1] = Above(p, u[j])
    BY <1>1, <2>1
  <2>3. CASE j + 1 = MaxDepth
    <3>1. Above(p, u[j]) = None
      BY <2>2, <2>3, <1>3
    <3> QED  BY <2>1, <2>2, <3>1 DEF Above
  <2>4. CASE j + 1 # MaxDepth
    <3>1. j + 2 \in 1..MaxDepth /\ (j + 2) - 1 = j + 1
      BY <2>1, <2>4
    <3>2. u[j + 2] = Above(p, u[j + 1])
      BY <1>1, <3>1
    <3> QED  BY <2>1, <2>2, <3>1, <3>2
  <2> QED  BY <2>3, <2>4
<1>5. Ahead(1)
  <2>1. v[1] = Above(q, b)
    BY <1>2
  <2>2. CASE v[1] = None
    BY <2>2
  <2>3. CASE v[1] # None
    <3>1. v[1] \in K
      BY <2>1, <2>3
    <3>2. u[0] # None
      BY <1>1, <2>1, <2>3 DEF Above
    <3>3. CASE v[1] = Above(p, a)
      <4>1. 1 \in 1..MaxDepth /\ u[1] = Above(p, a)
        BY <1>1
      <4> QED  BY <3>1, <3>3, <4>1
    <3>4. CASE v[1] = Above(p, Above(p, a))
      <4>1. 0 \in 0..MaxDepth /\ Above(p, Above(p, u[0])) # None
        BY <1>1, <2>3, <3>4
      <4>2. 0 + 2 \in 0..MaxDepth /\ u[0 + 2] = Above(p, Above(p, u[0]))
        BY <1>4, <3>2, <4>1
      <4>3. 2 \in 1..MaxDepth /\ u[2] = v[1]
        BY <1>1, <3>4, <4>2
      <4> QED  BY <3>1, <4>3
    <3> QED  BY <2>1, <3>3, <3>4
  <2> QED  BY <2>2, <2>3
<1>6. ASSUME NEW n \in 1..MaxDepth, n # 1, Ahead(n - 1)  PROVE Ahead(n)
  <2>1. v[n] = Above(q, v[n - 1]) /\ n - 1 \in 1..MaxDepth
    BY <1>2, <1>6
  <2>2. CASE v[n - 1] = None
    BY <2>1, <2>2 DEF Above
  <2>3. CASE v[n - 1] # None
    <3>1. PICK j \in n - 1..MaxDepth : v[n - 1] = u[j]
      BY <1>6, <2>3
    <3>2. v[n - 1] \in K
      BY <1>6, <2>3
    <3>3. /\ v[n] \in K \cup {None}
          /\ v[n] \in {Above(p, u[j]), Above(p, Above(p, u[j]))}
      BY <2>1, <3>1, <3>2 DEF Above
    <3>4. /\ j \in 0..MaxDepth /\ j + 1 \in 0..MaxDepth /\ u[j + 1] = Above(p, u[j])
          /\ \/ Above(p, Above(p, u[j])) = None
             \/ j + 2 \in 0..MaxDepth /\ u[j + 2] = Above(p, Above(p, u[j]))
      <4>1. j \in 0..MaxDepth /\ u[j] # None
        BY <2>1, <2>3, <3>1
      <4> QED  BY <4>1, <1>4
    <3>5. CASE v[n] = None
      BY <3>5
    <3>6. CASE v[n] # None /\ v[n] = Above(p, u[j])
      <4>1. j + 1 \in n..MaxDepth
        BY <2>1, <3>1, <3>4
      <4> QED  BY <3>3, <3>4, <3>6, <4>1
    <3>7. CASE v[n] # None /\ v[n] = Above(p, Above(p, u[j]))
      <4>1. j + 2 \in n..MaxDepth /\ u[j + 2] = v[n]
        BY <2>1, <3>1, <3>4, <3>7
      <4> QED  BY <3>3, <3>7, <4>1
    <3> QED  BY <3>3, <3>5, <3>6, <3>7
  <2> QED  BY <2>2, <2>3
<1>7. Off = {}
  <2> SUFFICES ASSUME Off # {} PROVE FALSE
    OBVIOUS
  <2>1. PICK n \in Off : \A m \in Off : n <= m
    <3>1. Off \in SUBSET Nat
      OBVIOUS
    <3> HIDE DEF Off
    <3> QED  BY <3>1, LeastNumber
  <2>2. n # 1
    BY <1>5
  <2>3. n - 1 \in 1..MaxDepth /\ n - 1 \notin Off
    BY <2>1, <2>2
  <2> QED  BY <2>2, <2>3, <1>6
<1>8. Ahead(MaxDepth)
  BY <1>7
<1>9. v[MaxDepth] = None
  <2>1. \A j \in MaxDepth..MaxDepth : j = MaxDepth
    OBVIOUS
  <2> QED  BY <1>3, <1>8, <2>1
<1> QED  BY <1>9 DEF EndsInTime, v

(* In a sound tree the rounds of an expansion are enough. If the parent of k *)
(* came in at the last round, its own parent came in at the one before, and  *)
(* so on: the walk up from k would be longer than a walk may be.             *)
LEMMA ExpansionReachesAll ==
  ASSUME NEW S \in SUBSET Existing, NEW k \in Existing,
         None \notin Existing, Parents \in [Existing -> Existing \cup {None}],
         EndsInTime(Parents, k), layer[k].parent \in Expanded(S)
  PROVE  k \in Expanded(S)
<1> SUFFICES ASSUME k \notin Expanded(S) PROVE FALSE
  OBVIOUS
<1> USE LimitAssumption
<1> DEFINE R == Rounds(S)
           u == WalkUp(Parents, k)
           Down(j) == MaxDepth - j
           New(j) == u[j + 1] \in R[Down(j)] /\ u[j + 1] \notin R[Down(j) - 1]
           Off == {j \in 0..MaxDepth - 1 : ~New(j)}
<1>1. /\ R \in [0..MaxDepth -> SUBSET Existing]
      /\ \A n \in 1..MaxDepth : R[n] = R[n - 1] \cup {l \in Existing : layer[l].parent \in R[n - 1]}
  BY RoundSteps
<1>2. /\ u \in [0..MaxDepth -> Existing \cup {None}] /\ u[0] = k
      /\ \A n \in 1..MaxDepth : u[n] = Above(Parents, u[n - 1])
  BY WalkSteps
<1>3. u[MaxDepth] = None
  BY DEF EndsInTime
<1>4. layer[k].parent \in R[MaxDepth] /\ k \notin R[MaxDepth]
  BY DEF Expanded
<1>5. \A x \in Existing : Above(Parents, x) = layer[x].parent
  BY DEF Above, Parents
<1> HIDE DEF R, u
<1>6. New(0)
  <2>1. u[1] = layer[k].parent
    BY <1>2, <1>5
  <2>2. u[1] \notin R[MaxDepth - 1]
    <3>1. MaxDepth \in 1..MaxDepth
      OBVIOUS
    <3>2. R[MaxDepth] = R[MaxDepth - 1] \cup {l \in Existing : layer[l].parent \in R[MaxDepth - 1]}
      BY <1>1, <3>1
    <3> QED  BY <1>4, <2>1, <3>2
  <2> QED  BY <1>4, <2>1, <2>2
<1>7. ASSUME NEW j \in 1..MaxDepth - 1, New(j - 1)  PROVE New(j)
  <2>1. u[j] \in R[Down(j) + 1] /\ u[j] \notin R[Down(j)]
    BY <1>7
  <2>2. Down(j) \in 1..MaxDepth /\ Down(j) + 1 \in 1..MaxDepth /\ j + 1 \in 1..MaxDepth
    OBVIOUS
  <2> HIDE DEF Down
  <2>3. R[Down(j) + 1] = R[Down(j)] \cup {l \in Existing : layer[l].parent \in R[Down(j)]}
    <3>1. \A n \in 1..MaxDepth : R[n] = R[n - 1] \cup {l \in Existing : layer[l].parent \in R[n - 1]}
      BY <1>1
    <3>2. (Down(j) + 1) - 1 = Down(j)
      BY <2>2
    <3> QED  BY <2>2, <3>1, <3>2
  <2>4. u[j] \in Existing /\ layer[u[j]].parent \in R[Down(j)]
    BY <2>1, <2>3
  <2>5. u[j + 1] = layer[u[j]].parent
    <3>1. (j + 1) - 1 = j
      OBVIOUS
    <3> QED  BY <1>2, <1>5, <2>2, <2>4, <3>1
  <2>6. u[j + 1] \notin R[Down(j) - 1]
    <3>1. R[Down(j)] = R[Down(j) - 1] \cup {l \in Existing : layer[l].parent \in R[Down(j) - 1]}
      BY <1>1, <2>2
    <3> QED  BY <2>1, <2>4, <2>5, <3>1
  <2> QED  BY <2>4, <2>5, <2>6
<1>8. Off = {}
  <2> SUFFICES ASSUME Off # {} PROVE FALSE
    OBVIOUS
  <2>1. PICK j \in Off : \A m \in Off : j <= m
    <3>1. Off \in SUBSET Nat
      OBVIOUS
    <3> HIDE DEF Off
    <3> QED  BY <3>1, LeastNumber
  <2>2. j # 0
    BY <1>6
  <2>3. j - 1 \in 0..MaxDepth - 1 /\ j - 1 \notin Off /\ j \in 1..MaxDepth - 1
    BY <2>1, <2>2
  <2> HIDE DEF New
  <2> QED  BY <2>3, <1>7
<1>9. New(MaxDepth - 1)
  <2> HIDE DEF New
  <2> QED  BY <1>8
<1>10. u[MaxDepth] \in R[1]
  <2>1. (MaxDepth - 1) + 1 = MaxDepth /\ MaxDepth - (MaxDepth - 1) = 1
    OBVIOUS
  <2> QED  BY <1>9, <2>1
<1> QED  BY <1>1, <1>3, <1>10

-----------------------------------------------------------------------------
(* Requests                                                                  *)

(* A worker at rest.                                                         *)
LEMMA IdleRequest ==
  /\ Idle \in Requests /\ Idle.pc = "idle" /\ Idle.op = Blank
  /\ Idle.seen = NothingSeen /\ NoRows \in RowSets
<1>1. Blank \in Asked
  BY DEF Blank, Asked
<1>2. NoLayer \in LayerRows
  BY DEF NoLayer, LayerRows
<1>3. NothingSeen \in Views
  BY <1>2 DEF NothingSeen, Views, NoObject, ObjectRows, NoPassport, PassportRows, NoPreference, PreferenceRows
<1>4. NoRows \in RowSets
  BY <1>2 DEF NoRows, RowSets
<1> QED  BY <1>1, <1>3, <1>4 DEF Idle, Requests

(* The types of what a request is about.                                     *)
LEMMA RequestTypes ==
  ASSUME NEW r \in Requests
  PROVE  /\ r.op \in Asked /\ r.seen \in Views /\ r.rows \in RowSets
         /\ r.op.layer \in Layers \cup {None} /\ r.op.target \in Targets \cup {None}
         /\ r.op.user \in Users \cup {None} /\ r.op.parent \in Layers \cup {None}
         /\ r.op.mode \in Modes \cup {None} /\ r.op.text \in Texts \cup {None}
         /\ r.op.direction \in Int /\ r.op.data \in Texts \cup {None}
         /\ r.op.house \in Houses \cup {None} /\ r.op.shown \in SUBSET Layers
         /\ r.op.present \in BOOLEAN /\ r.op.versioned \in BOOLEAN
         /\ r.target \in Targets \cup {None} /\ r.existing \in BOOLEAN
         /\ r.seen.layer \in LayerRows /\ r.seen.object \in ObjectRows
         /\ r.seen.passport \in PassportRows /\ r.seen.preference \in PreferenceRows
<1>1. r.op \in Asked /\ r.seen \in Views /\ r.rows \in RowSets
  BY DEF Requests
<1>2. r.target \in Targets \cup {None} /\ r.existing \in BOOLEAN
  BY DEF Requests
<1> QED  BY <1>1, <1>2 DEF Asked, Views

(* What a client asks for is typed, has the shape of its kind and is about   *)
(* what it sees.                                                             *)
Sensible(op) ==
  /\ op \in Asked /\ AsksWell(op)
  /\ op.layer # None => op.layer \in Existing
  /\ op.target # None => op.target \in There
  /\ op.user # None => op.user \in Users

(* Whatever a client asks for is sensible.                                   *)
LEMMA BodyOK ==
  ASSUME NEW w \in Workers, AskLayer(w) \/ AskObject(w) \/ AskPreference(w)
  PROVE  \E op : Sensible(op) /\ Look(w, op)
<1> USE TargetAssumption
<1> USE DEF Blank, Asked, AsksWell, Kinds, Sensible
<1>1. Existing \subseteq Layers /\ There \subseteq Targets
      /\ \A l \in Existing : layer[l].mode \in Modes
  BY DEF Existing, There
<1>2. ASSUME NEW m \in Modes, NEW p \in Existing \cup {None}, NEW x \in Texts
      PROVE  Sensible(LayerBody("create", None, m, p, x))
  BY <1>1 DEF LayerBody
<1>3. ASSUME NEW l \in Existing, NEW m \in SavedModes(l), NEW p \in Existing \cup {None}, NEW x \in Texts
      PROVE  Sensible(LayerBody("save", l, m, p, x))
  <2>1. m \in Modes
    BY <1>1 DEF SavedModes, Modes
  <2> QED  BY <1>1, <2>1 DEF LayerBody
<1>4. ASSUME NEW l \in Existing  PROVE Sensible(LayerBody("delete", l, None, None, None))
  BY <1>1 DEF LayerBody
<1>5. ASSUME NEW l \in Existing, NEW d \in {-1, 1}  PROVE Sensible(MoveBody(l, d))
  BY <1>1 DEF MoveBody
<1>6. ASSUME NEW l \in Existing, NEW t \in There, NEW b \in BOOLEAN  PROVE Sensible(MemberBody(l, t, b))
  BY <1>1 DEF MemberBody
<1>7. ASSUME NEW t \in There, NEW x \in Texts, NEW y \in Texts \cup {None}
      PROVE  Sensible(PassportBody(t, y, x))
  BY <1>1 DEF PassportBody
<1>8. ASSUME NEW t \in There \cap Markers, NEW x \in Texts, NEW b \in BOOLEAN,
             NEW h \in (There \cap Houses) \cup {None}, NEW v \in BOOLEAN
      PROVE  Sensible(UpdateBody(t, x, b, h, v))
  BY <1>1 DEF UpdateBody
<1>9. ASSUME NEW t \in There \cap Lines, NEW b \in BOOLEAN  PROVE Sensible(SplitBody(t, b))
  BY <1>1 DEF SplitBody
<1>10. ASSUME NEW t \in There \ Houses, NEW v \in BOOLEAN  PROVE Sensible(EraseBody(t, v))
  BY <1>1 DEF EraseBody
<1>11. ASSUME NEW u \in Users, NEW l \in Existing  PROVE Sensible(PreferenceBody(u, {l}))
  BY <1>1 DEF PreferenceBody
<1> HIDE DEF Blank, Asked, AsksWell, Kinds, Sensible
<1>12. CASE AskLayer(w)
  BY <1>12, <1>2, <1>3, <1>4, <1>5, <1>6 DEF AskLayer
<1>13. CASE AskObject(w)
  BY <1>13, <1>7, <1>8, <1>9, <1>10 DEF AskObject
<1>14. CASE AskPreference(w)
  BY <1>14, <1>11 DEF AskPreference
<1> QED  BY <1>12, <1>13, <1>14

-----------------------------------------------------------------------------
(* Rows                                                                      *)

(* Facts of a layer that is there.                                           *)
LEMMA LayerFacts ==
  ASSUME TablesOK, TreeSound
  PROVE  /\ Existing \subseteq Layers /\ IsFiniteSet(Existing) /\ None \notin Existing
         /\ Parents \in [Existing -> Existing \cup {None}]
         /\ \A l \in Existing : /\ layer[l] \in LayerRows /\ layer[l].mode \in Modes
                                /\ layer[l].version \in Nat /\ layer[l].text \in Texts \cup {None}
                                /\ layer[l].parent \in Existing \cup {None}
                                /\ layer[l].order \in Int
<1>1. Existing \subseteq Layers
  BY DEF Existing
<1>2. IsFiniteSet(Existing)
  BY <1>1, FS_Subset, LayerAssumption
<1>3. \A l \in Existing : layer[l].parent \in Existing \cup {None}
  BY DEF TreeSound, ParentFits
<1>4. \A l \in Layers : layer[l] \in LayerRows
  BY DEF TablesOK
<1>5. \A l \in Existing : /\ layer[l].mode \in Modes
                          /\ layer[l].version \in Nat /\ layer[l].text \in Texts \cup {None}
                          /\ layer[l].order \in Int
  BY <1>1, <1>4 DEF LayerRows, Existing
<1> QED  BY <1>1, <1>2, <1>3, <1>4, <1>5, TargetAssumption DEF Parents

(* Two trees with the same layers, of the same sorts, at the same places.    *)
LEMMA SameTree ==
  ASSUME TreeSound, Existing' = Existing,
         \A l \in Existing : layer'[l].mode = layer[l].mode /\ layer'[l].parent = layer[l].parent
  PROVE  TreeSound'
<1>1. Parents' = Parents
  BY DEF Parents
<1>2. ASSUME NEW l \in Existing, EndsInTime(Parents, l)  PROVE EndsInTime(Parents', l)
  BY <1>1, <1>2
<1>3. \A l \in Existing' : EndsInTime(Parents', l)
  BY <1>2 DEF TreeSound
<1>4. \A l \in Existing' : ParentFits(layer[l].parent)'
  <2>1. \A l \in Existing : layer[l].parent # None =>
                              layer[l].parent \in Existing /\ layer[layer[l].parent].mode = "group"
    BY DEF TreeSound, ParentFits
  <2> QED  BY <2>1 DEF ParentFits
<1>5. Cardinality(Existing') <= MaxLayers
  BY DEF TreeSound
<1> QED  BY <1>3, <1>4, <1>5 DEF TreeSound

(* A row with another order and the next version.                            *)
LEMMA Reordered ==
  ASSUME NEW row \in LayerRows, NEW n \in Int
  PROVE  LET new == [row EXCEPT !.order = n, !.version = @ + 1]
         IN  /\ new \in LayerRows /\ new.mode = row.mode /\ new.parent = row.parent
             /\ new.text = row.text /\ new.version = row.version + 1
<1>1. \A m \in Nat : [row EXCEPT !.order = n, !.version = m] \in LayerRows
  BY DEF LayerRows
<1>2. row.version + 1 \in Nat
  BY DEF LayerRows
<1>3. [row EXCEPT !.order = n, !.version = @ + 1] \in LayerRows
  BY <1>1, <1>2
<1> QED  BY <1>3 DEF LayerRows

(* A layer that moves among its siblings only gets another order, as does    *)
(* every sibling that gets out of its way.                                   *)
LEMMA MovedRowsKeep ==
  ASSUME TablesOK, TreeSound, NEW op \in Asked, op.layer \in Existing
  PROVE  /\ MovedRows(op) \in RowSets
         /\ \A k \in Layers \cup {0} : MovedRows(op)[k] # NoLayer =>
              /\ k \in Existing
              /\ MovedRows(op)[k].mode = layer[k].mode /\ MovedRows(op)[k].parent = layer[k].parent
              /\ MovedRows(op)[k].text = layer[k].text
              /\ MovedRows(op)[k].version = layer[k].version + 1
<1> DEFINE siblings == {k \in Existing : layer[k].parent = layer[op.layer].parent}
           from == Position(op.layer, siblings)
           to == from + op.direction
           after == [k \in siblings |->
             IF k = op.layer THEN to ELSE IF Position(k, siblings) = to THEN from ELSE Position(k, siblings)]
           changed == {k \in siblings : k = op.layer \/ layer[k].order # after[k]}
           moved == [k \in Layers \cup {0} |->
              IF k \in changed THEN [layer[k] EXCEPT !.order = after[k], !.version = @ + 1] ELSE NoLayer]
<1>1. siblings \subseteq Existing /\ changed \subseteq Existing /\ IsFiniteSet(siblings)
  BY LayerFacts, FS_Subset
<1>2. \A k : Position(k, siblings) \in Nat
  <2> HIDE DEF siblings
  <2>1. ASSUME NEW k  PROVE Position(k, siblings) \in Nat
    <3> DEFINE B == {j \in siblings : Before(j, k)}
    <3>1. B \in SUBSET siblings
      OBVIOUS
    <3>2. Position(k, siblings) = Cardinality(B)
      BY DEF Position
    <3> HIDE DEF B
    <3>3. IsFiniteSet(B)
      BY <1>1, <3>1, FS_Subset
    <3> QED  BY <3>2, <3>3, FS_CardinalityType
  <2> QED  BY <2>1
<1>3. op.direction \in Int
  BY DEF Asked
<1>4. \A k \in changed : after[k] \in Int
  BY <1>2, <1>3
<1>5. MovedRows(op) = moved \/ MovedRows(op) = NoRows
  BY DEF MovedRows
<1> HIDE DEF from, to, after, changed
<1>6. ASSUME NEW k \in changed
      PROVE  /\ moved[k] \in LayerRows /\ moved[k].mode = layer[k].mode /\ moved[k].parent = layer[k].parent
             /\ moved[k].text = layer[k].text /\ moved[k].version = layer[k].version + 1
  <2>1. k \in Layers /\ layer[k] \in LayerRows /\ layer[k].version \in Nat /\ after[k] \in Int
    BY <1>1, <1>4, <1>6, LayerFacts
  <2>2. moved[k] = [layer[k] EXCEPT !.order = after[k], !.version = @ + 1]
    BY <1>6, <2>1
  <2> HIDE DEF moved
  <2>3. PICK row \in LayerRows : row = layer[k]
    BY <2>1
  <2>4. PICK n \in Int : n = after[k]
    BY <2>1
  <2>5. row.version \in Nat /\ moved[k] = [row EXCEPT !.order = n, !.version = @ + 1]
    BY <2>1, <2>2, <2>3, <2>4
  <2>6. /\ moved[k] \in LayerRows /\ moved[k].mode = row.mode /\ moved[k].parent = row.parent
        /\ moved[k].text = row.text /\ moved[k].version = row.version + 1
    BY <2>5, Reordered
  <2> QED  BY <2>3, <2>6
<1>7. NoLayer \in LayerRows
  BY DEF NoLayer, LayerRows
<1>8. moved \in RowSets
  <2>1. \A k \in Layers \cup {0} : moved[k] = NoLayer \/ k \in changed
    OBVIOUS
  <2>2. moved = [k \in Layers \cup {0} |-> moved[k]]
    OBVIOUS
  <2> HIDE DEF moved
  <2>3. \A k \in Layers \cup {0} : moved[k] \in LayerRows
    BY <1>6, <1>7, <2>1
  <2> QED  BY <2>2, <2>3 DEF RowSets
<1>9. \A k \in Layers \cup {0} : moved[k] # NoLayer => k \in changed
  OBVIOUS
<1> HIDE DEF moved
<1>10. CASE MovedRows(op) = moved
  BY <1>1, <1>6, <1>8, <1>9, <1>10
<1>11. CASE MovedRows(op) = NoRows
  BY <1>11, IdleRequest DEF NoRows
<1> QED  BY <1>5, <1>10, <1>11

(* The rows a permitted request computes are rows.                           *)
LEMMA RowsTyped ==
  ASSUME TablesOK, TreeSound, NEW op \in Asked, AsksWell(op), NEW seen, Permitted(op, seen)
  PROVE  Rows(op) \in RowSets
<1>1. NoRows \in RowSets
  BY IdleRequest
<1>2. op.parent \in Layers \cup {None}
  BY DEF Asked
<1>3. CASE op.kind = "create"
  <2>1. [mode |-> op.mode, parent |-> op.parent, text |-> op.text, order |-> 0, version |-> 1] \in LayerRows
    BY <1>2, <1>3 DEF LayerRows, AsksWell
  <2>2. CreatedRows(op) \in RowSets
    BY <1>1, <2>1 DEF CreatedRows, RowSets
  <2> QED  BY <1>3, <2>2 DEF Rows
<1>4. ASSUME op.kind \in {"save", "delete", "move", "member"}  PROVE op.layer \in Existing
  BY <1>4 DEF Permitted, SavePermitted, LayerSeen
<1>5. CASE op.kind = "save"
  <2>1. layer[op.layer].version \in Nat
    BY <1>4, <1>5, LayerFacts
  <2>2. [mode |-> op.mode, parent |-> op.parent, text |-> op.text, order |-> 0,
         version |-> layer[op.layer].version + 1] \in LayerRows
    BY <1>2, <1>5, <2>1 DEF LayerRows, AsksWell
  <2>3. SavedRows(op) \in RowSets
    BY <1>1, <2>2 DEF SavedRows, RowSets
  <2> QED  BY <1>5, <2>3 DEF Rows
<1>6. CASE op.kind = "move"
  BY <1>4, <1>6, MovedRowsKeep DEF Rows
<1>7. CASE op.kind \in {"delete", "member"}
  <2>1. layer[op.layer] \in LayerRows
    BY <1>4, <1>7, LayerFacts
  <2>2. [NoRows EXCEPT ![op.layer] = layer[op.layer]] \in RowSets
    BY <1>1, <2>1 DEF RowSets
  <2> QED  BY <1>7, <2>2 DEF Rows
<1>8. CASE op.kind \notin {"create", "save", "move", "delete", "member"}
  BY <1>1, <1>8 DEF Rows
<1> QED  BY <1>3, <1>5, <1>6, <1>7, <1>8

-----------------------------------------------------------------------------
(* What tables may become                                                    *)

(* Tables that are typed and sound.                                          *)
TablesSound == TablesOK /\ TreeSound /\ MembersSound /\ RowsSound

(* Ids are not used again, and what is there was there, as it is now or with *)
(* an earlier version.                                                       *)
Grown ==
  /\ \A l \in Layers : layer[l].mode # "unused" =>
       /\ layer'[l].mode # "unused"
       /\ l \in Existing' => l \in Existing /\ Since(layer[l], layer'[l])
  /\ \A t \in Targets : object[t].state # "unused" =>
       /\ object'[t].state # "unused"
       /\ t \in There' => t \in There /\ Since(passport[t], passport'[t])
       /\ t \in There' \ Houses /\ object'[t] = object[t] => passport'[t] = passport[t]
       /\ t \in There' /\ t \in Houses => object'[t] = object[t]
       /\ t \in There' /\ t \notin Houses => Since(object[t], object'[t])
  /\ \A u \in Users : Since(preference[u], preference'[u])

(* A layer that is what it was has the members that are still there.         *)
MembersFollow ==
  \A l \in Existing \cap Existing' :
    layer'[l] = layer[l] => Members(l)' = Members(l) \cap There'

(* A step of the tables.                                                     *)
Step == TablesSound' /\ Grown /\ MembersFollow

(* Later than later is later.                                                *)
LEMMA SinceIsTransitive ==
  ASSUME NEW x, NEW y, NEW z, x.version \in Nat, y.version \in Nat, z.version \in Nat,
         Since(x, y), Since(y, z)
  PROVE  Since(x, z)
BY DEF Since

(* What a client has seen is remembered through any step.                    *)
LEMMA Remembered ==
  ASSUME TablesOK, TablesOK', Grown, NEW r \in Requests, Remembers(r)
  PROVE  Remembers(r)'
<1>1. /\ r.op.layer \in Layers \cup {None} /\ r.op.target \in Targets \cup {None}
      /\ r.op.user \in Users \cup {None}
      /\ r.seen.layer.version \in Nat /\ r.seen.object.version \in Nat
      /\ r.seen.passport.version \in Nat /\ r.seen.preference.version \in Nat
  BY RequestTypes DEF LayerRows, ObjectRows, PassportRows, PreferenceRows
<1>2. /\ \A l \in Layers : layer[l].version \in Nat /\ layer'[l].version \in Nat
      /\ \A t \in Targets : /\ object[t].version \in Nat /\ object'[t].version \in Nat
                            /\ passport[t].version \in Nat /\ passport'[t].version \in Nat
      /\ \A u \in Users : preference[u].version \in Nat /\ preference'[u].version \in Nat
  BY DEF TablesOK, LayerRows, ObjectRows, PassportRows, PreferenceRows
<1>3. ASSUME r.op.layer # None
      PROVE  /\ layer'[r.op.layer].mode # "unused"
             /\ r.op.layer \in Existing' => Since(r.seen.layer, layer'[r.op.layer])
  <2>1. /\ r.op.layer \in Layers /\ layer[r.op.layer].mode # "unused"
        /\ r.op.layer \in Existing => Since(r.seen.layer, layer[r.op.layer])
    BY <1>1, <1>3 DEF Remembers
  <2>2. /\ layer'[r.op.layer].mode # "unused"
        /\ r.op.layer \in Existing' => r.op.layer \in Existing /\ Since(layer[r.op.layer], layer'[r.op.layer])
    BY <2>1 DEF Grown
  <2> QED  BY <1>1, <1>2, <2>1, <2>2, SinceIsTransitive
<1>4. ASSUME r.op.target # None
      PROVE  /\ object'[r.op.target].state # "unused"
             /\ r.op.target \in There' /\ r.op.target \in Houses => object'[r.op.target] = r.seen.object
             /\ r.op.target \in There' /\ r.op.target \notin Houses =>
                  Since(r.seen.object, object'[r.op.target])
             /\ r.op.target \in There' => Since(r.seen.passport, passport'[r.op.target])
             /\ r.op.target \in There' \ Houses /\ object'[r.op.target] = r.seen.object =>
                  passport'[r.op.target] = r.seen.passport
  <2>1. /\ r.op.target \in Targets /\ object[r.op.target].state # "unused"
        /\ r.op.target \in There /\ r.op.target \in Houses => object[r.op.target] = r.seen.object
        /\ r.op.target \in There /\ r.op.target \notin Houses => Since(r.seen.object, object[r.op.target])
        /\ r.op.target \in There => Since(r.seen.passport, passport[r.op.target])
        /\ r.op.target \in There \ Houses /\ object[r.op.target] = r.seen.object =>
             passport[r.op.target] = r.seen.passport
    BY <1>1, <1>4 DEF Remembers
  <2>2. /\ object'[r.op.target].state # "unused"
        /\ r.op.target \in There' => /\ r.op.target \in There
                                     /\ Since(passport[r.op.target], passport'[r.op.target])
        /\ r.op.target \in There' /\ r.op.target \in Houses => object'[r.op.target] = object[r.op.target]
        /\ r.op.target \in There' /\ r.op.target \notin Houses =>
             Since(object[r.op.target], object'[r.op.target])
        /\ r.op.target \in There' \ Houses /\ object'[r.op.target] = object[r.op.target] =>
             passport'[r.op.target] = passport[r.op.target]
    BY <2>1 DEF Grown
  <2>3. r.op.target \in There' \ Houses /\ object'[r.op.target] = r.seen.object =>
          passport'[r.op.target] = r.seen.passport
    BY <1>1, <1>2, <2>1, <2>2 DEF Since
  <2> QED  BY <1>1, <1>2, <2>1, <2>2, <2>3, SinceIsTransitive
<1>5. ASSUME r.op.user # None  PROVE Since(r.seen.preference, preference'[r.op.user])
  <2>1. Since(r.seen.preference, preference[r.op.user]) /\ r.op.user \in Users
    BY <1>1, <1>5 DEF Remembers
  <2>2. Since(preference[r.op.user], preference'[r.op.user])
    BY <2>1 DEF Grown
  <2> QED  BY <1>1, <1>2, <2>1, <2>2, SinceIsTransitive
<1> QED  BY <1>3, <1>4, <1>5 DEF Remembers

(* What a step may do to one row.                                            *)
LayerStep(l) ==
  \/ layer'[l] = layer[l]
  \/ l \in Existing /\ l \in Existing' /\ layer'[l].version > layer[l].version
  \/ l \in Existing /\ layer'[l] = Deleted
  \/ l \in Unused /\ l \in Existing' /\ layer'[l].version > 0

ObjectStep(t) ==
  \/ object'[t] = object[t]
  \/ /\ t \in There \ Houses /\ t \in There' /\ object'[t].version > object[t].version
     /\ t \notin Markers => object'[t].house = None
  \/ t \in There /\ object'[t] = Erased
  \/ /\ object[t] = NoObject /\ t \in There' /\ object'[t].version > 0
     /\ t \notin Markers => object'[t].house = None

PassportStep(t) ==
  t \in There' => \/ passport'[t] = passport[t]
                  \/ /\ passport'[t].version > passport[t].version
                     /\ t \in Houses \/ object'[t] # object[t]

PreferenceStep(u) ==
  preference'[u] = preference[u] \/ preference'[u].version > preference[u].version

(* Row by row, the tables stay sound and grow.                               *)
LEMMA RowByRow ==
  ASSUME TablesSound, TablesOK', TreeSound', MembersSound', MembersFollow,
         \A l \in Layers : LayerStep(l), \A t \in Targets : ObjectStep(t) /\ PassportStep(t),
         \A u \in Users : PreferenceStep(u)
  PROVE  Step
<1> USE DEF TablesSound
<1>1. ASSUME NEW l \in Layers
      PROVE  /\ l \notin Existing' => layer'[l] \in {NoLayer, Deleted}
             /\ l \in Existing' => layer'[l].version > 0
             /\ layer[l].mode # "unused" =>
                  /\ layer'[l].mode # "unused"
                  /\ l \in Existing' => l \in Existing /\ Since(layer[l], layer'[l])
  <2>1. /\ l \notin Existing => layer[l] \in {NoLayer, Deleted}
        /\ l \in Existing => layer[l].version > 0 /\ layer[l].version \in Nat /\ layer'[l].version \in Nat
    BY DEF RowsSound, TablesOK, LayerRows, Existing
  <2>2. Deleted.mode = "deleted"
    BY DEF Deleted, NoLayer
  <2>3. /\ l \in Existing <=> layer[l].mode \in Modes
        /\ l \in Existing' <=> layer'[l].mode \in Modes
        /\ "unused" \notin Modes /\ "deleted" \notin Modes
        /\ l \in Unused <=> layer[l].mode = "unused"
    BY DEF Existing, Unused, Modes
  <2>4. LayerStep(l)
    OBVIOUS
  <2> QED  BY <2>1, <2>2, <2>3, <2>4 DEF LayerStep, Since
<1>2. ASSUME NEW t \in Targets
      PROVE  /\ t \notin There' => object'[t] \in {NoObject, Erased}
             /\ t \in There' => object'[t].version > 0
             /\ t \notin Markers => object'[t].house = None
             /\ object[t].state # "unused" =>
                  /\ object'[t].state # "unused"
                  /\ t \in There' => t \in There /\ Since(passport[t], passport'[t])
                  /\ t \in There' \ Houses /\ object'[t] = object[t] => passport'[t] = passport[t]
                  /\ t \in There' /\ t \in Houses => object'[t] = object[t]
                  /\ t \in There' /\ t \notin Houses => Since(object[t], object'[t])
  <2>1. /\ t \notin There => object[t] \in {NoObject, Erased}
        /\ t \in There => object[t].version > 0
        /\ t \notin Markers => object[t].house = None
        /\ passport[t].version \in Nat /\ passport'[t].version \in Nat
        /\ object[t].version \in Nat /\ object'[t].version \in Nat
    BY DEF RowsSound, TablesOK, ObjectRows, PassportRows
  <2>2. Erased.state = "gone" /\ Erased.house = None /\ NoObject.state = "unused" /\ NoObject.house = None
    BY DEF Erased, NoObject
  <2>3. /\ t \in There <=> object[t].state = "there"
        /\ t \in There' <=> object'[t].state = "there"
    BY DEF There
  <2>4. ObjectStep(t) /\ PassportStep(t)
    OBVIOUS
  <2> QED  BY <2>1, <2>2, <2>3, <2>4 DEF ObjectStep, PassportStep, Since
<1>3. \A u \in Users : Since(preference[u], preference'[u])
  <2>1. \A u \in Users : preference[u].version \in Nat /\ preference'[u].version \in Nat
    BY DEF TablesOK, PreferenceRows
  <2> QED  BY <2>1 DEF PreferenceStep, Since
<1>4. RowsSound'
  <2>1. Existing' \subseteq Layers /\ There' \subseteq Targets
    BY DEF Existing, There
  <2> QED  BY <1>1, <1>2, <2>1 DEF RowsSound
<1>5. Grown
  BY <1>1, <1>2, <1>3 DEF Grown
<1> QED  BY <1>4, <1>5 DEF Step

(* Where a request stands when it has the lock of the company.               *)
Holding == {"locked", "rows"}

(* What is known of a request that is about to commit.                       *)
LEMMA AboutToCommit ==
  ASSUME WorkspaceInductive, NEW w \in Workers, At(w, "locked") \/ At(w, "rows")
  PROVE  /\ TablesSound /\ req[w] \in Requests /\ Op(w) \in Asked
         /\ AsksWell(Op(w)) /\ Remembers(req[w]) /\ StillPermits(req[w])
<1>1. TablesSound
  BY DEF WorkspaceInductive, LayersSound, TypeOK, TablesSound
<1>2. req[w] \in Requests
  BY DEF WorkspaceInductive, LayersSound, TypeOK
<1>3. RequestOK(w) /\ ~At(w, "idle") /\ HasCompany(w)
  BY DEF WorkspaceInductive, At, HasCompany
<1> QED  BY <1>1, <1>2, <1>3, RequestTypes DEF RequestOK, Op

(* Unchanged objects, passports and settings.                                *)
LEMMA RestUnchanged ==
  ASSUME TablesSound, UNCHANGED <<object, passport, preference>>
  PROVE  /\ \A t \in Targets : ObjectStep(t) /\ PassportStep(t)
         /\ \A u \in Users : PreferenceStep(u)
         /\ There' = There
  BY DEF ObjectStep, PassportStep, PreferenceStep, There

(* A save that the walks of the proposed tree allow, and a move among siblings. *)
LEMMA WriteRowsStep ==
  ASSUME WorkspaceInductive, NEW w \in Workers, WriteRows(w)
  PROVE  Step
<1>1. At(w, "locked") /\ Op(w).kind \in {"save", "move"} /\ UNCHANGED <<member, object, passport, preference>>
  BY DEF WriteRows, Commits
<1>2. PICK r : r = req[w]
  OBVIOUS
<1>3. PICK op : op = r.op
  OBVIOUS
<1>4. /\ TablesSound /\ op \in Asked /\ AsksWell(op) /\ r.rows = Rows(op) /\ Permitted(op, r.seen)
      /\ op.kind \in {"save", "move"}
  BY <1>1, <1>2, <1>3, AboutToCommit DEF StillPermits, Op
<1>5. layer' = [l \in Layers |-> IF r.rows[l] # NoLayer THEN r.rows[l] ELSE layer[l]]
  BY <1>2 DEF WriteRows
<1>6. op.layer \in Existing /\ op.layer \in Layers
  BY <1>4 DEF Permitted, SavePermitted, LayerSeen, Existing
<1>7. \A l \in Existing : /\ layer[l] \in LayerRows /\ layer[l].version \in Nat /\ layer[l].mode \in Modes
                          /\ layer[l].parent \in Existing \cup {None}
  BY <1>4, LayerFacts DEF TablesSound
<1>8. r.rows \in RowSets
  BY <1>4, RowsTyped DEF TablesSound
<1>9. ASSUME NEW l \in Layers, r.rows[l] # NoLayer
      PROVE  /\ l \in Existing /\ r.rows[l].mode = layer[l].mode
             /\ r.rows[l].version = layer[l].version + 1
             /\ op.kind = "move" => r.rows[l].parent = layer[l].parent
  <2>1. CASE op.kind = "save"
    <3>1. r.rows = SavedRows(op) /\ op.mode = layer[op.layer].mode
      BY <1>4, <2>1 DEF Rows, Permitted, SavePermitted
    <3>2. l = op.layer
      BY <1>9, <3>1 DEF SavedRows, NoRows
    <3>3. r.rows[l] = [mode |-> op.mode, parent |-> op.parent, text |-> op.text, order |-> 0,
                       version |-> layer[op.layer].version + 1]
      BY <3>1, <3>2 DEF SavedRows, NoRows
    <3> QED  BY <1>6, <2>1, <3>1, <3>2, <3>3
  <2>2. CASE op.kind = "move"
    <3>1. r.rows = MovedRows(op)
      BY <1>4, <2>2 DEF Rows
    <3> QED  BY <1>4, <1>6, <1>9, <3>1, MovedRowsKeep DEF TablesSound
  <2> QED  BY <1>4, <2>1, <2>2
<1>10. layer' \in [Layers -> LayerRows]
  BY <1>4, <1>5, <1>8 DEF TablesSound, TablesOK, RowSets
<1>11. \A l \in Layers : layer'[l].mode = layer[l].mode
  BY <1>5, <1>9
<1>12. Existing' = Existing
  BY <1>11 DEF Existing
<1>13. \A l \in Layers : LayerStep(l)
  BY <1>5, <1>7, <1>9, <1>12 DEF LayerStep
<1>14. TreeSound'
  <2>1. CASE op.kind = "move"
    <3>1. \A l \in Existing : layer'[l].parent = layer[l].parent
      BY <1>5, <1>9, <2>1 DEF Existing
    <3> QED  BY <1>4, <1>11, <1>12, <3>1, SameTree DEF TablesSound, Existing
  <2>2. CASE op.kind = "save"
    <3>1. SavePermitted(op, r.seen) /\ r.rows = SavedRows(op)
      BY <1>4, <2>2 DEF Permitted, Rows
    <3>2. \A l \in Existing : layer'[l].parent = IF l = op.layer THEN op.parent ELSE layer[l].parent
      <4>1. SavedRows(op)[op.layer].parent = op.parent /\ SavedRows(op)[op.layer].mode = op.mode
        BY <1>6 DEF SavedRows, NoRows
      <4>2. \A l \in Layers : l # op.layer => SavedRows(op)[l] = NoLayer
        BY DEF SavedRows, NoRows
      <4>3. op.mode \in Modes /\ NoLayer.mode \notin Modes
        BY <1>4, <2>2 DEF AsksWell, NoLayer, Modes
      <4> QED  BY <1>5, <1>6, <3>1, <4>1, <4>2, <4>3 DEF Existing
    <3>3. Parents' = Proposed(op.layer, op.parent)
      <4>1. Existing \cup {op.layer} = Existing
        BY <1>6
      <4> QED  BY <1>12, <3>2, <4>1 DEF Parents, Proposed
    <3>4. \A l \in Existing : EndsInTime(Parents', l)
      BY <3>1, <3>3 DEF SavePermitted, TreeEnds
    <3>5. \A l \in Existing : ParentFits(layer[l].parent)'
      <4>1. \A l \in Existing : layer[l].parent # None =>
              layer[l].parent \in Existing /\ layer[layer[l].parent].mode = "group"
        BY <1>4 DEF TablesSound, TreeSound, ParentFits
      <4>2. op.parent # None => op.parent \in Existing /\ layer[op.parent].mode = "group"
        BY <3>1 DEF SavePermitted, ParentFits
      <4>3. \A k \in Existing : layer'[k].mode = layer[k].mode
        BY <1>11 DEF Existing
      <4> QED  BY <1>12, <3>2, <4>1, <4>2, <4>3 DEF ParentFits
    <3>6. Cardinality(Existing) <= MaxLayers
      BY <1>4 DEF TablesSound, TreeSound
    <3> QED  BY <1>12, <3>4, <3>5, <3>6 DEF TreeSound
  <2> QED  BY <1>4, <2>1, <2>2
<1>15. TablesOK'
  BY <1>1, <1>4, <1>10 DEF TablesSound, TablesOK
<1>16. \A l \in Layers : Members(l)' = Members(l)
  BY <1>1 DEF Members
<1>17. There' = There
  BY <1>1 DEF There
<1>18. MembersSound'
  BY <1>4, <1>11, <1>16, <1>17 DEF TablesSound, MembersSound
<1>19. MembersFollow
  <2>1. \A l \in Existing : Members(l) \subseteq There
    BY <1>4 DEF TablesSound, MembersSound, Existing
  <2> QED  BY <1>16, <1>17, <2>1 DEF MembersFollow, Existing
<1> QED  BY <1>1, <1>4, <1>13, <1>14, <1>15, <1>18, <1>19, RestUnchanged, RowByRow

(* The next id is one that was never used.                                   *)
LEMMA NextIsUnused ==
  ASSUME Unused # {}
  PROVE  NextLayer \in Unused /\ NextLayer \in Layers /\ NextLayer \notin Existing /\ NextLayer # 0
<1>1. Unused \in SUBSET Nat
  BY LayerAssumption DEF Unused
<1>2. \E l \in Unused : \A k \in Unused : l <= k
  BY <1>1, LeastNumber
<1>3. NextLayer \in Unused
  BY <1>2 DEF NextLayer
<1> QED  BY <1>3, LayerAssumption DEF Unused, Existing, Modes

(* A new layer is a leaf: no walk of the others meets it.                    *)
LEMMA InsertLayerStep ==
  ASSUME WorkspaceInductive, NEW w \in Workers, InsertLayer(w)
  PROVE  Step
<1>1. /\ At(w, "locked") /\ Op(w).kind = "create" /\ Unused # {}
      /\ UNCHANGED <<member, object, passport, preference>>
  BY DEF InsertLayer, Commits
<1>2. PICK r : r = req[w]
  OBVIOUS
<1>3. PICK op : op = r.op
  OBVIOUS
<1>4. PICK n : n = NextLayer
  OBVIOUS
<1>5. /\ TablesSound /\ op \in Asked /\ AsksWell(op) /\ r.rows = CreatedRows(op) /\ CreatePermitted(op)
      /\ op.kind = "create"
  BY <1>1, <1>2, <1>3, AboutToCommit DEF StillPermits, Op, Rows, Permitted
<1>6. n \in Unused /\ n \in Layers /\ n \notin Existing /\ n # 0 /\ 0 \notin Layers
  BY <1>1, <1>4, NextIsUnused, LayerAssumption
<1> DEFINE row == [mode |-> op.mode, parent |-> op.parent, text |-> op.text, order |-> 0, version |-> 1]
<1>7. layer' = [layer EXCEPT ![n] = row]
  <2>1. r.rows[0] = row
    BY <1>5 DEF CreatedRows, NoRows
  <2> QED  BY <1>2, <1>4, <2>1 DEF InsertLayer
<1>8. row \in LayerRows /\ row.mode \in Modes /\ row.parent = op.parent /\ row.version = 1
  <2>1. op.parent \in Layers \cup {None} /\ op.mode \in Modes /\ op.text \in Texts
    BY <1>5 DEF Asked, AsksWell
  <2> QED  BY <2>1 DEF LayerRows
<1> HIDE DEF row
<1>9. /\ layer' \in [Layers -> LayerRows] /\ layer'[n] = row
      /\ \A l \in Layers : l # n => layer'[l] = layer[l]
  BY <1>5, <1>6, <1>7, <1>8 DEF TablesSound, TablesOK
<1>10. Existing' = Existing \cup {n}
  BY <1>6, <1>8, <1>9 DEF Existing
<1>11. \A l \in Layers : LayerStep(l)
  BY <1>6, <1>8, <1>9, <1>10 DEF LayerStep
<1>12. /\ Existing \subseteq Layers /\ IsFiniteSet(Existing) /\ None \notin Existing
       /\ Parents \in [Existing -> Existing \cup {None}]
       /\ \A l \in Existing : layer[l].parent \in Existing \cup {None}
  BY <1>5, LayerFacts DEF TablesSound
<1>13. op.parent \in Existing \cup {None} /\ ParentFits(op.parent)
  BY <1>5 DEF CreatePermitted, ParentFits
<1>14. None \notin Existing \cup {0} /\ None \notin Existing \cup {n}
  BY <1>6, <1>12, TargetAssumption
<1> DEFINE p == Proposed(0, op.parent)
           q == Parents'
<1>15. /\ p \in [Existing \cup {0} -> (Existing \cup {0}) \cup {None}] /\ p[0] = op.parent
       /\ \A l \in Existing : p[l] = layer[l].parent
  BY <1>6, <1>12, <1>13 DEF Proposed
<1>16. /\ q \in [Existing \cup {n} -> (Existing \cup {n}) \cup {None}] /\ q[n] = op.parent
       /\ \A l \in Existing : q[l] = layer[l].parent
  <2>1. layer'[n].parent = op.parent /\ \A l \in Existing : layer'[l].parent = layer[l].parent
    BY <1>6, <1>8, <1>9, <1>12
  <2>2. q = [l \in Existing \cup {n} |-> layer'[l].parent]
    BY <1>10 DEF Parents
  <2> QED  BY <1>12, <1>13, <2>1, <2>2
<1>17. \A l \in Existing \cup {0} : EndsInTime(p, l)
  BY <1>5 DEF CreatePermitted, TreeEnds
<1> HIDE DEF p, q
<1>18. (Existing \cup {0}) \cap (Existing \cup {n}) = Existing
  BY <1>6, <1>12
<1>19. \A x \in Existing : q[x] \in Existing \cup {None} /\ q[x] \in {p[x], Above(p, p[x])}
  BY <1>12, <1>15, <1>16
<1>20. ASSUME NEW l \in Existing \cup {n}  PROVE EndsInTime(q, l)
  <2>1. PICK a \in Existing \cup {0} : a = IF l = n THEN 0 ELSE l
    BY <1>20
  <2>2. Above(q, l) = Above(p, a) /\ Above(q, l) \in Existing \cup {None}
    BY <1>6, <1>12, <1>13, <1>15, <1>16, <2>1 DEF Above
  <2>3. EndsInTime(p, a)
    BY <1>17, <2>1
  <2> DEFINE S == Existing \cup {0}
             T == Existing \cup {n}
  <2>4. /\ None \notin S /\ None \notin T /\ a \in S \cup {None} /\ l \in T \cup {None}
        /\ p \in [S -> S \cup {None}] /\ q \in [T -> T \cup {None}]
    BY <1>14, <1>15, <1>16
  <2>5. /\ Above(q, l) \in (S \cap T) \cup {None} /\ Above(q, l) \in {Above(p, a), Above(p, Above(p, a))}
        /\ \A x \in S \cap T : q[x] \in (S \cap T) \cup {None} /\ q[x] \in {p[x], Above(p, p[x])}
    BY <1>18, <1>19, <2>2
  <2> HIDE DEF S, T
  <2> QED  BY <2>3, <2>4, <2>5, Shorter
<1>21. TreeSound'
  <2>1. \A l \in Existing' : EndsInTime(Parents', l)
    BY <1>10, <1>20 DEF q
  <2>2. \A l \in Existing' : ParentFits(layer[l].parent)'
    <3>1. \A l \in Existing : layer[l].parent # None =>
            layer[l].parent \in Existing /\ layer[layer[l].parent].mode = "group"
      BY <1>5 DEF TablesSound, TreeSound, ParentFits
    <3>2. op.parent # None => op.parent \in Existing /\ layer[op.parent].mode = "group"
      BY <1>13 DEF ParentFits
    <3>3. \A l \in Existing : layer'[l] = layer[l]
      BY <1>6, <1>9, <1>12
    <3> QED  BY <1>8, <1>9, <1>10, <3>1, <3>2, <3>3 DEF ParentFits
  <2>3. Cardinality(Existing') <= MaxLayers
    <3>1. Cardinality(Existing \cup {n}) = Cardinality(Existing) + 1
      BY <1>6, <1>12, FS_AddElement
    <3>2. Cardinality(Existing) \in Nat
      BY <1>12, FS_CardinalityType
    <3>3. Cardinality(Existing) < MaxLayers
      BY <1>5 DEF CreatePermitted
    <3> QED  BY <1>10, <3>1, <3>2, <3>3, LimitAssumption
  <2> QED  BY <2>1, <2>2, <2>3 DEF TreeSound
<1>22. TablesOK'
  BY <1>1, <1>5, <1>9 DEF TablesSound, TablesOK
<1>23. \A l \in Layers : Members(l)' = Members(l)
  BY <1>1 DEF Members
<1>24. There' = There
  BY <1>1 DEF There
<1>25. MembersSound'
  <2>1. \A l \in Layers : Members(l) # {} => layer[l].mode = "manual" /\ Members(l) \subseteq There
    BY <1>5 DEF TablesSound, MembersSound
  <2>2. Members(n) = {}
    BY <1>6, <2>1 DEF Unused
  <2> QED  BY <1>9, <1>23, <1>24, <2>1, <2>2 DEF MembersSound
<1>26. MembersFollow
  <2>1. \A l \in Existing : Members(l) \subseteq There
    BY <1>5 DEF TablesSound, MembersSound, Existing
  <2> QED  BY <1>12, <1>23, <1>24, <2>1 DEF MembersFollow
<1> QED  BY <1>1, <1>5, <1>11, <1>21, <1>22, <1>25, <1>26, RestUnchanged, RowByRow

(* The children of a deleted group move up: every walk gets shorter.         *)
LEMMA DeleteLayerStep ==
  ASSUME WorkspaceInductive, NEW w \in Workers, DeleteLayer(w)
  PROVE  Step
<1>1. /\ At(w, "locked") /\ Op(w).kind = "delete"
      /\ UNCHANGED <<object, passport, preference>>
  BY DEF DeleteLayer, Commits
<1>2. PICK r : r = req[w]
  OBVIOUS
<1>3. PICK l : l = r.op.layer
  OBVIOUS
<1>4. /\ TablesSound /\ r.rows = [NoRows EXCEPT ![l] = layer[l]] /\ l \in Existing
  BY <1>1, <1>2, <1>3, AboutToCommit DEF StillPermits, Op, Rows, Permitted, LayerSeen
<1>5. PICK g : g = layer[l].parent
  OBVIOUS
<1>6. /\ Existing \subseteq Layers /\ IsFiniteSet(Existing) /\ None \notin Existing
      /\ Parents \in [Existing -> Existing \cup {None}]
      /\ \A k \in Existing : layer[k].parent \in Existing \cup {None}
  BY <1>4, LayerFacts DEF TablesSound
<1>7. layer' = Lift(l, g) /\ member' = {lt \in member : lt[1] # l}
  <2>1. r.rows[l] = layer[l]
    BY <1>4, <1>6 DEF NoRows
  <2> QED  BY <1>2, <1>3, <1>5, <2>1 DEF DeleteLayer, Op
<1>8. \A k \in Existing : EndsInTime(Parents, k)
  BY <1>4 DEF TablesSound, TreeSound
<1>9. \A k \in Existing : Parents[k] = layer[k].parent
  BY DEF Parents
<1>10. \A k \in Existing : layer[k].parent # k
  BY <1>6, <1>8, <1>9, NotOwnParent
<1>11. g \in Existing \cup {None} /\ g # l
  BY <1>4, <1>5, <1>6, <1>10
<1>12. ASSUME NEW k \in Layers
       PROVE  /\ k = l => layer'[k] = Deleted
              /\ k # l /\ k \in Children(l) =>
                   layer'[k] = [layer[k] EXCEPT !.parent = g, !.version = @ + 1]
              /\ k # l /\ k \notin Children(l) => layer'[k] = layer[k]
  BY <1>7 DEF Lift
<1>13. Children(l) = {k \in Existing : layer[k].parent = l}
  BY DEF Children
<1>14. ASSUME NEW k \in Layers, k # l, k \in Children(l)
       PROVE  /\ layer'[k] \in LayerRows /\ layer'[k].mode = layer[k].mode /\ layer'[k].parent = g
              /\ layer'[k].version = layer[k].version + 1 /\ layer[k].version \in Nat
  <2>1. layer[k] \in LayerRows
    BY <1>4 DEF TablesSound, TablesOK
  <2>2. layer[k].version + 1 \in Nat /\ layer[k].version \in Nat
    BY <2>1 DEF LayerRows
  <2>3. layer'[k] = [layer[k] EXCEPT !.parent = g, !.version = layer[k].version + 1]
    BY <1>12, <1>14
  <2>4. \A m \in Nat : [layer[k] EXCEPT !.parent = g, !.version = m] \in LayerRows
    BY <1>6, <1>11, <2>1 DEF LayerRows
  <2> QED  BY <2>1, <2>2, <2>3, <2>4 DEF LayerRows
<1>15. layer' \in [Layers -> LayerRows]
  <2>1. Deleted \in LayerRows
    BY DEF Deleted, NoLayer, LayerRows
  <2>2. \A k \in Layers : layer[k] \in LayerRows
    BY <1>4 DEF TablesSound, TablesOK
  <2>3. \A k \in Layers : layer'[k] \in LayerRows
    BY <1>12, <1>14, <2>1, <2>2
  <2>4. layer' = [k \in Layers |-> layer'[k]]
    BY <1>7 DEF Lift
  <2> QED  BY <2>3, <2>4
<1>16. \A k \in Existing : k # l => layer'[k].mode = layer[k].mode
  BY <1>6, <1>12, <1>14
<1>17. Existing' = Existing \ {l}
  <2>1. Deleted.mode \notin Modes
    BY DEF Deleted, NoLayer, Modes
  <2>2. \A k \in Layers : k \in Existing' <=> k \in Existing /\ k # l
    <3>1. ASSUME NEW k \in Layers, k # l  PROVE layer'[k].mode = layer[k].mode
      BY <1>12, <1>14, <3>1
    <3> QED  BY <1>12, <2>1, <3>1 DEF Existing
  <2>3. Existing' \subseteq Layers
    BY DEF Existing
  <2> QED  BY <1>6, <2>2, <2>3
<1>18. \A k \in Layers : LayerStep(k)
  <2>1. ASSUME NEW k \in Layers  PROVE LayerStep(k)
    <3>1. CASE k = l
      BY <1>4, <1>12, <3>1 DEF LayerStep
    <3>2. CASE k # l /\ k \in Children(l)
      <4>1. k \in Existing /\ k \in Existing'
        BY <1>13, <1>17, <3>2
      <4>2. layer'[k].version > layer[k].version
        BY <1>14, <3>2
      <4> QED  BY <4>1, <4>2 DEF LayerStep
    <3>3. CASE k # l /\ k \notin Children(l)
      BY <1>12, <3>3 DEF LayerStep
    <3> QED  BY <3>1, <3>2, <3>3
  <2> QED  BY <2>1
<1> DEFINE T == Existing \ {l}
           q == Parents'
<1>19. q = [k \in T |-> IF layer[k].parent = l THEN g ELSE layer[k].parent]
  <2>1. \A k \in T : layer'[k].parent = IF layer[k].parent = l THEN g ELSE layer[k].parent
    BY <1>6, <1>12, <1>13, <1>14
  <2>2. q = [k \in T |-> layer'[k].parent]
    BY <1>17 DEF Parents
  <2> QED  BY <2>1, <2>2
<1> HIDE DEF q
<1>20. q \in [T -> T \cup {None}] /\ None \notin T /\ Existing \cap T = T
  <2>1. \A k \in T : (IF layer[k].parent = l THEN g ELSE layer[k].parent) \in T \cup {None}
    BY <1>6, <1>11
  <2>2. None \notin T /\ Existing \cap T = T
    BY <1>6
  <2> HIDE DEF T
  <2> QED  BY <1>19, <2>1, <2>2
<1>21. ASSUME NEW x \in T
       PROVE  /\ q[x] \in T \cup {None} /\ q[x] \in {Parents[x], Above(Parents, Parents[x])}
              /\ Above(q, x) = q[x] /\ Above(Parents, x) = Parents[x]
  <2>1. Parents[x] = layer[x].parent /\ Above(Parents, x) = Parents[x]
    BY <1>6, <1>9 DEF Above
  <2>2. CASE layer[x].parent = l
    <3>1. q[x] = g /\ Above(Parents, l) = g
      BY <1>4, <1>5, <1>6, <1>9, <1>19, <2>2 DEF Above
    <3> QED  BY <1>20, <2>1, <2>2, <3>1 DEF Above
  <2>3. CASE layer[x].parent # l
    BY <1>19, <1>20, <2>1, <2>3 DEF Above
  <2> QED  BY <2>2, <2>3
<1>22. ASSUME NEW k \in T  PROVE EndsInTime(q, k)
  <2> HIDE DEF T
  <2>1. k \in Existing /\ EndsInTime(Parents, k)
    BY <1>8, <1>22 DEF T
  <2>2. /\ Above(q, k) \in (Existing \cap T) \cup {None}
        /\ Above(q, k) \in {Above(Parents, k), Above(Parents, Above(Parents, k))}
    BY <1>20, <1>21, <1>22
  <2>3. \A x \in Existing \cap T : /\ q[x] \in (Existing \cap T) \cup {None}
                                   /\ q[x] \in {Parents[x], Above(Parents, Parents[x])}
    BY <1>20, <1>21
  <2> QED  BY <1>6, <1>20, <2>1, <2>2, <2>3, Shorter
<1>23. TreeSound'
  <2>1. \A k \in Existing' : EndsInTime(Parents', k)
    BY <1>17, <1>22 DEF q
  <2>2. \A k \in Existing' : ParentFits(layer[k].parent)'
    <3>1. \A k \in Existing : layer[k].parent # None =>
            layer[k].parent \in Existing /\ layer[layer[k].parent].mode = "group"
      BY <1>4 DEF TablesSound, TreeSound, ParentFits
    <3>2. \A k \in T : layer'[k].parent = IF layer[k].parent = l THEN g ELSE layer[k].parent
      BY <1>6, <1>12, <1>13, <1>14
    <3>3. g # None => g \in T /\ layer'[g].mode = "group"
      BY <1>4, <1>5, <1>11, <1>16, <3>1
    <3>4. \A k \in T : layer[k].parent \notin {None, l} =>
            layer[k].parent \in T /\ layer'[layer[k].parent].mode = "group"
      BY <1>16, <3>1
    <3> QED  BY <1>17, <3>2, <3>3, <3>4 DEF ParentFits
  <2>3. Cardinality(Existing') <= MaxLayers
    <3>1. Cardinality(T) <= Cardinality(Existing) /\ IsFiniteSet(T)
      BY <1>6, FS_Subset
    <3>2. Cardinality(Existing) \in Nat /\ Cardinality(T) \in Nat
      BY <1>6, <3>1, FS_CardinalityType
    <3>3. Cardinality(Existing) <= MaxLayers
      BY <1>4 DEF TablesSound, TreeSound
    <3> QED  BY <1>17, <3>1, <3>2, <3>3, LimitAssumption
  <2> QED  BY <2>1, <2>2, <2>3 DEF TreeSound
<1>24. TablesOK'
  BY <1>1, <1>4, <1>7, <1>15 DEF TablesSound, TablesOK
<1>25. \A k \in Layers : Members(k)' = IF k = l THEN {} ELSE Members(k)
  BY <1>7 DEF Members
<1>26. There' = There
  BY <1>1 DEF There
<1>27. MembersSound'
  <2>1. \A k \in Layers : Members(k) # {} => layer[k].mode = "manual" /\ Members(k) \subseteq There
    BY <1>4 DEF TablesSound, MembersSound
  <2>2. \A k \in Layers : Members(k) # {} => k \in Existing
    BY <2>1 DEF Existing, Modes
  <2> QED  BY <1>16, <1>25, <1>26, <2>1, <2>2 DEF MembersSound
<1>28. MembersFollow
  <2>1. \A k \in Existing : Members(k) \subseteq There
    BY <1>4 DEF TablesSound, MembersSound, Existing
  <2> QED  BY <1>6, <1>17, <1>25, <1>26, <2>1 DEF MembersFollow
<1> QED  BY <1>1, <1>4, <1>18, <1>23, <1>24, <1>27, <1>28, RestUnchanged, RowByRow

(* Where layers are left alone, the tree stays sound.                        *)
LEMMA TreeUnchanged ==
  ASSUME TablesSound, UNCHANGED layer
  PROVE  /\ Existing' = Existing /\ TreeSound' /\ \A l \in Layers : LayerStep(l)
<1>1. Existing' = Existing
  BY DEF Existing
<1> QED  BY <1>1, SameTree DEF TablesSound, LayerStep

(* Members of layers that are there are on the map.                          *)
LEMMA MembersThere ==
  ASSUME TablesSound
  PROVE  /\ \A l \in Layers : Members(l) # {} =>
              layer[l].mode = "manual" /\ Members(l) \subseteq There /\ l \in Existing
         /\ \A l \in Layers : Members(l) \subseteq There
  BY DEF TablesSound, MembersSound, Existing, Modes

(* A manual layer gains a member that is on the map, or loses one.           *)
LEMMA SetMembershipStep ==
  ASSUME WorkspaceInductive, NEW w \in Workers, SetMembership(w)
  PROVE  Step
<1>1. /\ At(w, "locked") /\ Op(w).kind = "member"
      /\ UNCHANGED <<object, passport, preference>>
  BY DEF SetMembership, Commits
<1>2. PICK r : r = req[w]
  OBVIOUS
<1>3. PICK l : l = r.op.layer
  OBVIOUS
<1>4. PICK t : t = r.target
  OBVIOUS
<1>5. /\ TablesSound /\ r.rows = [NoRows EXCEPT ![l] = layer[l]] /\ l \in Existing
      /\ layer[l].mode = "manual" /\ t \in Targets
  BY <1>1, <1>2, <1>3, <1>4, AboutToCommit DEF StillPermits, Op, Rows, LayerSeen
<1>6. l \in Layers /\ layer[l] \in LayerRows /\ layer[l].version \in Nat
  BY <1>5, LayerFacts DEF TablesSound
<1>7. /\ layer' = [layer EXCEPT ![l].version = layer[l].version + 1]
      /\ Adds(w) => t \in There
      /\ member' = (member \cup IF Adds(w) THEN {<<l, t>>} ELSE {}) \ IF Removes(w) THEN {<<l, t>>} ELSE {}
  <2>1. r.rows[l] = layer[l]
    BY <1>5, <1>6 DEF NoRows
  <2> QED  BY <1>2, <1>3, <1>4, <2>1 DEF SetMembership, Op
<1>8. /\ layer' \in [Layers -> LayerRows] /\ layer'[l].version = layer[l].version + 1
      /\ layer'[l].mode = layer[l].mode /\ layer'[l].parent = layer[l].parent
      /\ \A k \in Layers : k # l => layer'[k] = layer[k]
  <2>1. layer \in [Layers -> LayerRows] /\ layer[l].version + 1 \in Nat
    BY <1>5, <1>6 DEF TablesSound, TablesOK
  <2>2. [layer[l] EXCEPT !.version = layer[l].version + 1] \in LayerRows
    BY <1>6, <2>1 DEF LayerRows
  <2>3. layer'[l] = [layer[l] EXCEPT !.version = layer[l].version + 1]
    BY <1>6, <1>7, <2>1
  <2>4. \A k \in Layers : k # l => layer'[k] = layer[k]
    BY <1>7, <2>1
  <2>5. layer' = [k \in Layers |-> layer'[k]]
    BY <1>7, <2>1
  <2>6. layer' \in [Layers -> LayerRows]
    BY <2>1, <2>2, <2>3, <2>4, <2>5
  <2> QED  BY <1>6, <2>3, <2>4, <2>6 DEF LayerRows
<1>9. Existing' = Existing
  BY <1>8 DEF Existing
<1>10. TreeSound'
  BY <1>5, <1>8, <1>9, SameTree DEF TablesSound, Existing
<1>11. \A k \in Layers : LayerStep(k)
  BY <1>5, <1>6, <1>8, <1>9 DEF LayerStep
<1>12. TablesOK'
  BY <1>1, <1>5, <1>6, <1>7, <1>8 DEF TablesSound, TablesOK
<1>13. There' = There
  BY <1>1 DEF There
<1>14. ASSUME NEW k \in Layers  PROVE Members(k)' \subseteq There /\ (k # l => Members(k)' = Members(k))
  <2>1. Members(k) \subseteq There
    BY <1>5, MembersThere
  <2> QED  BY <1>5, <1>7, <2>1 DEF Members
<1>15. MembersSound'
  BY <1>5, <1>8, <1>13, <1>14, MembersThere DEF MembersSound
<1>16. MembersFollow
  <2>1. layer'[l] # layer[l]
    BY <1>6, <1>8
  <2> QED  BY <1>13, <1>14, <2>1 DEF MembersFollow, Existing
<1> QED  BY <1>1, <1>5, <1>10, <1>11, <1>12, <1>15, <1>16, RestUnchanged, RowByRow

(* Settings of one user.                                                     *)
LEMMA SavePreferencesStep ==
  ASSUME WorkspaceInductive, NEW w \in Workers, SavePreferences(w)
  PROVE  Step
<1>1. /\ At(w, "locked") /\ Op(w).kind = "prefer"
      /\ UNCHANGED <<layer, member, object, passport>>
  BY DEF SavePreferences, Commits
<1>2. PICK u : u = Op(w).user
  OBVIOUS
<1>3. PICK shown : shown = {l \in Op(w).shown \cap Existing : layer[l].mode # "group"}
  OBVIOUS
<1>4. /\ TablesSound /\ u \in Users /\ shown \in SUBSET Layers
  <2>1. TablesSound /\ req[w] \in Requests /\ AsksWell(Op(w))
    BY <1>1, AboutToCommit
  <2> QED  BY <1>1, <1>2, <1>3, <2>1, RequestTypes DEF AsksWell, Op, Existing
<1>5. preference' = [preference EXCEPT ![u] = [shown |-> shown, version |-> preference[u].version + 1]]
  BY <1>2, <1>3 DEF SavePreferences
<1>6. /\ preference \in [Users -> PreferenceRows] /\ preference[u].version \in Nat
      /\ preference' \in [Users -> PreferenceRows]
  <2>1. preference \in [Users -> PreferenceRows] /\ preference[u].version \in Nat
    BY <1>4 DEF TablesSound, TablesOK, PreferenceRows
  <2>2. [shown |-> shown, version |-> preference[u].version + 1] \in PreferenceRows
    BY <1>4, <2>1 DEF PreferenceRows
  <2> QED  BY <1>4, <1>5, <2>1, <2>2
<1>7. \A v \in Users : PreferenceStep(v)
  BY <1>4, <1>5, <1>6 DEF PreferenceStep
<1>8. \A t \in Targets : ObjectStep(t) /\ PassportStep(t)
  BY <1>1 DEF ObjectStep, PassportStep
<1>9. There' = There /\ \A l \in Layers : Members(l)' = Members(l)
  BY <1>1 DEF There, Members
<1>10. TablesOK'
  BY <1>1, <1>4, <1>6 DEF TablesSound, TablesOK
<1>11. MembersSound' /\ MembersFollow
  BY <1>1, <1>4, <1>9, MembersThere DEF MembersSound, MembersFollow, Existing
<1> QED  BY <1>1, <1>4, <1>7, <1>8, <1>10, <1>11, TreeUnchanged, RowByRow

(* A record of an object with another text, another house, or both, and the  *)
(* next version.                                                             *)
LEMMA TextSaved ==
  ASSUME NEW row \in ObjectRows, NEW x \in Texts \cup {None}
  PROVE  LET new == [row EXCEPT !.text = x, !.version = @ + 1]
         IN  new \in ObjectRows /\ new.state = row.state /\ new.house = row.house /\ new.version = row.version + 1
<1>1. \A n \in Nat : [row EXCEPT !.text = x, !.version = n] \in ObjectRows
  BY DEF ObjectRows
<1>2. row.version + 1 \in Nat
  BY DEF ObjectRows
<1>3. [row EXCEPT !.text = x, !.version = @ + 1] \in ObjectRows
  BY <1>1, <1>2
<1> QED  BY <1>3 DEF ObjectRows

(* A marker that represents no house any more, and has the next version.     *)
LEMMA HouseSaved ==
  ASSUME NEW row \in ObjectRows
  PROVE  LET new == [row EXCEPT !.house = None, !.version = @ + 1]
         IN  /\ new \in ObjectRows /\ new.state = row.state /\ new.house = None
             /\ new.version = row.version + 1 /\ new.text = row.text
<1>1. \A n \in Nat : [row EXCEPT !.house = None, !.version = n] \in ObjectRows
  BY DEF ObjectRows
<1>2. row.version + 1 \in Nat
  BY DEF ObjectRows
<1>3. [row EXCEPT !.house = None, !.version = @ + 1] \in ObjectRows
  BY <1>1, <1>2
<1> QED  BY <1>3 DEF ObjectRows

(* A record of an object with another version.                               *)
LEMMA VersionSaved ==
  ASSUME NEW row \in ObjectRows, NEW n \in Nat
  PROVE  LET new == [row EXCEPT !.version = n]
         IN  /\ new \in ObjectRows /\ new.state = row.state /\ new.house = row.house
             /\ new.version = n /\ new.text = row.text
<1>1. [row EXCEPT !.version = n] \in ObjectRows
  BY DEF ObjectRows
<1> QED  BY <1>1 DEF ObjectRows

(* What is on the map, and what may represent a house.                       *)
LEMMA ObjectFacts ==
  ASSUME TablesSound
  PROVE  /\ object \in [Targets -> ObjectRows] /\ There \subseteq Targets
         /\ \A t \in Targets : t \in There <=> object[t].state = "there"
         /\ \A t \in Targets : object[t].house # None => t \in There /\ t \in Markers /\ t \notin Houses
         /\ \A t \in Targets : object[t].state = "unused" => object[t] = NoObject
<1>1. /\ object \in [Targets -> ObjectRows]
      /\ \A t \in Targets \ There : object[t] \in {NoObject, Erased}
      /\ \A t \in Targets \ Markers : object[t].house = None
  BY DEF TablesSound, TablesOK, RowsSound
<1>2. NoObject.house = None /\ Erased.house = None /\ Erased.state = "gone"
  BY DEF NoObject, Erased
<1> QED  BY <1>1, <1>2, TargetAssumption DEF There

(* A passport, and the text of the object unless it is a house.              *)
LEMMA SavePassportStep ==
  ASSUME WorkspaceInductive, NEW w \in Workers, SavePassport(w)
  PROVE  Step
<1>1. /\ At(w, "locked") /\ Op(w).kind = "passport"
      /\ UNCHANGED <<layer, member, preference>>
  BY DEF SavePassport, Commits
<1>2. PICK op : op = Op(w)
  OBVIOUS
<1>3. PICK t : t = op.target
  OBVIOUS
<1>4. /\ TablesSound /\ t \in There /\ op.data \in Texts /\ op.text \in Texts \cup {None}
  <2>1. TablesSound /\ req[w] \in Requests /\ AsksWell(op) /\ StillPermits(req[w])
    BY <1>1, <1>2, AboutToCommit
  <2>2. PassportPermitted(op, req[w].seen) /\ op = req[w].op
    BY <1>1, <1>2, <2>1 DEF StillPermits, Permitted, Op
  <2> QED  BY <1>1, <1>2, <1>3, <2>1, <2>2, RequestTypes DEF AsksWell, PassportPermitted
<1>5. t \in Targets /\ object \in [Targets -> ObjectRows] /\ passport \in [Targets -> PassportRows]
  BY <1>4 DEF There, TablesSound, TablesOK
<1>6. /\ passport' = [passport EXCEPT ![t] = [data |-> op.data, version |-> passport[t].version + 1]]
      /\ object' = IF t \in Houses THEN object ELSE WithText(t, op.text)
  BY <1>2, <1>3 DEF SavePassport
<1>7. passport' \in [Targets -> PassportRows] /\ passport[t].version \in Nat
  <2>1. passport[t].version \in Nat
    BY <1>5 DEF PassportRows
  <2>2. [data |-> op.data, version |-> passport[t].version + 1] \in PassportRows
    BY <1>4, <2>1 DEF PassportRows
  <2> QED  BY <1>5, <1>6, <2>1, <2>2
<1>8. PICK x \in Texts \cup {None} : x = NewText(t, op.text)
  BY <1>4, <1>5 DEF ObjectRows, NewText
<1>9. t \notin Houses => object' = [object EXCEPT ![t] = [object[t] EXCEPT !.text = x, !.version = @ + 1]]
  BY <1>6, <1>8 DEF WithText
<1>10. /\ object' \in [Targets -> ObjectRows]
       /\ \A s \in Targets : s # t => object'[s] = object[s]
       /\ t \in Houses => object'[t] = object[t]
       /\ t \notin Houses => /\ object'[t].state = object[t].state /\ object'[t].house = object[t].house
                             /\ object'[t].version = object[t].version + 1
       /\ object[t].version \in Nat
  <2>1. object[t] \in ObjectRows /\ object[t].version \in Nat
    BY <1>5 DEF ObjectRows
  <2>2. CASE t \in Houses
    BY <1>5, <1>6, <2>1, <2>2
  <2>3. CASE t \notin Houses
    <3> DEFINE new == [object[t] EXCEPT !.text = x, !.version = @ + 1]
    <3>1. /\ new \in ObjectRows /\ new.state = object[t].state /\ new.house = object[t].house
          /\ new.version = object[t].version + 1
      BY <2>1, TextSaved
    <3>2. object' = [object EXCEPT ![t] = new]
      BY <1>9, <2>3
    <3> HIDE DEF new
    <3> QED  BY <1>5, <2>1, <2>3, <3>1, <3>2
  <2> QED  BY <2>2, <2>3
<1>11. There' = There
  BY <1>10 DEF There
<1>12. ASSUME NEW s \in Targets  PROVE ObjectStep(s) /\ PassportStep(s)
  <2>1. PassportStep(s)
    BY <1>5, <1>6, <1>7, <1>10 DEF PassportStep
  <2>2. ObjectStep(s)
    <3>1. s \notin Markers => object[s].house = None
      BY <1>4 DEF TablesSound, RowsSound
    <3> QED  BY <1>4, <1>10, <1>11, <3>1 DEF ObjectStep
  <2> QED  BY <2>1, <2>2
<1>13. TablesOK'
  BY <1>1, <1>4, <1>7, <1>10 DEF TablesSound, TablesOK
<1>14. \A l \in Layers : Members(l)' = Members(l)
  BY <1>1 DEF Members
<1>15. MembersSound' /\ MembersFollow
  BY <1>1, <1>4, <1>11, <1>14, MembersThere DEF MembersSound, MembersFollow, Existing
<1>16. \A u \in Users : PreferenceStep(u)
  BY <1>1 DEF PreferenceStep
<1> QED  BY <1>1, <1>4, <1>12, <1>13, <1>15, <1>16, TreeUnchanged, RowByRow

(* A marker, and the one that represented its house before.                  *)
LEMMA UpdateMarkerStep ==
  ASSUME WorkspaceInductive, NEW w \in Workers, UpdateMarker(w)
  PROVE  Step
<1>1. At(w, "rows") /\ UNCHANGED <<layer, member, passport, preference>>
  BY DEF UpdateMarker
<1>2. PICK r \in Requests : r = req[w]
  BY DEF WorkspaceInductive, LayersSound, TypeOK
<1>3. PICK t : t = r.op.target
  OBVIOUS
<1>4. /\ TablesSound /\ t \in There /\ t \in Markers /\ r.op.text \in Texts \cup {None}
      /\ r.target \in Houses \cup {None}
  <2>1. TablesSound /\ AsksWell(r.op) /\ StillPermits(r) /\ r.pc = "rows"
    BY <1>1, <1>2, AboutToCommit DEF Op, At
  <2>2. UpdateHolds(r) /\ r.op.kind = "update"
    BY <2>1 DEF StillPermits
  <2> QED  BY <1>3, <2>1, <2>2, RequestTypes DEF AsksWell, UpdateHolds
<1>5. object' = [s \in Targets |->
        IF s = t THEN [object[s] EXCEPT !.text = r.op.text, !.house = r.target, !.version = @ + 1]
        ELSE IF s \in Displaced(r) THEN [object[s] EXCEPT !.house = None, !.version = @ + 1]
        ELSE object[s]]
  BY <1>2, <1>3 DEF UpdateMarker
<1>6. /\ object \in [Targets -> ObjectRows] /\ There \subseteq Targets /\ t \notin Houses
      /\ \A s \in Targets : object[s].house # None => s \in There /\ s \in Markers /\ s \notin Houses
  BY <1>4, ObjectFacts, TargetAssumption
<1>7. \A s \in Displaced(r) : s \in There /\ s \in Markers /\ s \notin Houses /\ s # t
  BY <1>3, <1>6 DEF Targets, Displaced
<1>8. ASSUME NEW s \in Targets
      PROVE  /\ object'[s] \in ObjectRows /\ object'[s].state = object[s].state
             /\ \/ object'[s] = object[s]
                \/ s \in There \ Houses /\ s \in Markers /\ object'[s].version > object[s].version
  <2>1. object[s] \in ObjectRows /\ object[s].version \in Nat
    BY <1>6 DEF ObjectRows
  <2>2. CASE s = t
    <3>1. PICK x \in Texts \cup {None}, h \in Houses \cup {None} : x = r.op.text /\ h = r.target
      BY <1>4
    <3>2. object'[s] = [object[s] EXCEPT !.text = x, !.house = h, !.version = object[s].version + 1]
      BY <1>5, <2>2, <3>1
    <3>3. \A n \in Nat : [object[s] EXCEPT !.text = x, !.house = h, !.version = n] \in ObjectRows
      BY <2>1 DEF ObjectRows
    <3>4. object[s].version + 1 \in Nat
      BY <2>1
    <3>5. object'[s] \in ObjectRows
      BY <3>2, <3>3, <3>4
    <3>6. object'[s].state = object[s].state /\ object'[s].version = object[s].version + 1
      BY <2>1, <3>2 DEF ObjectRows
    <3> QED  BY <1>4, <1>6, <2>1, <2>2, <3>5, <3>6
  <2>3. CASE s # t /\ s \in Displaced(r)
    <3> DEFINE new == [object[s] EXCEPT !.house = None, !.version = @ + 1]
    <3>1. object'[s] = new
      BY <1>5, <2>3
    <3>2. new \in ObjectRows /\ new.state = object[s].state /\ new.version = object[s].version + 1
      BY <2>1, HouseSaved
    <3> HIDE DEF new
    <3> QED  BY <1>7, <2>1, <2>3, <3>1, <3>2
  <2>4. CASE s # t /\ s \notin Displaced(r)
    BY <1>5, <2>1, <2>4
  <2> QED  BY <2>2, <2>3, <2>4
<1>9. object' \in [Targets -> ObjectRows]
  BY <1>5, <1>8
<1>10. There' = There
  BY <1>8 DEF There
<1>11. \A s \in Targets : ObjectStep(s) /\ PassportStep(s)
  BY <1>1, <1>8, <1>10 DEF ObjectStep, PassportStep
<1>12. TablesOK'
  BY <1>1, <1>4, <1>9 DEF TablesSound, TablesOK
<1>13. \A l \in Layers : Members(l)' = Members(l)
  BY <1>1 DEF Members
<1>14. MembersSound' /\ MembersFollow
  BY <1>1, <1>4, <1>10, <1>13, MembersThere DEF MembersSound, MembersFollow, Existing
<1>15. \A u \in Users : PreferenceStep(u)
  BY <1>1 DEF PreferenceStep
<1> QED  BY <1>1, <1>4, <1>11, <1>12, <1>14, <1>15, TreeUnchanged, RowByRow

(* The new marker and the second part are members wherever the line was.     *)
LEMMA SplitConnectionStep ==
  ASSUME WorkspaceInductive, NEW w \in Workers, SplitConnection(w)
  PROVE  Step
<1>1. /\ At(w, "locked") /\ Op(w).kind = "split"
      /\ UNCHANGED <<passport, preference>>
  BY DEF SplitConnection, Commits
<1>2. PICK op : op = Op(w)
  OBVIOUS
<1>3. PICK c : c = op.target
  OBVIOUS
<1>4. TablesSound /\ c \in There /\ c \in Lines
  <2>1. TablesSound /\ req[w] \in Requests /\ AsksWell(op) /\ StillPermits(req[w])
    BY <1>1, <1>2, AboutToCommit
  <2>2. ObjectSeen(op, req[w].seen)
    BY <1>1, <1>2, <2>1 DEF StillPermits, Permitted, Op
  <2> QED  BY <1>1, <1>2, <1>3, <2>1, <2>2 DEF AsksWell, ObjectSeen
<1>5. PICK m \in NewIds(Markers), tail \in NewIds(Lines) \cup {None} :
        /\ object' = [t \in Targets |->
             IF t = c THEN [object[c] EXCEPT !.version = @ + 1]
             ELSE IF t \in {m, tail} THEN [object[c] EXCEPT !.version = 1]
             ELSE object[t]]
        /\ member' = member \cup Inherited(c, m, tail)
  BY <1>2, <1>3 DEF SplitConnection
<1>6. layer' = [l \in Layers |->
        IF <<l, c>> \in member THEN [layer[l] EXCEPT !.version = @ + 1] ELSE layer[l]]
  BY <1>2, <1>3 DEF SplitConnection
<1>7. /\ object \in [Targets -> ObjectRows] /\ There \subseteq Targets /\ None \notin Targets
      /\ c \in Targets /\ c \notin Houses /\ c \notin Markers /\ object[c].house = None
      /\ \A s \in Targets : s \in There <=> object[s].state = "there"
  BY <1>4, ObjectFacts, TargetAssumption
<1>8. \A s \in {m, tail} \cap Targets : s \notin There /\ object[s] = NoObject /\ s # c
  BY <1>4, <1>5, <1>7, ObjectFacts DEF NewIds
<1>9. m \in Targets /\ (tail \in Targets \/ tail = None)
  BY <1>5 DEF NewIds, Targets
<1>10. object[c] \in ObjectRows /\ object[c].version \in Nat /\ object[c].state = "there"
  BY <1>4, <1>7 DEF ObjectRows
<1>11. \A n \in Nat : /\ [object[c] EXCEPT !.version = n] \in ObjectRows
                      /\ [object[c] EXCEPT !.version = n].version = n
                      /\ [object[c] EXCEPT !.version = n].house = None
                      /\ [object[c] EXCEPT !.version = n].state = "there"
  BY <1>7, <1>10, VersionSaved
<1>12. /\ \A s \in Targets \ {c, m, tail} : object'[s] = object[s]
       /\ \A s \in {m, tail} \cap Targets : /\ object'[s] \in ObjectRows /\ object'[s].version = 1
                                            /\ object'[s].house = None /\ object'[s].state = "there"
       /\ object'[c] \in ObjectRows /\ object'[c].version = object[c].version + 1
       /\ object'[c].house = None /\ object'[c].state = "there"
  <2>1. PICK n \in Nat : n = object[c].version + 1
    BY <1>10
  <2>2. object'[c] = [object[c] EXCEPT !.version = n]
    BY <1>5, <1>7, <2>1
  <2>3. \A s \in {m, tail} \cap Targets : object'[s] = [object[c] EXCEPT !.version = 1]
    BY <1>5, <1>8
  <2>4. \A s \in Targets \ {c, m, tail} : object'[s] = object[s]
    BY <1>5
  <2>5. /\ object'[c] \in ObjectRows /\ object'[c].version = n
        /\ object'[c].house = None /\ object'[c].state = "there"
    BY <1>11, <2>1, <2>2
  <2>6. \A s \in {m, tail} \cap Targets : /\ object'[s] \in ObjectRows /\ object'[s].version = 1
                                          /\ object'[s].house = None /\ object'[s].state = "there"
    <3>1. PICK k \in Nat : k = 1
      OBVIOUS
    <3>2. \A s \in {m, tail} \cap Targets : object'[s] = [object[c] EXCEPT !.version = k]
      BY <2>3, <3>1
    <3> QED  BY <1>11, <3>1, <3>2
  <2> QED  BY <2>1, <2>4, <2>5, <2>6
<1>13. object' \in [Targets -> ObjectRows]
  <2>1. \A s \in Targets : object'[s] \in ObjectRows
    BY <1>7, <1>12
  <2>2. object' = [s \in Targets |-> object'[s]]
    BY <1>5
  <2> QED  BY <2>1, <2>2
<1>14. There' = There \cup ({m, tail} \ {None})
  <2>1. \A s \in Targets : s \in There' <=> s \in There \cup {m, tail}
    BY <1>4, <1>7, <1>8, <1>12 DEF There
  <2>2. There' \subseteq Targets
    BY DEF There
  <2> QED  BY <1>7, <1>9, <2>1, <2>2
<1>15. ASSUME NEW s \in Targets  PROVE ObjectStep(s) /\ PassportStep(s)
  <2>1. PassportStep(s)
    BY <1>1 DEF PassportStep
  <2>2. CASE s = c
    BY <1>4, <1>7, <1>10, <1>12, <1>14, <2>1, <2>2 DEF ObjectStep
  <2>3. CASE s \in {m, tail}
    BY <1>7, <1>8, <1>12, <1>14, <2>1, <2>3 DEF ObjectStep
  <2>4. CASE s \notin {c, m, tail}
    BY <1>12, <2>1, <2>4 DEF ObjectStep
  <2> QED  BY <2>2, <2>3, <2>4
<1>16. /\ \A l \in Layers : /\ layer[l] \in LayerRows /\ layer'[l] \in LayerRows
                            /\ layer'[l].mode = layer[l].mode /\ layer'[l].parent = layer[l].parent
                            /\ <<l, c>> \notin member => layer'[l] = layer[l]
                            /\ <<l, c>> \in member => layer'[l].version > layer[l].version
       /\ layer' \in [Layers -> LayerRows]
  <2>1. ASSUME NEW l \in Layers
        PROVE  /\ layer[l] \in LayerRows /\ layer'[l] \in LayerRows
               /\ layer'[l].mode = layer[l].mode /\ layer'[l].parent = layer[l].parent
               /\ <<l, c>> \notin member => layer'[l] = layer[l]
               /\ <<l, c>> \in member => layer'[l].version > layer[l].version
    <3>1. layer[l] \in LayerRows /\ layer[l].version \in Nat
      BY <1>4 DEF TablesSound, TablesOK, LayerRows
    <3>2. PICK n \in Nat : n = layer[l].version + 1
      BY <3>1
    <3>3. [layer[l] EXCEPT !.version = n] \in LayerRows
      BY <3>1 DEF LayerRows
    <3>4. CASE <<l, c>> \in member
      <4>1. layer'[l] = [layer[l] EXCEPT !.version = n]
        BY <1>6, <3>2, <3>4
      <4> QED  BY <3>1, <3>2, <3>3, <3>4, <4>1 DEF LayerRows
    <3>5. CASE <<l, c>> \notin member
      BY <1>6, <3>1, <3>5
    <3> QED  BY <3>4, <3>5
  <2>2. layer' = [l \in Layers |-> layer'[l]]
    BY <1>6
  <2> QED  BY <2>1, <2>2
<1>17. Existing' = Existing
  BY <1>16 DEF Existing
<1>18. TreeSound'
  BY <1>4, <1>16, <1>17, SameTree DEF TablesSound, Existing
<1>19. \A l \in Layers : <<l, c>> \in member => l \in Existing /\ layer[l].mode = "manual"
  BY <1>4, <1>7, MembersThere DEF Members
<1>20. \A l \in Layers : LayerStep(l)
  BY <1>16, <1>17, <1>19 DEF LayerStep
<1>21. /\ \A l, t : <<l, t>> \in Inherited(c, m, tail) <=>
                    l \in Layers /\ <<l, c>> \in member /\ t \in {m, tail} \ {None}
       /\ Inherited(c, m, tail) \subseteq Layers \X Targets
  <2> DEFINE L == {k \in Layers : <<k, c>> \in member}
             T == {m, tail} \ {None}
  <2>1. Inherited(c, m, tail) = {<<l, t>> : l \in L, t \in T}
    BY DEF Inherited
  <2>2. L \subseteq Layers /\ T \subseteq Targets
    BY <1>9
  <2>3. \A l, t : <<l, t>> \in Inherited(c, m, tail) <=> l \in L /\ t \in T
    <3> HIDE DEF L, T
    <3> QED  BY <2>1
  <2>4. Inherited(c, m, tail) \subseteq L \X T
    <3> HIDE DEF L, T
    <3> QED  BY <2>1
  <2>5. Inherited(c, m, tail) \subseteq Layers \X Targets
    <3> HIDE DEF L, T
    <3> QED  BY <2>2, <2>4
  <2> QED  BY <2>3, <2>5
<1>22. \A l \in Layers : /\ <<l, c>> \notin member => Members(l)' = Members(l)
                         /\ <<l, c>> \in member => Members(l)' = Members(l) \cup ({m, tail} \ {None})
  <2>1. \A l \in Layers, t \in Targets :
          <<l, t>> \in member' <=> <<l, t>> \in member \/ (<<l, c>> \in member /\ t \in {m, tail} \ {None})
    BY <1>5, <1>21
  <2> QED  BY <1>7, <1>9, <2>1 DEF Members
<1>23. member' \subseteq Layers \X Targets
  <2>1. member \subseteq Layers \X Targets
    BY <1>4 DEF TablesSound, TablesOK
  <2> QED  BY <1>5, <1>21, <2>1
<1>24. TablesOK'
  BY <1>1, <1>4, <1>13, <1>16, <1>23 DEF TablesSound, TablesOK
<1>25. MembersSound'
  BY <1>4, <1>14, <1>16, <1>19, <1>22, MembersThere DEF MembersSound
<1>26. MembersFollow
  <2>1. ASSUME NEW l \in Layers, layer'[l] = layer[l]  PROVE Members(l)' = Members(l) \cap There'
    <3>1. <<l, c>> \notin member
      <4>1. layer[l].version \in Nat
        BY <1>16 DEF LayerRows
      <4> QED  BY <1>16, <2>1, <4>1
    <3>2. Members(l) \subseteq There
      BY <1>4, MembersThere
    <3> QED  BY <1>14, <1>22, <3>1, <3>2
  <2> QED  BY <2>1 DEF MembersFollow, Existing
<1>27. \A u \in Users : PreferenceStep(u)
  BY <1>1 DEF PreferenceStep
<1> QED  BY <1>4, <1>15, <1>18, <1>20, <1>24, <1>25, <1>26, <1>27, RowByRow

(* An object that goes takes its members and its passport along.             *)
LEMMA ObjectGoes ==
  ASSUME TablesSound, NEW t \in Targets, Without(t), object' \in [Targets -> ObjectRows],
         There' = There \ {t}, \A s \in Targets : ObjectStep(s)
  PROVE  Step
<1>1. /\ UNCHANGED <<layer, preference>>
      /\ member' = {lt \in member : lt[2] # t} /\ passport' = [passport EXCEPT ![t] = NoPassport]
  BY DEF Without
<1>2. member \subseteq Layers \X Targets /\ passport \in [Targets -> PassportRows]
  BY DEF TablesSound, TablesOK
<1>3. NoPassport \in PassportRows
  BY DEF NoPassport, PassportRows
<1>4. TablesOK'
  BY <1>1, <1>2, <1>3 DEF TablesSound, TablesOK
<1>5. \A s \in Targets : PassportStep(s)
  BY <1>1, <1>2 DEF PassportStep
<1>6. \A l \in Layers : Members(l)' = Members(l) \cap There'
  <2>1. \A l \in Layers : Members(l) \subseteq There
    BY MembersThere
  <2> QED  BY <1>1, <2>1 DEF Members, There
<1>7. MembersSound' /\ MembersFollow
  BY <1>1, <1>6, MembersThere DEF MembersSound, MembersFollow, Existing
<1>8. \A u \in Users : PreferenceStep(u)
  BY <1>1 DEF PreferenceStep
<1> QED  BY <1>1, <1>4, <1>5, <1>7, <1>8, TreeUnchanged, RowByRow

(* A marker or a line that is deleted.                                       *)
LEMMA EraseObjectStep ==
  ASSUME WorkspaceInductive, NEW w \in Workers, EraseObject(w)
  PROVE  Step
<1>1. /\ At(w, "locked") /\ Op(w).kind = "erase" /\ Without(Op(w).target)
      /\ object' = [object EXCEPT ![Op(w).target] = Erased]
  BY DEF EraseObject, Commits
<1>2. PICK t : t = Op(w).target
  OBVIOUS
<1>3. TablesSound /\ t \in There
  <2>1. TablesSound /\ StillPermits(req[w])
    BY <1>1, AboutToCommit
  <2>2. ObjectSeen(Op(w), req[w].seen)
    BY <1>1, <2>1 DEF StillPermits, Permitted, Op
  <2> QED  BY <1>2, <2>1, <2>2 DEF ObjectSeen
<1>4. object \in [Targets -> ObjectRows] /\ t \in Targets
  BY <1>3, ObjectFacts
<1>5. Erased \in ObjectRows /\ Erased.state = "gone"
  BY DEF Erased, NoObject, ObjectRows
<1>6. object' \in [Targets -> ObjectRows]
  BY <1>1, <1>2, <1>4, <1>5
<1>7. There' = There \ {t}
  BY <1>1, <1>2, <1>4, <1>5 DEF There
<1>8. \A s \in Targets : ObjectStep(s)
  BY <1>1, <1>2, <1>3, <1>4 DEF ObjectStep
<1> QED  BY <1>1, <1>2, <1>3, <1>4, <1>6, <1>7, <1>8, ObjectGoes

(* A house that is demolished: markers stay behind without a house.          *)
LEMMA DemolishStep ==
  ASSUME WorkspaceInductive, NEW h \in Houses, Demolish(h)
  PROVE  Step
<1> DEFINE left == {m \in Markers : object[m].house = h}
<1>1. /\ h \in There /\ Without(h)
      /\ object' = [t \in Targets |->
           IF t = h THEN Erased
           ELSE IF t \in left THEN [object[t] EXCEPT !.house = None, !.version = @ + 1] ELSE object[t]]
  BY DEF Demolish
<1>2. TablesSound
  BY DEF WorkspaceInductive, LayersSound, TypeOK, TablesSound
<1>3. /\ object \in [Targets -> ObjectRows] /\ h \in Targets /\ h # None
      /\ \A t \in Targets : t \in There <=> object[t].state = "there"
      /\ \A t \in Targets : object[t].house # None => t \in There /\ t \in Markers /\ t \notin Houses
  BY <1>1, <1>2, ObjectFacts, TargetAssumption
<1>4. \A m \in left : m \in There /\ m \in Markers /\ m \notin Houses /\ m # h
  BY <1>3 DEF Targets
<1>5. Erased \in ObjectRows /\ Erased.state = "gone"
  BY DEF Erased, NoObject, ObjectRows
<1> HIDE DEF left
<1>6. ASSUME NEW s \in Targets \ {h}
      PROVE  /\ object'[s] \in ObjectRows /\ object'[s].state = object[s].state
             /\ \/ object'[s] = object[s]
                \/ s \in There \ Houses /\ s \in Markers /\ object'[s].version > object[s].version
  <2>1. object[s] \in ObjectRows /\ object[s].version \in Nat
    BY <1>3 DEF ObjectRows
  <2>2. CASE s \in left
    <3> DEFINE new == [object[s] EXCEPT !.house = None, !.version = @ + 1]
    <3>1. object'[s] = new
      BY <1>1, <2>2
    <3>2. new \in ObjectRows /\ new.state = object[s].state /\ new.version = object[s].version + 1
      BY <2>1, HouseSaved
    <3> HIDE DEF new
    <3> QED  BY <1>4, <2>1, <2>2, <3>1, <3>2
  <2>3. CASE s \notin left
    BY <1>1, <2>1, <2>3
  <2> QED  BY <2>2, <2>3
<1>7. object'[h] = Erased
  BY <1>1, <1>3
<1>8. object' \in [Targets -> ObjectRows]
  <2>1. \A s \in Targets : object'[s] \in ObjectRows
    BY <1>5, <1>6, <1>7
  <2>2. object' = [s \in Targets |-> object'[s]]
    BY <1>1
  <2> QED  BY <2>1, <2>2
<1>9. There' = There \ {h}
  BY <1>5, <1>6, <1>7 DEF There
<1>10. \A s \in Targets : ObjectStep(s)
  <2>1. \A s \in Targets \ {h} : ObjectStep(s)
    BY <1>6, <1>9 DEF ObjectStep
  <2> QED  BY <1>1, <1>7, <2>1 DEF ObjectStep
<1> QED  BY <1>1, <1>2, <1>3, <1>8, <1>9, <1>10, ObjectGoes

-----------------------------------------------------------------------------
(* Requests through a step                                                   *)

(* A request that is what it should be, after the step.                      *)
LEMMA RequestMade ==
  ASSUME NEW v \in Workers, NEW q \in Requests, req'[v] = q,
         q.pc # "idle" => AsksWell(q.op) /\ Remembers(q)',
         q.pc \in Holding => StillPermits(q)'
  PROVE  RequestOK(v)'
<1>1. At(v, "idle")' <=> q.pc = "idle"
  BY DEF At
<1>2. HasCompany(v)' <=> q.pc \in Holding
  BY DEF HasCompany, Holding
<1>3. CASE q.pc = "idle"
  BY <1>1, <1>3 DEF RequestOK
<1>4. CASE q.pc # "idle"
  <2>1. AsksWell(Op(v))'
    BY <1>4 DEF Op, AsksWell
  <2>2. Remembers(req[v])'
    BY <1>4 DEF Remembers
  <2>3. q.pc \in Holding => StillPermits(req[v])'
    BY <1>4 DEF StillPermits, UpdateHolds
  <2> QED  BY <1>2, <2>1, <2>2, <2>3 DEF RequestOK
<1> QED  BY <1>3, <1>4

(* What waits for nothing but its turn goes on as it was.                    *)
LEMMA RequestKept ==
  ASSUME WorkspaceInductive, TablesOK', Grown, NEW v \in Workers, req'[v] = req[v],
         \A q \in Requests : q = req[v] /\ q.pc \in Holding => StillPermits(q)'
  PROVE  RequestOK(v)'
<1>1. req[v] \in Requests /\ TablesOK
  BY DEF WorkspaceInductive, LayersSound, TypeOK
<1>2. PICK q \in Requests : q = req[v]
  BY <1>1
<1>3. q.pc # "idle" => AsksWell(q.op) /\ Remembers(q)
  BY <1>2 DEF WorkspaceInductive, RequestOK, At, Op
<1> QED  BY <1>1, <1>2, <1>3, Remembered, RequestMade

(* What the rows to write and the checks of layers depend on.                *)
LEMMA LayersKept ==
  ASSUME UNCHANGED layer, NEW op, NEW seen
  PROVE  /\ Existing' = Existing /\ Rows(op)' = Rows(op)
         /\ LayerSeen(op, seen)' = LayerSeen(op, seen)
         /\ CreatePermitted(op) => CreatePermitted(op)'
         /\ SavePermitted(op, seen) => SavePermitted(op, seen)'
<1>1. Existing' = Existing
  BY DEF Existing
<1>2. MovedRows(op)' = MovedRows(op)
  BY <1>1 DEF MovedRows, Position, Before
<1>3. Rows(op)' = Rows(op)
  BY <1>2 DEF Rows, CreatedRows, SavedRows
<1>4. LayerSeen(op, seen)' = LayerSeen(op, seen)
  BY <1>1 DEF LayerSeen
<1>5. \A p : ParentFits(p) => ParentFits(p)'
  BY <1>1 DEF ParentFits
<1>6. \A l, p : TreeEnds(l, p) => TreeEnds(l, p)'
  <2>1. \A l, p : Proposed(l, p)' = Proposed(l, p)
    BY <1>1 DEF Proposed
  <2> QED  BY <1>1, <2>1 DEF TreeEnds
<1> QED  BY <1>1, <1>3, <1>4, <1>5, <1>6 DEF CreatePermitted, SavePermitted

(* What was permitted is permitted while the tables stay as they are.        *)
LEMMA PermitsKept ==
  ASSUME UNCHANGED tables, NEW q, StillPermits(q)
  PROVE  StillPermits(q)'
<1>1. /\ Rows(q.op)' = Rows(q.op) /\ LayerSeen(q.op, q.seen)' = LayerSeen(q.op, q.seen)
      /\ CreatePermitted(q.op) => CreatePermitted(q.op)'
      /\ SavePermitted(q.op, q.seen) => SavePermitted(q.op, q.seen)'
  BY LayersKept DEF tables
<1>2. There' = There
  BY DEF There, tables
<1>3. PassportPermitted(q.op, q.seen)' = PassportPermitted(q.op, q.seen)
  BY <1>2 DEF PassportPermitted, tables
<1>4. ObjectSeen(q.op, q.seen)' = ObjectSeen(q.op, q.seen)
  BY <1>2 DEF ObjectSeen, tables
<1>5. Permitted(q.op, q.seen) => Permitted(q.op, q.seen)'
  BY <1>1, <1>2, <1>3, <1>4 DEF Permitted, tables
<1>6. UpdateHolds(q) => UpdateHolds(q)'
  BY <1>2 DEF UpdateHolds, tables
<1> QED  BY <1>1, <1>5, <1>6 DEF StillPermits, tables

(* Nothing happens to the tables.                                            *)
LEMMA TablesAlone ==
  ASSUME WorkspaceInductive, UNCHANGED tables
  PROVE  Step
<1>1. TablesSound
  BY DEF WorkspaceInductive, LayersSound, TypeOK, TablesSound
<1>2. TablesOK'
  BY <1>1 DEF TablesSound, TablesOK, tables
<1>3. There' = There /\ \A l \in Layers : Members(l)' = Members(l)
  BY DEF There, Members, tables
<1>4. MembersSound' /\ MembersFollow
  BY <1>1, <1>3, MembersThere DEF MembersSound, MembersFollow, Existing, tables
<1> QED  BY <1>1, <1>2, <1>4, TreeUnchanged, RestUnchanged, RowByRow DEF tables

(* The invariant, part by part.                                              *)
LEMMA InvariantMade ==
  ASSUME Step, req' \in [Workers -> Requests], requests' \in Nat,
         \A v \in Workers : RequestOK(v)' /\ (req'[v].pc = "idle" => req'[v] = Idle),
         \A v, u \in Workers : v # u => ~(req'[v].pc \in Holding /\ req'[u].pc \in Holding)
  PROVE  WorkspaceInductive'
<1>1. LayersSound' /\ RowsSound'
  BY DEF Step, TablesSound, LayersSound, TypeOK
<1>2. \A v \in Workers : RequestOK(v)' /\ (At(v, "idle")' => req'[v] = Idle)
  BY DEF At
<1>3. \A v, u \in Workers : v # u => ~(HasCompany(v) /\ HasCompany(u))'
  BY DEF HasCompany, Holding
<1> QED  BY <1>1, <1>2, <1>3 DEF WorkspaceInductive

(* A request ends: its locks are gone, the others are as they were.          *)
LEMMA EndingKeeps ==
  ASSUME WorkspaceInductive, Step, NEW w \in Workers, Become(w, Idle), requests' = requests,
         \A v \in Workers \ {w}, q \in Requests : q = req[v] /\ q.pc \in Holding => StillPermits(q)'
  PROVE  WorkspaceInductive'
<1>1. /\ req \in [Workers -> Requests] /\ requests \in Nat
      /\ \A v \in Workers : req[v].pc = "idle" => req[v] = Idle
      /\ \A v, u \in Workers : v # u => ~(req[v].pc \in Holding /\ req[u].pc \in Holding)
  BY DEF WorkspaceInductive, LayersSound, TypeOK, At, HasCompany, Holding
<1>2. req' = [req EXCEPT ![w] = Idle] /\ Idle \in Requests /\ Idle.pc = "idle"
  BY IdleRequest DEF Become
<1>3. req' \in [Workers -> Requests] /\ req'[w] = Idle /\ \A v \in Workers \ {w} : req'[v] = req[v]
  BY <1>1, <1>2
<1>4. RequestOK(w)'
  BY <1>2, <1>3, RequestMade DEF Holding
<1>5. ASSUME NEW v \in Workers \ {w}  PROVE RequestOK(v)'
  BY <1>3, RequestKept DEF Step, TablesSound
<1>6. \A v \in Workers : RequestOK(v)' /\ (req'[v].pc = "idle" => req'[v] = Idle)
  BY <1>1, <1>3, <1>4, <1>5
<1>7. \A v, u \in Workers : v # u => ~(req'[v].pc \in Holding /\ req'[u].pc \in Holding)
  BY <1>1, <1>2, <1>3 DEF Holding
<1> QED  BY <1>1, <1>3, <1>6, <1>7, InvariantMade

(* Who has the lock of the company has it alone.                             *)
LEMMA NobodyElse ==
  ASSUME WorkspaceInductive, NEW w \in Workers, HasCompany(w)
  PROVE  \A v \in Workers \ {w} : ~HasCompany(v) /\ req[v].pc \notin Holding
BY DEF WorkspaceInductive, HasCompany, Holding

(* A commit: nobody else holds the lock.                                     *)
LEMMA CommitKeeps ==
  ASSUME WorkspaceInductive, NEW w \in Workers, HasCompany(w), Become(w, Idle), requests' = requests, Step
  PROVE  WorkspaceInductive'
BY NobodyElse, EndingKeeps

(* Giving up, or being turned away.                                          *)
LEMMA GivingUpKeeps ==
  ASSUME WorkspaceInductive, NEW w \in Workers, Become(w, Idle), UNCHANGED <<tables, requests>>
  PROVE  WorkspaceInductive'
<1>1. \A v \in Workers \ {w}, q \in Requests : q = req[v] /\ q.pc \in Holding => StillPermits(q)
  BY DEF WorkspaceInductive, RequestOK, At, HasCompany, Holding
<1>2. Step
  BY TablesAlone
<1> QED  BY <1>1, <1>2, PermitsKept, EndingKeeps

(* What a client sees is typed, and is what is there.                        *)
LEMMA Seeing ==
  ASSUME WorkspaceInductive, NEW op, Sensible(op)
  PROVE  /\ View(op) \in Views
         /\ op.layer # None => View(op).layer = layer[op.layer]
         /\ op.target # None => /\ View(op).object = object[op.target]
                                /\ View(op).passport = passport[op.target]
         /\ op.user # None => View(op).preference = preference[op.user]
<1>1. TablesOK
  BY DEF WorkspaceInductive, LayersSound, TypeOK
<1>2. /\ op.layer # None => op.layer \in Layers
      /\ op.target # None => op.target \in Targets
      /\ op.user # None => op.user \in Users
  BY DEF Sensible, Existing, There
<1>3. /\ NoLayer \in LayerRows /\ NoObject \in ObjectRows
      /\ NoPassport \in PassportRows /\ NoPreference \in PreferenceRows
  BY DEF NoLayer, LayerRows, NoObject, ObjectRows, NoPassport, PassportRows, NoPreference, PreferenceRows
<1>4. /\ op.layer # None => layer[op.layer] \in LayerRows
      /\ op.target # None => object[op.target] \in ObjectRows /\ passport[op.target] \in PassportRows
      /\ op.user # None => preference[op.user] \in PreferenceRows
  BY <1>1, <1>2 DEF TablesOK
<1>5. View(op) \in Views
  BY <1>3, <1>4 DEF View, Views
<1> QED  BY <1>5 DEF View

(* A look.                                                                   *)
LEMMA LookKeeps ==
  ASSUME WorkspaceInductive, NEW w \in Workers, NEW op, Sensible(op), Look(w, op)
  PROVE  WorkspaceInductive'
<1>1. /\ req \in [Workers -> Requests] /\ requests \in Nat
      /\ \A v \in Workers : req[v].pc = "idle" => req[v] = Idle
      /\ \A v, u \in Workers : v # u => ~(req[v].pc \in Holding /\ req[u].pc \in Holding)
  BY DEF WorkspaceInductive, LayersSound, TypeOK, At, HasCompany, Holding
<1>2. UNCHANGED tables /\ requests' \in Nat
  BY <1>1 DEF Look
<1>3. PICK q : q = [Idle EXCEPT !.pc = "open", !.op = op, !.seen = View(op)]
  OBVIOUS
<1>4. q \in Requests /\ q.pc = "open" /\ q.op = op /\ q.seen = View(op)
  <2>1. View(op) \in Views /\ op \in Asked
    BY Seeing DEF Sensible
  <2> QED  BY <1>3, <2>1, IdleRequest DEF Requests
<1>5. req' = [req EXCEPT ![w] = q]
  BY <1>3 DEF Look, Become
<1>6. req' \in [Workers -> Requests] /\ req'[w] = q /\ \A v \in Workers \ {w} : req'[v] = req[v]
  BY <1>1, <1>4, <1>5
<1>7. Step
  BY <1>2, TablesAlone
<1>8. Remembers(q)
  <2>1. /\ op.layer # None => layer[op.layer].mode # "unused" /\ q.seen.layer = layer[op.layer]
        /\ op.target # None => /\ object[op.target].state # "unused"
                               /\ q.seen.object = object[op.target] /\ q.seen.passport = passport[op.target]
        /\ op.user # None => q.seen.preference = preference[op.user]
    BY <1>4, Seeing DEF Sensible, Existing, There, Modes
  <2> QED  BY <1>4, <2>1 DEF Remembers, Since
<1>9. Remembers(q)'
  BY <1>4, <1>7, <1>8, Remembered DEF Step, TablesSound, WorkspaceInductive, LayersSound, TypeOK
<1>10. RequestOK(w)'
  BY <1>4, <1>6, <1>9, RequestMade DEF Sensible, Holding
<1>11. ASSUME NEW v \in Workers \ {w}  PROVE RequestOK(v)'
  <2>1. \A r \in Requests : r = req[v] /\ r.pc \in Holding => StillPermits(r)
    BY DEF WorkspaceInductive, RequestOK, At, HasCompany, Holding
  <2> QED  BY <1>2, <1>6, <1>7, <2>1, PermitsKept, RequestKept DEF Step, TablesSound
<1>12. \A v \in Workers : RequestOK(v)' /\ (req'[v].pc = "idle" => req'[v] = Idle)
  BY <1>1, <1>4, <1>6, <1>10, <1>11
<1>13. \A v, u \in Workers : v # u => ~(req'[v].pc \in Holding /\ req'[u].pc \in Holding)
  BY <1>1, <1>4, <1>6 DEF Holding
<1> QED  BY <1>2, <1>6, <1>7, <1>12, <1>13, InvariantMade

(* A request that has the lock and may go on, while the tables stay.         *)
LEMMA HolderKeeps ==
  ASSUME WorkspaceInductive, NEW w \in Workers, NEW q \in Requests, q.pc \in Holding,
         Become(w, q), UNCHANGED <<tables, requests>>,
         \A v \in Workers \ {w} : ~HasCompany(v),
         AsksWell(q.op), Remembers(q), StillPermits(q)
  PROVE  WorkspaceInductive'
<1>1. /\ req \in [Workers -> Requests] /\ requests \in Nat
      /\ \A v \in Workers : req[v].pc = "idle" => req[v] = Idle
      /\ \A v \in Workers \ {w} : req[v].pc \notin Holding
  BY DEF WorkspaceInductive, LayersSound, TypeOK, At, HasCompany, Holding
<1>2. req' \in [Workers -> Requests] /\ req'[w] = q /\ \A v \in Workers \ {w} : req'[v] = req[v]
  BY <1>1 DEF Become
<1>3. Step
  BY TablesAlone
<1>4. Remembers(q)'
  BY <1>3, Remembered DEF Step, TablesSound, WorkspaceInductive, LayersSound, TypeOK
<1>5. StillPermits(q)'
  BY PermitsKept
<1>6. RequestOK(w)'
  BY <1>2, <1>4, <1>5, RequestMade
<1>7. ASSUME NEW v \in Workers \ {w}  PROVE RequestOK(v)'
  BY <1>1, <1>2, <1>3, RequestKept DEF Step, TablesSound
<1>8. \A v \in Workers : RequestOK(v)' /\ (req'[v].pc = "idle" => req'[v] = Idle)
  BY <1>1, <1>2, <1>6, <1>7 DEF Holding
<1>9. \A v, u \in Workers : v # u => ~(req'[v].pc \in Holding /\ req'[u].pc \in Holding)
  BY <1>1, <1>2
<1> QED  BY <1>1, <1>2, <1>3, <1>8, <1>9, InvariantMade

(* A client that names the version of the marker or line it is permitted to  *)
(* change has seen what is there.                                            *)
LEMMA SameVersion ==
  ASSUME TablesSound, NEW r \in Requests, AsksWell(r.op), Remembers(r), ObjectSeen(r.op, r.seen),
         r.op.kind \in {"update", "split", "erase"}, r.op.versioned
  PROVE  /\ r.op.target \in There /\ r.op.target \notin Houses
         /\ r.seen.object = object[r.op.target] /\ r.seen.passport = passport[r.op.target]
<1>1. /\ r.op.target \in There /\ r.op.target \in Targets /\ r.op.target # None
      /\ object[r.op.target].version = r.seen.object.version
  BY TargetAssumption DEF ObjectSeen, There
<1>2. r.op.target \notin Houses
  BY TargetAssumption DEF AsksWell
<1>3. /\ Since(r.seen.object, object[r.op.target])
      /\ object[r.op.target] = r.seen.object => passport[r.op.target] = r.seen.passport
  BY <1>1, <1>2 DEF Remembers
<1>4. object[r.op.target].version \in Nat
  BY <1>1 DEF TablesSound, TablesOK, ObjectRows
<1>5. r.seen.object = object[r.op.target]
  BY <1>1, <1>3, <1>4 DEF Since
<1> QED  BY <1>1, <1>2, <1>3, <1>5

(* A handler that takes the lock, reads, checks and computes what to write.  *)
LEMMA BeginKeeps ==
  ASSUME WorkspaceInductive, NEW w \in Workers, Begin(w)
  PROVE  WorkspaceInductive'
<1>1. req \in [Workers -> Requests]
  BY DEF WorkspaceInductive, LayersSound, TypeOK
<1>2. PICK r \in Requests : r = req[w]
  BY <1>1
<1>3. PICK target : target = TargetOf(r.op)
  OBVIOUS
<1>4. PICK existing : existing = (r.op.kind = "member" /\ <<r.op.layer, target>> \in member)
  OBVIOUS
<1>5. PICK q : q = [r EXCEPT !.pc = "locked", !.rows = Rows(r.op), !.target = target, !.existing = existing]
  OBVIOUS
<1>6. /\ r.pc = "open" /\ Permitted(r.op, r.seen) /\ \A v \in Workers \ {w} : ~HasCompany(v)
      /\ Become(w, q) /\ UNCHANGED <<tables, requests>>
  BY <1>2, <1>3, <1>4, <1>5 DEF Begin, Op, Seen, At, LockFree
<1>7. TablesSound /\ AsksWell(r.op) /\ Remembers(r)
  BY <1>2, <1>6 DEF WorkspaceInductive, LayersSound, TypeOK, TablesSound, RequestOK, At, Op
<1>8. /\ target \in Targets \cup {None}
      /\ r.op.kind = "member" => target \in Targets
      /\ r.op.kind = "update" => target \in Houses \cup {None}
  <2>1. /\ r.op.target \in Targets \cup {None} /\ r.op.house \in Houses \cup {None}
        /\ r.op.kind \in {"member", "update"} => r.op.target \in Targets
    BY <1>7, RequestTypes DEF AsksWell
  <2>2. \A t \in Targets : object[t].house \in Houses \cup {None}
    BY <1>7 DEF TablesSound, TablesOK, ObjectRows
  <2>3. CASE r.op.kind = "member"
    BY <1>3, <2>1, <2>2, <2>3 DEF TargetOf, Canonical, Targets
  <2>4. CASE r.op.kind = "update"
    BY <1>3, <2>1, <2>2, <2>4 DEF TargetOf, HouseToSave, Targets
  <2>5. CASE r.op.kind \notin {"member", "update"}
    BY <1>3, <2>1, <2>5 DEF TargetOf
  <2> QED  BY <2>3, <2>4, <2>5
<1>9. Rows(r.op) \in RowSets /\ existing \in BOOLEAN
  BY <1>4, <1>6, <1>7, RowsTyped, RequestTypes DEF TablesSound
<1>10. /\ q \in Requests /\ q.pc = "locked" /\ q.op = r.op /\ q.seen = r.seen
       /\ q.rows = Rows(r.op) /\ q.target = target
  BY <1>5, <1>8, <1>9 DEF Requests
<1>11. r.op.kind = "update" => UpdateHolds(q)
  <2> SUFFICES ASSUME r.op.kind = "update"  PROVE UpdateHolds(q)
    OBVIOUS
  <2>1. ObjectSeen(r.op, r.seen)
    BY <1>6 DEF Permitted
  <2>2. r.op.target \in There
    BY <2>1 DEF ObjectSeen
  <2>3. r.op.versioned =>
          r.seen.object = object[r.op.target] /\ r.seen.passport = passport[r.op.target]
    BY <1>7, <2>1, SameVersion
  <2> QED  BY <1>8, <1>10, <2>2, <2>3 DEF UpdateHolds, There
<1>12. StillPermits(q)
  <2>1. CASE r.op.kind = "member"
    <3>1. LayerSeen(r.op, r.seen) /\ layer[r.op.layer].mode = "manual"
      BY <1>6, <2>1 DEF Permitted
    <3> QED  BY <1>8, <1>10, <2>1, <3>1 DEF StillPermits
  <2>2. CASE r.op.kind = "update"
    BY <1>10, <1>11, <2>2 DEF StillPermits
  <2>3. CASE r.op.kind \notin {"member", "update"}
    BY <1>6, <1>10, <2>3 DEF StillPermits
  <2> QED  BY <2>1, <2>2, <2>3
<1>13. Remembers(q)
  BY <1>7, <1>10 DEF Remembers
<1> QED  BY <1>6, <1>7, <1>10, <1>12, <1>13, HolderKeeps DEF Holding

(* Locking the rows: the house to save is there.                             *)
LEMMA LockRowsKeeps ==
  ASSUME WorkspaceInductive, NEW w \in Workers, LockRows(w)
  PROVE  WorkspaceInductive'
<1>1. /\ At(w, "locked") /\ Op(w).kind = "update" /\ UNCHANGED <<tables, requests>>
      /\ \/ RowsPermit(req[w]) /\ Become(w, [req[w] EXCEPT !.pc = "rows"])
         \/ Become(w, Idle)
  BY DEF LockRows
<1>2. CASE Become(w, Idle)
  BY <1>1, <1>2, GivingUpKeeps
<1>3. CASE RowsPermit(req[w]) /\ Become(w, [req[w] EXCEPT !.pc = "rows"])
  <2>1. PICK r \in Requests : r = req[w]
    BY DEF WorkspaceInductive, LayersSound, TypeOK
  <2>2. PICK q : q = [r EXCEPT !.pc = "rows"]
    OBVIOUS
  <2>3. /\ q \in Requests /\ q.pc = "rows" /\ q.op = r.op /\ q.seen = r.seen
        /\ q.rows = r.rows /\ q.target = r.target
    BY <2>2 DEF Requests
  <2>4. /\ AsksWell(r.op) /\ Remembers(r) /\ StillPermits(r) /\ r.op.kind = "update"
    BY <1>1, <2>1, AboutToCommit DEF Op
  <2>5. r.target \in There \cup {None}
    BY <1>3, <2>1 DEF RowsPermit
  <2>6. UpdateHolds(q)
    BY <2>3, <2>4, <2>5 DEF StillPermits, UpdateHolds
  <2>7. StillPermits(q)
    BY <2>3, <2>4, <2>6 DEF StillPermits
  <2>8. Remembers(q)
    BY <2>3, <2>4 DEF Remembers
  <2>9. \A v \in Workers \ {w} : ~HasCompany(v)
    BY <1>1, NobodyElse DEF HasCompany, At
  <2>10. Become(w, q)
    BY <1>3, <2>1, <2>2
  <2> QED  BY <1>1, <2>3, <2>4, <2>7, <2>8, <2>9, <2>10, HolderKeeps DEF Holding
<1> QED  BY <1>1, <1>2, <1>3

(* A house that is demolished is none of those a handler has locked, so that *)
(* what was permitted is permitted still. An update that has not locked its  *)
(* rows yet may lose the house of its marker.                                *)
LEMMA DemolishKeeps ==
  ASSUME WorkspaceInductive, NEW h \in Houses, Demolish(h)
  PROVE  WorkspaceInductive'
<1> DEFINE left == {m \in Markers : object[m].house = h}
<1>1. /\ req \in [Workers -> Requests] /\ requests \in Nat
      /\ \A v \in Workers : req[v].pc = "idle" => req[v] = Idle
      /\ \A v, u \in Workers : v # u => ~(req[v].pc \in Holding /\ req[u].pc \in Holding)
  BY DEF WorkspaceInductive, LayersSound, TypeOK, At, HasCompany, Holding
<1>2. UNCHANGED <<req, requests, layer, preference>>
  BY DEF Demolish, Without
<1>3. Step
  BY DemolishStep
<1>4. /\ h \in There /\ TablesSound
      /\ \A t \in Targets \ (left \cup {h}) : object'[t] = object[t]
      /\ \A t \in Targets \ {h} : /\ passport'[t] = passport[t]
                                 /\ object'[t].state = object[t].state /\ object'[t].text = object[t].text
  <2>1. TablesSound
    BY DEF WorkspaceInductive, LayersSound, TypeOK, TablesSound
  <2>2. object \in [Targets -> ObjectRows] /\ passport \in [Targets -> PassportRows]
    BY <2>1 DEF TablesSound, TablesOK
  <2>3. /\ object' = [t \in Targets |->
             IF t = h THEN Erased
             ELSE IF t \in left THEN [object[t] EXCEPT !.house = None, !.version = @ + 1] ELSE object[t]]
        /\ passport' = [passport EXCEPT ![h] = NoPassport] /\ h \in There
    BY DEF Demolish, Without
  <2> HIDE DEF left
  <2>4. ASSUME NEW t \in Targets \ {h}
        PROVE  object'[t].state = object[t].state /\ object'[t].text = object[t].text
    <3>1. object[t] \in ObjectRows
      BY <2>2
    <3>2. LET new == [object[t] EXCEPT !.house = None, !.version = @ + 1]
          IN  new.state = object[t].state /\ new.text = object[t].text
      BY <3>1, HouseSaved
    <3> QED  BY <2>3, <3>2
  <2> QED  BY <2>1, <2>2, <2>3, <2>4
<1>5. There' = There \ {h}
  <2>1. Erased.state = "gone" /\ h \in Targets
    BY <1>4 DEF Erased, NoObject, There
  <2>2. object'[h] = Erased
    BY <2>1 DEF Demolish
  <2> QED  BY <1>4, <2>1, <2>2 DEF There
<1>6. left \subseteq Markers
  OBVIOUS
<1>7. ASSUME NEW v \in Workers, NEW q \in Requests, q = req[v], q.pc \in Holding
      PROVE  StillPermits(q)'
  <2>1. StillPermits(q) /\ AsksWell(q.op)
    BY <1>7 DEF WorkspaceInductive, RequestOK, At, Op, HasCompany, Holding
  <2>2. /\ q.op.kind \in {"passport", "erase"} => q.op.target \notin left \cup {h}
        /\ q.pc = "rows" => q.target # h
    <3>1. RowsOf(v) \cap (left \cup {h}) = {}
      BY DEF Demolish
    <3>2. q.pc # "rows" => q.pc = "locked"
      BY <1>7 DEF Holding
    <3>3. q.pc = "rows" => q.op.kind = "update"
      BY <2>1 DEF StillPermits
    <3> QED  BY <1>7, <3>1, <3>2, <3>3 DEF RowsOf, At, Op
  <2> HIDE DEF left
  <2>3. /\ Rows(q.op)' = Rows(q.op) /\ LayerSeen(q.op, q.seen)' = LayerSeen(q.op, q.seen)
        /\ CreatePermitted(q.op) => CreatePermitted(q.op)'
        /\ SavePermitted(q.op, q.seen) => SavePermitted(q.op, q.seen)'
    BY <1>2, LayersKept
  <2>4. CASE q.op.kind = "member"
    BY <1>2, <2>1, <2>3, <2>4 DEF StillPermits
  <2>5. CASE q.op.kind = "update"
    <3>1. UpdateHolds(q) /\ q.op.target \in Markers /\ q.op.target # h
      BY <2>1, <2>5, TargetAssumption DEF StillPermits, AsksWell
    <3>2. /\ q.op.target \in There' /\ object'[q.op.target].text = object[q.op.target].text
          /\ passport'[q.op.target] = passport[q.op.target]
      BY <1>4, <1>5, <3>1 DEF UpdateHolds, There
    <3>3. q.pc = "rows" => q.target \in There' \cup {None}
      BY <1>5, <2>2, <3>1 DEF UpdateHolds
    <3>4. UpdateHolds(q)'
      BY <3>1, <3>2, <3>3 DEF UpdateHolds
    <3> QED  BY <2>1, <2>3, <2>5, <3>4 DEF StillPermits
  <2>6. CASE q.op.kind \notin {"member", "update"}
    <3>1. Permitted(q.op, q.seen) /\ q.pc # "rows"
      BY <2>1, <2>6 DEF StillPermits
    <3>2. q.op.kind \in {"passport", "split", "erase"} =>
            /\ q.op.target \in There => q.op.target \in There' /\ q.op.target \in Targets
            /\ q.op.target \in There => object'[q.op.target] = object[q.op.target]
            /\ q.op.target \in There => passport'[q.op.target] = passport[q.op.target]
      <4>1. q.op.kind = "split" => q.op.target \notin left \cup {h}
        BY <1>6, <2>1, TargetAssumption DEF AsksWell
      <4> QED  BY <1>4, <1>5, <2>2, <4>1 DEF There
    <3>3. q.op.kind = "passport" => PassportPermitted(q.op, q.seen)'
      BY <3>1, <3>2 DEF Permitted, PassportPermitted
    <3>4. q.op.kind \in {"split", "erase"} => ObjectSeen(q.op, q.seen)'
      BY <3>1, <3>2 DEF Permitted, ObjectSeen
    <3>5. q.op.kind \in Kinds
      BY <2>1 DEF AsksWell
    <3>6. Permitted(q.op, q.seen)'
      <4>1. CASE q.op.kind \in {"create", "save"}
        BY <2>3, <3>1, <4>1 DEF Permitted
      <4>2. CASE q.op.kind \in {"delete", "move"}
        BY <2>3, <3>1, <4>2 DEF Permitted
      <4>3. CASE q.op.kind = "prefer"
        BY <1>2, <3>1, <4>3 DEF Permitted
      <4>4. CASE q.op.kind = "passport"
        BY <3>3, <4>4 DEF Permitted
      <4>5. CASE q.op.kind \in {"split", "erase"}
        BY <3>4, <4>5 DEF Permitted
      <4> QED  BY <2>6, <3>5, <4>1, <4>2, <4>3, <4>4, <4>5 DEF Kinds
    <3> QED  BY <2>1, <2>3, <2>6, <3>1, <3>6 DEF StillPermits
  <2> QED  BY <2>4, <2>5, <2>6
<1>8. \A v \in Workers : RequestOK(v)'
  BY <1>2, <1>3, <1>7, RequestKept DEF Step, TablesSound
<1> QED  BY <1>1, <1>2, <1>3, <1>8, InvariantMade

-----------------------------------------------------------------------------
(* The invariant                                                             *)

(* The first states.                                                         *)
LEMMA InitInductive ==
  ASSUME Init
  PROVE  WorkspaceInductive
<1> USE DEF Init
<1>1. NoLayer.mode \notin Modes /\ NoLayer \in LayerRows
  BY DEF NoLayer, Modes, LayerRows
<1>2. Existing = {}
  BY <1>1 DEF Existing
<1>3. TypeOK
  <2>1. [NoObject EXCEPT !.state = "there", !.version = 1] \in ObjectRows /\ NoObject \in ObjectRows
    BY DEF NoObject, ObjectRows
  <2>2. NoPassport \in PassportRows /\ NoPreference \in PreferenceRows
    BY DEF NoPassport, PassportRows, NoPreference, PreferenceRows
  <2>3. object \in [Targets -> ObjectRows]
    BY <2>1
  <2> QED  BY <1>1, <2>2, <2>3, IdleRequest DEF TypeOK, TablesOK
<1>4. TreeSound
  BY <1>2, FS_EmptySet, LimitAssumption DEF TreeSound
<1>5. MembersSound
  BY DEF MembersSound, Members
<1>6. RowsSound
  <2>1. [NoObject EXCEPT !.state = "there", !.version = 1].state = "there"
        /\ [NoObject EXCEPT !.state = "there", !.version = 1].version > 0
        /\ [NoObject EXCEPT !.state = "there", !.version = 1].house = None
        /\ NoObject.house = None /\ NoObject.state # "there"
    BY DEF NoObject
  <2>2. \A t \in Targets : \/ object[t] = NoObject
                           \/ object[t] = [NoObject EXCEPT !.state = "there", !.version = 1]
    OBVIOUS
  <2>3. \A t \in Targets : t \in There <=> object[t].state = "there"
    BY DEF There
  <2>4. There \subseteq Targets
    BY DEF There
  <2>5. \A l \in Layers : layer[l] = NoLayer
    OBVIOUS
  <2> HIDE DEF Init
  <2> QED  BY <1>2, <2>1, <2>2, <2>3, <2>4, <2>5 DEF RowsSound
<1>7. \A w \in Workers : req[w] = Idle /\ At(w, "idle") /\ ~HasCompany(w)
  BY IdleRequest DEF At, HasCompany
<1>8. \A w \in Workers : RequestOK(w)
  BY <1>7 DEF RequestOK
<1> QED  BY <1>3, <1>4, <1>5, <1>6, <1>7, <1>8 DEF WorkspaceInductive, LayersSound

(* The handlers that write.                                                  *)
Writes(w) ==
  \/ WriteRows(w) \/ InsertLayer(w) \/ DeleteLayer(w) \/ SetMembership(w)
  \/ SavePreferences(w) \/ SavePassport(w) \/ UpdateMarker(w)
  \/ SplitConnection(w) \/ EraseObject(w)

(* Every handler that writes takes a step of the tables, and commits.        *)
LEMMA WritesStep ==
  ASSUME WorkspaceInductive, NEW w \in Workers, Writes(w)
  PROVE  Step /\ HasCompany(w) /\ Become(w, Idle) /\ requests' = requests
<1>1. HasCompany(w) /\ Become(w, Idle) /\ requests' = requests
  BY DEF Writes, WriteRows, InsertLayer, DeleteLayer, SetMembership, SavePreferences, SavePassport,
         UpdateMarker, SplitConnection, EraseObject, Commits, HasCompany, At
<1>2. Step
  BY WriteRowsStep, InsertLayerStep, DeleteLayerStep, SetMembershipStep, SavePreferencesStep,
     SavePassportStep, UpdateMarkerStep, SplitConnectionStep, EraseObjectStep DEF Writes
<1> QED  BY <1>1, <1>2

(* The handlers that do not.                                                 *)
Turns(w) == MembershipChanged(w) \/ Refuse(w) \/ CutOff(w)

(* The others end the request, and that is all.                              *)
LEMMA TurnsAway ==
  ASSUME NEW w \in Workers, Turns(w)
  PROVE  Become(w, Idle) /\ UNCHANGED <<tables, requests>>
  BY DEF Turns, MembershipChanged, Refuse, CutOff, Commits

Asks(w) == AskLayer(w) \/ AskObject(w) \/ AskPreference(w)

(* The sorts of steps.                                                       *)
LEMMA NextCases ==
  ASSUME [Next]_vars
  PROVE  \/ \E w \in Workers : Asks(w) \/ Begin(w) \/ LockRows(w) \/ Turns(w) \/ Writes(w)
         \/ \E h \in Houses : Demolish(h)
         \/ UNCHANGED vars
  BY DEF Next, Asks, Turns, Writes

(* No step takes a version back or changes a row behind its version.         *)
LEMMA NextIsStep ==
  ASSUME WorkspaceInductive, [Next]_vars
  PROVE  Step
<1>1. ASSUME NEW w \in Workers, Asks(w) \/ Begin(w) \/ LockRows(w) \/ Turns(w)
      PROVE  UNCHANGED tables
  BY <1>1, BodyOK, TurnsAway DEF Asks, Look, Begin, LockRows
<1>2. CASE \E w \in Workers : Writes(w)
  BY <1>2, WritesStep
<1>3. CASE \E h \in Houses : Demolish(h)
  BY <1>3, DemolishStep
<1>4. UNCHANGED vars => UNCHANGED tables
  BY DEF vars, tables
<1> QED  BY <1>1, <1>2, <1>3, <1>4, NextCases, TablesAlone

(* Every step keeps the invariant.                                           *)
LEMMA NextKeeps ==
  ASSUME WorkspaceInductive, [Next]_vars
  PROVE  WorkspaceInductive'
<1>1. ASSUME NEW w \in Workers, Asks(w)  PROVE WorkspaceInductive'
  <2>1. PICK op : Sensible(op) /\ Look(w, op)
    BY <1>1, BodyOK DEF Asks
  <2> QED  BY <2>1, LookKeeps
<1>2. ASSUME NEW w \in Workers, Turns(w)  PROVE WorkspaceInductive'
  BY <1>2, TurnsAway, GivingUpKeeps
<1>3. ASSUME NEW w \in Workers, Writes(w)  PROVE WorkspaceInductive'
  BY <1>3, WritesStep, CommitKeeps
<1>4. CASE UNCHANGED vars
  <2>1. Step
    BY <1>4, NextIsStep
  <2>2. UNCHANGED tables
    BY <1>4 DEF vars, tables
  <2>3. ASSUME NEW v \in Workers  PROVE RequestOK(v)'
    <3>1. \A q \in Requests : q = req[v] /\ q.pc \in Holding => StillPermits(q)
      BY DEF WorkspaceInductive, RequestOK, At, HasCompany, Holding
    <3> QED  BY <1>4, <2>1, <2>2, <3>1, PermitsKept, RequestKept DEF Step, TablesSound, vars
  <2> QED  BY <1>4, <2>1, <2>3, InvariantMade DEF vars, WorkspaceInductive, LayersSound, TypeOK, At, HasCompany, Holding
<1> QED  BY <1>1, <1>2, <1>3, <1>4, NextCases, BeginKeeps, LockRowsKeeps, DemolishKeeps

(* The inductive invariant holds in every state.                             *)
THEOREM WorkspaceInvariant == Spec => []WorkspaceInductive
<1>1. Init => WorkspaceInductive
  BY InitInductive
<1>2. WorkspaceInductive /\ [Next]_vars => WorkspaceInductive'
  BY NextKeeps
<1> QED  BY <1>1, <1>2, PTL DEF Spec

(* The layers are a forest of bounded depth and size, whose inner nodes are  *)
(* groups, and only manual layers have members, all of them on the map: for  *)
(* any number of clients and requests, any limits and any tables to start    *)
(* with (map_layers.py, lock_map_company).                                   *)
THEOREM LayersStaySound == Spec => []LayersSound
<1>1. WorkspaceInductive => LayersSound
  BY DEF WorkspaceInductive
<1> QED  BY <1>1, WorkspaceInvariant, PTL

(* A filter that names a group always finds everything below it              *)
(* (map_predicates): rounds up to MAX_DEPTH are enough because every walk    *)
(* up the tree ends within it.                                               *)
THEOREM ExpansionStaysComplete == Spec => []ExpansionComplete
<1>1. WorkspaceInductive => ExpansionComplete
  <2> SUFFICES ASSUME WorkspaceInductive, NEW l \in Existing, NEW k \in Existing,
                      layer[k].parent \in Expanded({l})
               PROVE  k \in Expanded({l})
    BY DEF ExpansionComplete
  <2>1. TablesOK /\ TreeSound
    BY DEF WorkspaceInductive, LayersSound, TypeOK
  <2>2. None \notin Existing /\ Parents \in [Existing -> Existing \cup {None}]
    BY <2>1, LayerFacts
  <2>3. EndsInTime(Parents, k)
    BY <2>1 DEF TreeSound
  <2>4. {l} \in SUBSET Existing
    OBVIOUS
  <2> QED  BY <2>2, <2>3, <2>4, ExpansionReachesAll
<1> QED  BY <1>1, WorkspaceInvariant, PTL

(* No step changes what a version stands for: layers with their members,     *)
(* objects with their passports, settings (the version columns of the map    *)
(* tables and expected_version in the services).                             *)
THEOREM VersionsKeepContent == Spec => VersionsNameContent
<1>1. ASSUME WorkspaceInductive, [Next]_vars
      PROVE  /\ \A l \in Existing \cap Existing' :
                  \/ /\ Content(l)' = Content(l) /\ Members(l)' = Members(l) \cap There'
                     /\ layer'[l].version >= layer[l].version
                  \/ layer'[l].version > layer[l].version
             /\ \A t \in (There \cap There') \ Houses :
                  Text(t)' = Text(t) \/ object'[t].version > object[t].version
             /\ \A t \in There \cap There' :
                  passport'[t] = passport[t] \/ passport'[t].version > passport[t].version
             /\ \A u \in Users :
                  preference'[u] = preference[u] \/ preference'[u].version > preference[u].version
  <2>1. Step /\ TablesOK
    BY <1>1, NextIsStep DEF WorkspaceInductive, LayersSound, TypeOK
  <2>2. /\ \A l \in Layers : layer[l].version \in Nat /\ layer'[l].version \in Nat
        /\ \A t \in Targets : /\ object[t].version \in Nat /\ object'[t].version \in Nat
                              /\ passport[t].version \in Nat /\ passport'[t].version \in Nat
        /\ \A u \in Users : preference[u].version \in Nat /\ preference'[u].version \in Nat
    BY <2>1 DEF Step, TablesSound, TablesOK, LayerRows, ObjectRows, PassportRows, PreferenceRows
  <2>3. ASSUME NEW l \in Existing \cap Existing'
        PROVE  \/ /\ Content(l)' = Content(l) /\ Members(l)' = Members(l) \cap There'
                  /\ layer'[l].version >= layer[l].version
               \/ layer'[l].version > layer[l].version
    <3>1. Since(layer[l], layer'[l]) /\ l \in Layers
      BY <2>1 DEF Step, Grown, Existing, Modes
    <3>2. layer'[l] = layer[l] => Members(l)' = Members(l) \cap There'
      BY <2>1 DEF Step, MembersFollow
    <3>3. layer'[l] = layer[l] => Content(l)' = Content(l)
      BY DEF Content
    <3> QED  BY <2>2, <3>1, <3>2, <3>3 DEF Since
  <2>4. ASSUME NEW t \in There \cap There'
        PROVE  /\ passport'[t] = passport[t] \/ passport'[t].version > passport[t].version
               /\ t \notin Houses => Text(t)' = Text(t) \/ object'[t].version > object[t].version
    <3>1. t \in Targets /\ object[t].state # "unused"
      BY DEF There
    <3>2. /\ Since(passport[t], passport'[t])
          /\ t \notin Houses => Since(object[t], object'[t])
          /\ t \notin Houses /\ object'[t] = object[t] => passport'[t] = passport[t]
      BY <2>1, <3>1 DEF Step, Grown
    <3>3. object'[t] = object[t] /\ passport'[t] = passport[t] => Text(t)' = Text(t)
      BY DEF Text
    <3> QED  BY <2>2, <3>1, <3>2, <3>3 DEF Since
  <2>5. ASSUME NEW u \in Users
        PROVE  preference'[u] = preference[u] \/ preference'[u].version > preference[u].version
    BY <2>1, <2>2 DEF Step, Grown, Since
  <2> QED  BY <2>3, <2>4, <2>5
<1> QED  BY <1>1, WorkspaceInvariant, PTL DEF Spec, VersionsNameContent

-----------------------------------------------------------------------------
(* The store                                                                 *)

Copies == [w \in Workers |-> Copied(w)]

(* The values of the store by their names here.                              *)
LEMMA ContractNames ==
  /\ Contract!Unborn = Empty /\ Contract!Ended = Lost
  /\ Contract!Nothing = [record |-> None, seen |-> Empty, blind |-> FALSE]
BY DEF Contract!Unborn, Contract!Ended, Contract!Nothing, Empty, Lost

(* What each record says, before and after a step.                           *)
LEMMA StoredFacts ==
  /\ \A l \in Layers :
       l \in Records /\ Stored[l] = LayerRecord(layer[l]) /\ Stored'[l] = LayerRecord(layer'[l])
  /\ \A u \in Users :
       /\ u \in Records /\ Stored[u] = PreferenceRecord(preference[u])
       /\ Stored'[u] = PreferenceRecord(preference'[u])
  /\ \A t \in Targets :
       /\ t \in Records /\ Stored[t] = ObjectRecord(object[t], passport[t])
       /\ Stored'[t] = ObjectRecord(object'[t], passport'[t])
<1>1. \A l \in Layers : l \notin Targets \cup Users
  BY TargetAssumption
<1>2. \A u \in Users : u \notin Targets \cup Layers
  BY TargetAssumption
<1>3. \A t \in Targets : t \notin Layers \cup Users
  BY TargetAssumption
<1>4. \A l \in Layers :
        l \in Records /\ Stored[l] = LayerRecord(layer[l]) /\ Stored'[l] = LayerRecord(layer'[l])
  BY <1>1 DEF Stored, Records, LayerRecord
<1>5. \A u \in Users :
        /\ u \in Records /\ Stored[u] = PreferenceRecord(preference[u])
        /\ Stored'[u] = PreferenceRecord(preference'[u])
  BY <1>2 DEF Stored, Records, PreferenceRecord
<1>6. \A t \in Targets :
        /\ t \in Records /\ Stored[t] = ObjectRecord(object[t], passport[t])
        /\ Stored'[t] = ObjectRecord(object'[t], passport'[t])
  BY <1>3 DEF Stored, Records, ObjectRecord
<1> QED  BY <1>4, <1>5, <1>6

(* Records whose rows keep their words keep their bodies.                    *)
LEMMA WordsKept ==
  ASSUME NEW rest \in SUBSET Records,
         \A l \in rest \cap Layers : layer[l].mode # "unused" =>
           layer'[l].mode = layer[l].mode /\ layer'[l].text = layer[l].text,
         \A t \in rest \cap Targets : object[t].state # "unused" =>
           /\ object'[t].state = object[t].state /\ object'[t].text = object[t].text
           /\ passport'[t].data = passport[t].data,
         \A u \in rest \cap Users : preference'[u] = preference[u]
  PROVE  Contract!BodiesKept(rest)
<1>1. ASSUME NEW l \in rest \cap Layers, Stored[l] # Empty  PROVE Stored'[l].body = Stored[l].body
  <2>1. Stored[l] = LayerRecord(layer[l]) /\ Stored'[l] = LayerRecord(layer'[l])
    BY StoredFacts
  <2>2. layer[l].mode # "unused"
    BY <1>1, <2>1 DEF LayerRecord
  <2>3. LayerRecord(layer'[l]).body = LayerRecord(layer[l]).body
    BY <2>2 DEF LayerRecord, Lost
  <2> QED  BY <2>1, <2>3
<1>2. ASSUME NEW t \in rest \cap Targets, Stored[t] # Empty  PROVE Stored'[t].body = Stored[t].body
  <2>1. Stored[t] = ObjectRecord(object[t], passport[t]) /\ Stored'[t] = ObjectRecord(object'[t], passport'[t])
    BY StoredFacts
  <2>2. object[t].state # "unused"
    BY <1>2, <2>1 DEF ObjectRecord
  <2>3. ObjectRecord(object'[t], passport'[t]).body = ObjectRecord(object[t], passport[t]).body
    BY <2>2 DEF ObjectRecord, Lost
  <2> QED  BY <2>1, <2>3
<1>3. ASSUME NEW u \in rest \cap Users  PROVE Stored'[u].body = Stored[u].body
  BY StoredFacts
<1>4. \A s \in rest : s \in Layers \/ s \in Targets \/ s \in Users
  BY DEF Records
<1> QED  BY <1>1, <1>2, <1>3, <1>4, ContractNames DEF Contract!BodiesKept

(* The record a request is about; none for a layer that is created.          *)
About(op) ==
  IF op.layer # None THEN op.layer ELSE IF op.user # None THEN op.user ELSE op.target

(* A record with the house of another.                                       *)
LEMMA SameRecord ==
  ASSUME NEW old \in ObjectRows, NEW row \in ObjectRows, NEW pass,
         old.state = "there", row.state = "there", old.text = row.text
  PROVE  ObjectRecord([old EXCEPT !.house = row.house], pass) = ObjectRecord(row, pass)
BY DEF ObjectRecord, ObjectRows

(* A copy of an object, by its parts.                                        *)
LEMMA ObjectCopy ==
  ASSUME NEW w, Op(w).layer = None, Op(w).user = None, Op(w).target # None
  PROVE  Copied(w) = [record |-> Op(w).target, seen |-> ObjectRecord(SeenObject(w), Seen(w).passport),
                      blind |-> ~Op(w).versioned]
BY DEF Copied

(* A request that has the lock finds the record it saw, or some record if it *)
(* names no version.                                                         *)
LEMMA FindsWhatItSaw ==
  ASSUME WorkspaceInductive, NEW w \in Workers, HasCompany(w)
  PROVE  IF Op(w).kind = "create" THEN Copied(w) = [record |-> None, seen |-> Empty, blind |-> FALSE]
         ELSE /\ About(Op(w)) \in Records /\ About(Op(w)) # None
              /\ Copied(w).record = About(Op(w)) /\ Copied(w).blind = ~Op(w).versioned
              /\ Op(w).versioned => Stored[About(Op(w))] = Copied(w).seen
              /\ ~Op(w).versioned => Stored[About(Op(w))] \notin {Empty, Lost}
<1>1. /\ TablesSound /\ req[w] \in Requests
      /\ AsksWell(Op(w)) /\ Remembers(req[w]) /\ StillPermits(req[w])
  BY AboutToCommit DEF HasCompany, At
<1>2. PICK r \in Requests : r = req[w]
  BY <1>1
<1>3. PICK op : op = r.op
  OBVIOUS
<1>4. PICK s : s = r.seen
  OBVIOUS
<1>5. /\ AsksWell(op) /\ Op(w) = op /\ Seen(w) = s
      /\ op.layer \in Layers \cup {None} /\ op.target \in Targets \cup {None} /\ op.user \in Users \cup {None}
  BY <1>1, <1>2, <1>3, <1>4, RequestTypes DEF Op, Seen
<1>6. /\ op.layer # None /\ op.layer \in Existing => Since(s.layer, layer[op.layer])
      /\ op.target # None /\ op.target \in There =>
           /\ op.target \in Houses => object[op.target] = s.object
           /\ op.target \notin Houses => Since(s.object, object[op.target])
           /\ Since(s.passport, passport[op.target])
           /\ op.target \notin Houses /\ object[op.target] = s.object => passport[op.target] = s.passport
      /\ op.user # None => Since(s.preference, preference[op.user])
  BY <1>1, <1>2, <1>3, <1>4 DEF Remembers
<1>7. \A x, y : Since(x, y) /\ y.version \in Nat /\ x.version = y.version => x = y
  BY DEF Since
<1>8. /\ \A l \in Layers : layer[l].version \in Nat
      /\ \A t \in Targets : object[t].version \in Nat /\ passport[t].version \in Nat
      /\ \A u \in Users : preference[u].version \in Nat
  BY <1>1 DEF TablesSound, TablesOK, LayerRows, ObjectRows, PassportRows, PreferenceRows
<1>9. op.kind \in Kinds
  BY <1>5 DEF AsksWell
<1>10. CASE op.kind = "create"
  <2>1. op.layer = None /\ op.user = None /\ op.target = None
    BY <1>5, <1>10 DEF AsksWell
  <2>2. op.versioned
    BY <1>5, <1>10 DEF AsksWell
  <2> QED  BY <1>5, <1>10, <2>1, <2>2 DEF Copied
<1>11. CASE op.kind \in {"save", "delete", "move", "member"}
  <2>1. op.layer # None /\ op.layer \in Layers
    BY <1>5, <1>11 DEF AsksWell
  <2>2. LayerSeen(op, s)
    BY <1>1, <1>2, <1>3, <1>4, <1>11 DEF StillPermits, Permitted, SavePermitted
  <2>3. s.layer = layer[op.layer]
    BY <1>6, <1>7, <1>8, <2>1, <2>2 DEF LayerSeen
  <2>4. op.versioned
    BY <1>5, <1>11 DEF AsksWell
  <2>5. /\ Copied(w).record = op.layer /\ Copied(w).blind = ~op.versioned
        /\ Copied(w).seen = LayerRecord(s.layer)
    BY <1>5, <2>1 DEF Copied
  <2> QED  BY <1>5, <1>11, <2>1, <2>3, <2>4, <2>5, StoredFacts DEF About
<1>12. CASE op.kind = "prefer"
  <2>1. op.layer = None /\ op.user # None /\ op.user \in Users
    BY <1>5, <1>12 DEF AsksWell
  <2>2. preference[op.user].version = s.preference.version
    BY <1>1, <1>2, <1>3, <1>4, <1>12 DEF StillPermits, Permitted
  <2>3. s.preference = preference[op.user]
    BY <1>6, <1>7, <1>8, <2>1, <2>2
  <2>4. op.versioned
    BY <1>5, <1>12 DEF AsksWell
  <2>5. /\ Copied(w).record = op.user /\ Copied(w).blind = ~op.versioned
        /\ Copied(w).seen = PreferenceRecord(s.preference)
    BY <1>5, <2>1 DEF Copied
  <2> QED  BY <1>5, <1>12, <2>1, <2>3, <2>4, <2>5, StoredFacts DEF About
<1>13. CASE op.kind \in {"passport", "update", "split", "erase"}
  <2>1. /\ op.layer = None /\ op.user = None /\ op.target # None /\ op.target \in Targets
        /\ About(op) = op.target /\ About(op) \in Records /\ About(op) # None
    BY <1>5, <1>13 DEF AsksWell, About, Records
  <2>2. /\ Copied(w).record = op.target /\ Copied(w).blind = ~op.versioned
        /\ Copied(w).seen = ObjectRecord(SeenObject(w), s.passport)
    BY <1>5, <2>1, ObjectCopy
  <2>3. Stored[op.target] = ObjectRecord(object[op.target], passport[op.target])
    BY <2>1, StoredFacts
  <2>4. op.target \in There
    BY <1>1, <1>2, <1>3, <1>4, <1>13
    DEF StillPermits, UpdateHolds, Permitted, PassportPermitted, ObjectSeen
  <2>5. ASSUME op.kind # "update", op.versioned
        PROVE  s.object = object[op.target] /\ s.passport = passport[op.target]
    <3>1. CASE op.kind = "passport"
      <4>1. PassportPermitted(op, s)
        BY <1>1, <1>2, <1>3, <1>4, <3>1 DEF StillPermits, Permitted
      <4>2. op.target \in There /\ passport[op.target].version = s.passport.version
        BY <4>1 DEF PassportPermitted
      <4>3. s.passport = passport[op.target]
        BY <1>6, <1>7, <1>8, <2>1, <4>2
      <4>4. op.target \notin Houses => s.object = object[op.target]
        BY <1>6, <1>7, <1>8, <2>1, <4>1, <4>2 DEF PassportPermitted
      <4> QED  BY <1>6, <2>1, <4>2, <4>3, <4>4
    <3>2. CASE op.kind \in {"split", "erase"}
      <4>1. ObjectSeen(op, s)
        BY <1>1, <1>2, <1>3, <1>4, <3>2 DEF StillPermits, Permitted
      <4> QED  BY <1>1, <1>2, <1>3, <1>4, <1>5, <2>5, <3>2, <4>1, SameVersion
    <3> QED  BY <1>13, <2>5, <3>1, <3>2
  <2>6. CASE op.versioned /\ op.kind # "update"
    <3>1. SeenObject(w) = s.object
      BY <1>5, <2>6 DEF SeenObject
    <3> QED  BY <1>5, <1>13, <2>1, <2>2, <2>3, <2>5, <2>6, <3>1
  <2>7. CASE op.versioned /\ op.kind = "update"
    <3>1. SeenObject(w) = [s.object EXCEPT !.house = object[op.target].house]
      BY <1>5, <2>7 DEF SeenObject
    <3>2. /\ s.object.state = "there" /\ s.object.text = object[op.target].text
          /\ s.passport = passport[op.target]
      BY <1>1, <1>2, <1>3, <1>4, <2>7 DEF StillPermits, UpdateHolds
    <3>3. object[op.target].state = "there" /\ object[op.target] \in ObjectRows /\ s.object \in ObjectRows
      BY <1>1, <1>2, <1>4, <2>1, <2>4, RequestTypes DEF There, TablesSound, TablesOK
    <3>4. ObjectRecord(SeenObject(w), s.passport) = ObjectRecord(object[op.target], s.passport)
      BY <3>1, <3>2, <3>3, SameRecord
    <3> QED  BY <1>5, <1>13, <2>1, <2>2, <2>3, <2>7, <3>2, <3>4
  <2>8. CASE ~op.versioned
    <3>1. object[op.target].state = "there"
      BY <2>4 DEF There
    <3>2. Stored[op.target] \notin {Empty, Lost}
      BY <2>3, <3>1 DEF ObjectRecord, Empty, Lost
    <3> QED  BY <1>5, <1>13, <2>1, <2>2, <2>8, <3>2
  <2> QED  BY <2>6, <2>7, <2>8
<1> QED  BY <1>5, <1>9, <1>10, <1>11, <1>12, <1>13 DEF Kinds

(* A copy depends on the tables only while its client has the lock.          *)
LEMMA CopyKept ==
  ASSUME NEW v \in Workers, req'[v] = req[v], HasCompany(v) => object' = object
  PROVE  Copied(v)' = Copied(v)
<1>1. /\ Op(v)' = Op(v) /\ Seen(v)' = Seen(v) /\ HasCompany(v)' = HasCompany(v)
  BY DEF Op, Seen, HasCompany
<1>2. SeenObject(v)' = SeenObject(v)
  BY <1>1 DEF SeenObject
<1> QED  BY <1>1, <1>2 DEF Copied

(* Nobody is about anything at rest.                                         *)
LEMMA IdleCopy ==
  ASSUME NEW w \in Workers, req[w] = Idle
  PROVE  Copied(w) = [record |-> None, seen |-> Empty, blind |-> FALSE]
<1>1. Op(w).layer = None /\ Op(w).user = None /\ Op(w).target = None /\ Op(w).versioned = TRUE
  BY IdleRequest DEF Op, Blank
<1> QED  BY <1>1 DEF Copied

(* An ended request leaves no copy.                                          *)
LEMMA CopyGone ==
  ASSUME NEW w \in Workers, req \in [Workers -> Requests], Become(w, Idle),
         \A v \in Workers \ {w} : HasCompany(v) => object' = object
  PROVE  Copies' = [Copies EXCEPT ![w] = Contract!Nothing]
<1>1. req'[w] = Idle /\ \A v \in Workers \ {w} : req'[v] = req[v]
  BY DEF Become
<1>2. Copied(w)' = [record |-> None, seen |-> Empty, blind |-> FALSE]
  <2>1. /\ Op(w)'.layer = None /\ Op(w)'.user = None /\ Op(w)'.target = None
        /\ Op(w)'.versioned = TRUE
    BY <1>1, IdleRequest DEF Op, Blank
  <2> QED  BY <2>1 DEF Copied
<1>3. \A v \in Workers \ {w} : Copied(v)' = Copied(v)
  BY <1>1, CopyKept
<1> QED  BY <1>2, <1>3, ContractNames DEF Copies

(* What a write says of records it is not about.                             *)
LEMMA OtherWords ==
  ASSUME WorkspaceInductive, NEW w \in Workers, Writes(w), Op(w).kind # "create"
  PROVE  Contract!BodiesKept(Records \ {About(Op(w))})
<1>1. At(w, "locked") \/ At(w, "rows")
  BY DEF Writes, WriteRows, InsertLayer, DeleteLayer, SetMembership, SavePreferences, SavePassport,
         UpdateMarker, SplitConnection, EraseObject, Commits
<1>2. /\ TablesSound /\ Op(w) \in Asked /\ AsksWell(Op(w)) /\ StillPermits(req[w])
  BY <1>1, AboutToCommit
<1>3. PICK op : op = Op(w)
  OBVIOUS
<1>4. /\ op.kind \in {"save", "delete", "move", "member"} => op.layer # None /\ About(op) = op.layer
      /\ op.kind = "prefer" => About(op) = op.user
      /\ op.kind \in {"passport", "update", "split", "erase"} => About(op) = op.target
  BY <1>2, <1>3 DEF AsksWell, About
<1>5. PICK rest \in SUBSET Records : rest = Records \ {About(op)}
  OBVIOUS
<1>6. /\ layer \in [Layers -> LayerRows] /\ object \in [Targets -> ObjectRows]
      /\ passport \in [Targets -> PassportRows] /\ preference \in [Users -> PreferenceRows]
  BY <1>2 DEF TablesSound, TablesOK
<1>7. CASE WriteRows(w)
  <2>1. /\ op.kind \in {"save", "move"} /\ UNCHANGED <<object, passport, preference>>
        /\ layer' = [l \in Layers |-> IF req[w].rows[l] # NoLayer THEN req[w].rows[l] ELSE layer[l]]
    BY <1>3, <1>7 DEF WriteRows, Commits
  <2>2. req[w].rows = Rows(op) /\ op.layer \in Existing
    BY <1>2, <1>3, <2>1 DEF StillPermits, Permitted, SavePermitted, LayerSeen, Op
  <2>3. ASSUME NEW l \in Layers, l # op.layer
        PROVE  layer'[l].mode = layer[l].mode /\ layer'[l].text = layer[l].text
    <3>1. CASE op.kind = "save"
      <4>1. Rows(op)[l] = NoLayer
        BY <2>3, <3>1 DEF Rows, SavedRows, NoRows
      <4> QED  BY <2>1, <2>2, <4>1
    <3>2. CASE op.kind = "move"
      <4>1. Rows(op) = MovedRows(op)
        BY <3>2 DEF Rows
      <4>2. MovedRows(op)[l] # NoLayer =>
              MovedRows(op)[l].mode = layer[l].mode /\ MovedRows(op)[l].text = layer[l].text
        BY <1>2, <1>3, <2>2, MovedRowsKeep DEF TablesSound
      <4> QED  BY <2>1, <2>2, <4>1, <4>2
    <3> QED  BY <2>1, <3>1, <3>2
  <2>4. \A l \in rest \cap Layers : l # op.layer
    BY <1>4, <1>5, <2>1
  <2>5. Contract!BodiesKept(rest)
    BY <2>1, <2>3, <2>4, WordsKept
  <2> QED  BY <1>3, <1>5, <2>5
<1>8. CASE DeleteLayer(w)
  <2>1. /\ op.kind = "delete" /\ UNCHANGED <<object, passport, preference>>
        /\ layer' = Lift(op.layer, req[w].rows[op.layer].parent)
    BY <1>3, <1>8 DEF DeleteLayer, Commits
  <2>2. PICK p : p = req[w].rows[op.layer].parent
    OBVIOUS
  <2>3. ASSUME NEW l \in Layers, l # op.layer
        PROVE  layer'[l].mode = layer[l].mode /\ layer'[l].text = layer[l].text
    <3>1. layer[l] \in LayerRows
      BY <1>6
    <3>2. layer'[l] = layer[l] \/ layer'[l] = [layer[l] EXCEPT !.parent = p, !.version = @ + 1]
      BY <2>1, <2>2, <2>3 DEF Lift
    <3> QED  BY <3>1, <3>2 DEF LayerRows
  <2>4. \A l \in rest \cap Layers : l # op.layer
    BY <1>4, <1>5, <2>1
  <2>5. Contract!BodiesKept(rest)
    BY <2>1, <2>3, <2>4, WordsKept
  <2> QED  BY <1>3, <1>5, <2>5
<1>9. CASE SetMembership(w)
  <2>1. /\ op.kind = "member" /\ UNCHANGED <<object, passport, preference>>
        /\ layer' = [layer EXCEPT ![op.layer].version = req[w].rows[op.layer].version + 1]
    BY <1>3, <1>9 DEF SetMembership, Commits
  <2>2. \A l \in Layers : l # op.layer => layer'[l] = layer[l]
    BY <1>6, <2>1
  <2>3. \A l \in rest \cap Layers : l # op.layer
    BY <1>4, <1>5, <2>1
  <2>4. Contract!BodiesKept(rest)
    BY <2>1, <2>2, <2>3, WordsKept
  <2> QED  BY <1>3, <1>5, <2>4
<1>10. CASE SavePreferences(w)
  <2>1. /\ op.kind = "prefer" /\ UNCHANGED <<layer, object, passport>>
        /\ \A u \in Users : u # op.user => preference'[u] = preference[u]
    BY <1>3, <1>6, <1>10 DEF SavePreferences, Commits
  <2>2. \A u \in rest \cap Users : u # op.user
    BY <1>4, <1>5, <2>1
  <2>3. Contract!BodiesKept(rest)
    BY <2>1, <2>2, WordsKept
  <2> QED  BY <1>3, <1>5, <2>3
<1>11. CASE SavePassport(w)
  <2>1. /\ op.kind = "passport" /\ UNCHANGED <<layer, preference>>
        /\ \A t \in Targets : t # op.target => object'[t] = object[t] /\ passport'[t] = passport[t]
    BY <1>3, <1>6, <1>11 DEF SavePassport, Commits, WithText
  <2>2. \A t \in rest \cap Targets : t # op.target
    BY <1>4, <1>5, <2>1
  <2>3. Contract!BodiesKept(rest)
    BY <2>1, <2>2, WordsKept
  <2> QED  BY <1>3, <1>5, <2>3
<1>12. CASE UpdateMarker(w)
  <2>1. /\ op.kind = "update" /\ UNCHANGED <<layer, passport, preference>>
        /\ object' = [t \in Targets |->
             IF t = op.target
             THEN [object[t] EXCEPT !.text = op.text, !.house = req[w].target, !.version = @ + 1]
             ELSE IF t \in Displaced(req[w]) THEN [object[t] EXCEPT !.house = None, !.version = @ + 1]
             ELSE object[t]]
    BY <1>2, <1>3, <1>12 DEF UpdateMarker, StillPermits, Op, At
  <2>2. ASSUME NEW t \in Targets, t # op.target
        PROVE  object'[t].state = object[t].state /\ object'[t].text = object[t].text
    <3>1. object[t] \in ObjectRows
      BY <1>6
    <3>2. object'[t] = object[t] \/ object'[t] = [object[t] EXCEPT !.house = None, !.version = @ + 1]
      BY <2>1, <2>2
    <3> QED  BY <3>1, <3>2 DEF ObjectRows
  <2>3. \A t \in rest \cap Targets : t # op.target
    BY <1>4, <1>5, <2>1
  <2>4. Contract!BodiesKept(rest)
    BY <2>1, <2>2, <2>3, WordsKept
  <2> QED  BY <1>3, <1>5, <2>4
<1>13. CASE SplitConnection(w)
  <2>1. op.kind = "split" /\ UNCHANGED <<passport, preference>>
    BY <1>3, <1>13 DEF SplitConnection, Commits
  <2>2. PICK m \in NewIds(Markers), tail \in NewIds(Lines) \cup {None} :
          object' = [t \in Targets |->
               IF t = op.target THEN [object[op.target] EXCEPT !.version = @ + 1]
               ELSE IF t \in {m, tail} THEN [object[op.target] EXCEPT !.version = 1]
               ELSE object[t]]
    BY <1>3, <1>13 DEF SplitConnection
  <2>3. \A t \in Targets : t # op.target /\ object[t].state # "unused" => object'[t] = object[t]
    <3>1. \A t \in Targets : t \in {m, tail} => object[t].state = "unused"
      BY <1>2, ObjectFacts, TargetAssumption DEF NewIds
    <3> QED  BY <2>2, <3>1
  <2>4. ASSUME NEW l \in Layers  PROVE layer'[l].mode = layer[l].mode /\ layer'[l].text = layer[l].text
    <3>1. layer[l] \in LayerRows
      BY <1>6
    <3>2. layer'[l] = layer[l] \/ layer'[l] = [layer[l] EXCEPT !.version = @ + 1]
      BY <1>13 DEF SplitConnection
    <3> QED  BY <3>1, <3>2 DEF LayerRows
  <2>5. \A t \in rest \cap Targets : t # op.target
    BY <1>4, <1>5, <2>1
  <2>6. Contract!BodiesKept(rest)
    BY <2>1, <2>3, <2>4, <2>5, WordsKept
  <2> QED  BY <1>3, <1>5, <2>6
<1>14. CASE EraseObject(w)
  <2>1. /\ op.kind = "erase" /\ UNCHANGED <<layer, preference>>
        /\ \A t \in Targets : t # op.target => object'[t] = object[t] /\ passport'[t] = passport[t]
    BY <1>3, <1>6, <1>14 DEF EraseObject, Without, Commits
  <2>2. \A t \in rest \cap Targets : t # op.target
    BY <1>4, <1>5, <2>1
  <2>3. Contract!BodiesKept(rest)
    BY <2>1, <2>2, WordsKept
  <2> QED  BY <1>3, <1>5, <2>3
<1>15. ~InsertLayer(w)
  BY DEF InsertLayer, Commits
<1> QED  BY <1>7, <1>8, <1>9, <1>10, <1>11, <1>12, <1>13, <1>14, <1>15 DEF Writes

(* A write is a save over the record that was seen, or a creation.           *)
LEMMA WriteRefines ==
  ASSUME WorkspaceInductive, NEW w \in Workers, Writes(w)
  PROVE  Contract!Save(w) \/ Contract!Create(w)
<1>1. HasCompany(w) /\ Become(w, Idle)
  BY WritesStep
<1>2. req \in [Workers -> Requests] /\ \A v \in Workers \ {w} : ~HasCompany(v)
  BY <1>1, NobodyElse DEF WorkspaceInductive, LayersSound, TypeOK
<1>3. Copies' = [Copies EXCEPT ![w] = Contract!Nothing]
  BY <1>1, <1>2, CopyGone
<1>4. CASE Op(w).kind # "create"
  <2>1. /\ About(Op(w)) # None /\ Copies[w].record = About(Op(w)) /\ Copies[w].blind = ~Op(w).versioned
        /\ Op(w).versioned => Stored[About(Op(w))] = Copies[w].seen
        /\ ~Op(w).versioned => Stored[About(Op(w))] \notin {Empty, Lost}
    BY <1>1, <1>4, FindsWhatItSaw DEF Copies
  <2>2. Contract!BodiesKept(Records \ {About(Op(w))})
    BY <1>4, OtherWords
  <2>3. Op(w).versioned => Contract!UpToDate(w)
    BY <2>1 DEF Contract!UpToDate, Copies
  <2>4. ~Op(w).versioned => Contract!Overwrites(w)
    BY <2>1, ContractNames DEF Contract!Overwrites, Copies
  <2>5. Contract!Save(w)
    BY <1>3, <2>1, <2>2, <2>3, <2>4 DEF Contract!Save, Copies
  <2> QED  BY <2>5
<1>5. CASE Op(w).kind = "create"
  <2>1. Copies[w] = [record |-> None, seen |-> Empty, blind |-> FALSE]
    BY <1>1, <1>5, FindsWhatItSaw DEF Copies
  <2>2. Copies' = Copies
    BY <1>3, <2>1, ContractNames DEF Copies
  <2>3. InsertLayer(w)
    <3>1. ~UpdateMarker(w)
      BY <1>5, AboutToCommit DEF UpdateMarker, StillPermits, Op, At
    <3> QED  BY <1>5, <3>1 DEF Writes, WriteRows, InsertLayer, DeleteLayer, SetMembership, SavePreferences,
                               SavePassport, SplitConnection, EraseObject, Commits
  <2>4. /\ UNCHANGED <<object, passport, preference>>
        /\ NextLayer \in Unused /\ NextLayer \in Layers
        /\ \A l \in Layers : layer[l].mode # "unused" => layer'[l] = layer[l]
    <3>1. NextLayer \in Unused /\ NextLayer \in Layers
      BY <2>3, NextIsUnused DEF InsertLayer
    <3>2. layer \in [Layers -> LayerRows]
      BY DEF WorkspaceInductive, LayersSound, TypeOK, TablesOK
    <3>3. layer' = [layer EXCEPT ![NextLayer] = req[w].rows[0]]
      BY <2>3 DEF InsertLayer
    <3>4. \A l \in Layers : layer[l].mode # "unused" => l # NextLayer
      BY <3>1 DEF Unused
    <3> HIDE DEF NextLayer
    <3> QED  BY <2>3, <3>1, <3>2, <3>3, <3>4 DEF InsertLayer
  <2>5. Records \in SUBSET Records
    OBVIOUS
  <2>6. Contract!BodiesKept(Records)
    BY <2>4, <2>5, WordsKept
  <2>7. NextLayer \in Records /\ Stored[NextLayer] = Contract!Unborn
    BY <2>4, StoredFacts, ContractNames DEF LayerRecord, Unused
  <2>8. Contract!Create(w)
    BY <2>1, <2>2, <2>6, <2>7 DEF Contract!Create, Copies
  <2> QED  BY <2>8
<1> QED  BY <1>4, <1>5

(* Where the tables are left alone, the store is what it was.                *)
LEMMA StoreAlone ==
  ASSUME UNCHANGED tables
  PROVE  Stored' = Stored
BY DEF tables, Stored, LayerRecord, ObjectRecord, PreferenceRecord

(* A look copies the record, unless it is about none.                        *)
LEMMA LookRefines ==
  ASSUME WorkspaceInductive, NEW w \in Workers, NEW op, Sensible(op), Look(w, op)
  PROVE  \/ \E r \in Records, blind \in BOOLEAN : Contract!Look(w, r, blind)
         \/ UNCHANGED Contract!vars
<1>1. PICK q : q = [Idle EXCEPT !.pc = "open", !.op = op, !.seen = View(op)]
  OBVIOUS
<1>2. q.op = op /\ q.seen = View(op) /\ q.pc = "open"
  BY <1>1, IdleRequest DEF Idle
<1>3. req \in [Workers -> Requests] /\ req[w] = Idle /\ req' = [req EXCEPT ![w] = q] /\ UNCHANGED tables
  BY <1>1 DEF Look, Become, At, WorkspaceInductive, LayersSound, TypeOK
<1>4. req'[w] = q /\ \A v \in Workers \ {w} : req'[v] = req[v]
  BY <1>3
<1>5. \A v \in Workers \ {w} : Copied(v)' = Copied(v)
  <2>1. object' = object
    BY <1>3 DEF tables
  <2> QED  BY <1>4, <2>1, CopyKept
<1>6. Stored' = Stored
  BY <1>3, StoreAlone
<1>7. /\ op.layer # None => op.layer \in Layers
      /\ op.target # None => op.target \in Targets
      /\ op.user # None => op.user \in Users
  BY DEF Sensible, Existing, There
<1>8. CASE op.layer = None /\ op.user = None /\ op.target = None
  <2>1. Copied(w) = [record |-> None, seen |-> Empty, blind |-> FALSE]
    BY <1>3, IdleCopy
  <2>2. Copied(w)' = [record |-> None, seen |-> Empty, blind |-> FALSE]
    <3>1. op.versioned = TRUE
      BY <1>8 DEF Sensible, Asked, AsksWell
    <3> QED  BY <1>2, <1>4, <1>8, <3>1 DEF Copied, Op
  <2>3. Copies' = Copies
    BY <1>5, <2>1, <2>2 DEF Copies
  <2> QED  BY <1>6, <2>3 DEF Contract!vars, Copies
<1>9. CASE ~(op.layer = None /\ op.user = None /\ op.target = None)
  <2>1. /\ About(op) \in Records
        /\ Copied(w)' = [record |-> About(op), seen |-> Stored[About(op)], blind |-> ~op.versioned]
    <3>1. Op(w)' = op /\ Seen(w)' = View(op) /\ SeenObject(w)' = View(op).object
      BY <1>2, <1>4 DEF Op, Seen, SeenObject, HasCompany
    <3>2. CASE op.layer # None
      <4>1. Copied(w)' = [record |-> op.layer, seen |-> LayerRecord(View(op).layer), blind |-> ~op.versioned]
        BY <3>1, <3>2 DEF Copied
      <4> QED  BY <1>7, <3>2, <4>1, Seeing, StoredFacts DEF About
    <3>3. CASE op.layer = None /\ op.user # None
      <4>1. Copied(w)' = [record |-> op.user, seen |-> PreferenceRecord(View(op).preference),
                          blind |-> ~op.versioned]
        BY <3>1, <3>3 DEF Copied
      <4> QED  BY <1>7, <3>3, <4>1, Seeing, StoredFacts DEF About
    <3>4. CASE op.layer = None /\ op.user = None /\ op.target # None
      <4>1. Copied(w)' = [record |-> op.target, seen |-> ObjectRecord(View(op).object, View(op).passport),
                          blind |-> ~op.versioned]
        BY <3>1, <3>4 DEF Copied
      <4> QED  BY <1>7, <3>4, <4>1, Seeing, StoredFacts DEF About
    <3> QED  BY <1>9, <3>2, <3>3, <3>4
  <2>2. Copies' = [Copies EXCEPT ![w] =
                    [record |-> About(op), seen |-> Stored[About(op)], blind |-> ~op.versioned]]
    BY <1>5, <2>1 DEF Copies
  <2>3. Contract!Look(w, About(op), ~op.versioned) /\ (~op.versioned) \in BOOLEAN
    BY <1>6, <2>2 DEF Contract!Look, Copies
  <2> QED  BY <2>1, <2>3
<1> QED  BY <1>8, <1>9

(* A house that ends takes nothing else along but places. Updates of its     *)
(* marker that have passed the check keep up with it.                        *)
LEMMA DemolishRefines ==
  ASSUME WorkspaceInductive, NEW h \in Houses, Demolish(h)
  PROVE  \E caught \in SUBSET Workers : Contract!End(h, caught)
<1> DEFINE left == {m \in Markers : object[m].house = h}
           Catches(w) == /\ HasCompany(w) /\ Op(w).kind = "update" /\ Op(w).versioned
                         /\ object[Op(w).target].house = h
<1>1. /\ UNCHANGED <<req, layer, preference>>
      /\ object' = [t \in Targets |->
           IF t = h THEN Erased
           ELSE IF t \in left THEN [object[t] EXCEPT !.house = None, !.version = @ + 1] ELSE object[t]]
      /\ passport' = [passport EXCEPT ![h] = NoPassport]
  BY DEF Demolish, Without
<1>2. /\ object \in [Targets -> ObjectRows] /\ passport \in [Targets -> PassportRows] /\ h \in Targets
  BY DEF WorkspaceInductive, LayersSound, TypeOK, TablesOK, Targets
<1> HIDE DEF left
<1>3. ASSUME NEW t \in Targets \ {h}
      PROVE  object'[t].state = object[t].state /\ object'[t].text = object[t].text /\ passport'[t] = passport[t]
  <2>1. object[t] \in ObjectRows
    BY <1>2
  <2>2. object'[t] = object[t] \/ object'[t] = [object[t] EXCEPT !.house = None, !.version = @ + 1]
    BY <1>1
  <2> QED  BY <1>1, <1>2, <2>1, <2>2 DEF ObjectRows
<1>4. PICK rest \in SUBSET Records : rest = Records \ {h}
  OBVIOUS
<1>5. Contract!BodiesKept(rest)
  BY <1>1, <1>3, <1>4, WordsKept
<1>6. Stored'[h] = Contract!Ended
  <2>1. object'[h] = Erased
    BY <1>1, <1>2
  <2>2. \A p : ObjectRecord(Erased, p) = Lost
    BY DEF ObjectRecord, Erased, NoObject
  <2> QED  BY <1>2, <2>1, <2>2, StoredFacts, ContractNames
<1>7. \A w \in Workers : /\ Op(w)' = Op(w) /\ Seen(w)' = Seen(w)
                         /\ HasCompany(w)' = HasCompany(w) /\ req[w] \in Requests
  BY <1>1 DEF Op, Seen, HasCompany, WorkspaceInductive, LayersSound, TypeOK
<1>8. ASSUME NEW w \in Workers, HasCompany(w), Op(w).kind = "update", Op(w).versioned
      PROVE  /\ Op(w).layer = None /\ Op(w).user = None /\ Op(w).target # None
             /\ Op(w).target \in Targets \ {h} /\ Op(w).target \in There
             /\ Seen(w).object \in ObjectRows /\ Seen(w).object.state = "there"
             /\ Seen(w).object.text = object[Op(w).target].text
             /\ Seen(w).passport = passport[Op(w).target]
  <2>1. AsksWell(Op(w)) /\ UpdateHolds(req[w])
    BY <1>8, AboutToCommit DEF HasCompany, At, StillPermits, Op
  <2>2. Op(w).target \in Markers
    BY <1>8, <2>1 DEF AsksWell
  <2> QED  BY <1>7, <1>8, <2>1, <2>2, RequestTypes, TargetAssumption
           DEF AsksWell, UpdateHolds, Op, Seen, Targets
<1>9. ASSUME NEW w \in Workers, Catches(w)
      PROVE  /\ Contract!UpToDate(w) /\ Copied(w).record # h
             /\ Copied(w)' = Contract!KeepsUp(w)
  <2>1. PICK t : t = Op(w).target
    OBVIOUS
  <2>2. /\ HasCompany(w) /\ Op(w).kind = "update" /\ Op(w).versioned
        /\ Op(w).layer = None /\ Op(w).user = None /\ t # None /\ t \in Targets \ {h}
        /\ Seen(w).object \in ObjectRows /\ Seen(w).object.state = "there"
        /\ Seen(w).object.text = object[t].text /\ Seen(w).passport = passport[t]
        /\ object[t].state = "there"
    BY <1>8, <1>9, <2>1 DEF There
  <2>3. Copied(w) = [record |-> t, seen |-> ObjectRecord(SeenObject(w), Seen(w).passport), blind |-> FALSE]
    BY <2>1, <2>2, ObjectCopy
  <2>4. Contract!UpToDate(w)
    <3>1. About(Op(w)) = t
      BY <2>1, <2>2 DEF About
    <3>2. Stored[t] = Copied(w).seen
      BY <2>2, <3>1, FindsWhatItSaw
    <3> QED  BY <2>2, <2>3, <3>2 DEF Contract!UpToDate
  <2>5. Copied(w)' = [record |-> t, seen |-> ObjectRecord(SeenObject(w)', Seen(w).passport), blind |-> FALSE]
    <3>1. Copied(w)' = [record |-> Op(w).target, seen |-> ObjectRecord(SeenObject(w)', Seen(w).passport),
                        blind |-> ~Op(w).versioned]
      BY <1>7, <2>1, <2>2 DEF Copied
    <3> QED  BY <2>1, <2>2, <3>1
  <2>6. SeenObject(w)' = [Seen(w).object EXCEPT !.house = object'[t].house]
    BY <1>7, <2>1, <2>2 DEF SeenObject
  <2>7. object'[t] \in ObjectRows /\ object'[t].state = "there" /\ object'[t].text = object[t].text
    <3>1. object' \in [Targets -> ObjectRows]
      BY DemolishStep DEF Step, TablesSound, TablesOK
    <3> QED  BY <1>3, <2>2, <3>1
  <2>8. Stored'[t] = ObjectRecord(object'[t], passport'[t]) /\ passport'[t] = passport[t]
    BY <1>3, <2>2, StoredFacts
  <2>9. ObjectRecord(SeenObject(w)', Seen(w).passport) = Stored'[t]
    <3>1. PICK row \in ObjectRows : row = object'[t]
      BY <2>7
    <3>2. PICK pass : pass = Seen(w).passport
      OBVIOUS
    <3>3. ObjectRecord([Seen(w).object EXCEPT !.house = row.house], pass) = ObjectRecord(row, pass)
      BY <2>2, <2>7, <3>1, SameRecord
    <3> QED  BY <2>2, <2>6, <2>8, <3>1, <3>2, <3>3
  <2>10. Contract!KeepsUp(w) = [record |-> t, seen |-> Stored'[t], blind |-> FALSE]
    <3>1. Copied(w).record = t /\ Copied(w).blind = FALSE
      BY <2>3
    <3>2. PICK b : b = Copied(w).blind
      OBVIOUS
    <3>3. Contract!KeepsUp(w) = [record |-> t, seen |-> Stored'[t], blind |-> b]
      BY <3>1, <3>2 DEF Contract!KeepsUp
    <3>4. b = FALSE
      BY <3>1, <3>2
    <3> QED  BY <3>3, <3>4, Zenon
  <2> QED  BY <2>2, <2>3, <2>4, <2>5, <2>9, <2>10
<1>10. ASSUME NEW w \in Workers, ~Catches(w)  PROVE Copied(w)' = Copied(w)
  <2>1. SeenObject(w)' = SeenObject(w)
    <3>1. CASE HasCompany(w) /\ Op(w).kind = "update" /\ Op(w).versioned
      <4>1. Op(w).target \in Targets \ {h} /\ object[Op(w).target].house # h
        BY <1>8, <1>10, <3>1
      <4>2. object'[Op(w).target] = object[Op(w).target]
        BY <1>1, <4>1 DEF left
      <4> QED  BY <1>7, <3>1, <4>2 DEF SeenObject
    <3>2. CASE ~(HasCompany(w) /\ Op(w).kind = "update" /\ Op(w).versioned)
      BY <1>7, <3>2 DEF SeenObject
    <3> QED  BY <3>1, <3>2
  <2> QED  BY <1>7, <2>1 DEF Copied
<1> DEFINE caught == {w \in Workers : Catches(w)}
<1>11. Copies' = [w \in Workers |-> IF w \in caught THEN Contract!KeepsUp(w) ELSE Copies[w]]
  <2> HIDE DEF Catches
  <2> QED  BY <1>9, <1>10 DEF Copies
<1>12. \A w \in caught : Contract!UpToDate(w) /\ Copies[w].record # h
  BY <1>9 DEF Copies
<1>13. caught \in SUBSET Workers
  OBVIOUS
<1> HIDE DEF caught
<1>14. Contract!End(h, caught)
  BY <1>4, <1>5, <1>6, <1>11, <1>12 DEF Contract!End, Copies
<1> QED  BY <1>13, <1>14

(* A handler that passes its check finds the house it saw.                   *)
LEMMA BeginCopies ==
  ASSUME WorkspaceInductive, NEW w \in Workers, Begin(w)
  PROVE  Copied(w)' = Copied(w)
<1>1. PICK r \in Requests : r = req[w]
  BY DEF WorkspaceInductive, LayersSound, TypeOK
<1>2. /\ TablesSound /\ req \in [Workers -> Requests] /\ r.pc = "open" /\ Permitted(r.op, r.seen)
      /\ object' = object /\ AsksWell(r.op) /\ Remembers(r)
  BY <1>1 DEF Begin, WorkspaceInductive, LayersSound, TypeOK, TablesSound, RequestOK, At, Op, Seen, tables
<1>3. req'[w].op = r.op /\ req'[w].seen = r.seen /\ req'[w].pc = "locked"
  <2>1. \A rows, target, existing :
          LET q == [r EXCEPT !.pc = "locked", !.rows = rows, !.target = target, !.existing = existing]
          IN  q.op = r.op /\ q.seen = r.seen /\ q.pc = "locked"
    BY DEF Requests
  <2>2. \E rows, target, existing :
          req'[w] = [r EXCEPT !.pc = "locked", !.rows = rows, !.target = target, !.existing = existing]
    BY <1>1, <1>2 DEF Begin, Become
  <2> QED  BY <2>1, <2>2
<1>4. /\ Op(w) = r.op /\ Op(w)' = r.op /\ Seen(w) = r.seen /\ Seen(w)' = r.seen
      /\ ~HasCompany(w) /\ HasCompany(w)'
  BY <1>1, <1>2, <1>3 DEF Op, Seen, HasCompany
<1>5. SeenObject(w) = r.seen.object
  BY <1>4 DEF SeenObject
<1>6. SeenObject(w)' = r.seen.object
  <2>1. CASE r.op.kind = "update" /\ r.op.versioned
    <3>1. r.seen.object = object[r.op.target]
      BY <1>2, <2>1, SameVersion DEF Permitted
    <3>2. SeenObject(w)' = [r.seen.object EXCEPT !.house = object[r.op.target].house]
      BY <1>2, <1>4, <2>1 DEF SeenObject
    <3>3. r.seen.object \in ObjectRows
      BY RequestTypes
    <3> QED  BY <3>1, <3>2, <3>3 DEF ObjectRows
  <2>2. CASE ~(r.op.kind = "update" /\ r.op.versioned)
    BY <1>4, <2>2 DEF SeenObject
  <2> QED  BY <2>1, <2>2
<1> QED  BY <1>4, <1>5, <1>6 DEF Copied

(* Locking the rows is not looking.                                          *)
LEMMA LockRowsCopies ==
  ASSUME WorkspaceInductive, NEW w \in Workers, LockRows(w)
  PROVE  \/ Become(w, Idle)
         \/ (\E q : Become(w, q)) /\ Copied(w)' = Copied(w)
<1>1. PICK r \in Requests : r = req[w]
  BY DEF WorkspaceInductive, LayersSound, TypeOK
<1>2. /\ req \in [Workers -> Requests] /\ r.pc = "locked" /\ object' = object
      /\ Become(w, [r EXCEPT !.pc = "rows"]) \/ Become(w, Idle)
  BY <1>1 DEF LockRows, At, WorkspaceInductive, LayersSound, TypeOK, tables
<1>3. CASE Become(w, [r EXCEPT !.pc = "rows"])
  <2>1. req'[w].op = r.op /\ req'[w].seen = r.seen /\ req'[w].pc = "rows"
    BY <1>2, <1>3 DEF Become, Requests
  <2>2. /\ Op(w)' = Op(w) /\ Seen(w)' = Seen(w) /\ HasCompany(w) /\ HasCompany(w)'
    BY <1>1, <1>2, <2>1 DEF Op, Seen, HasCompany
  <2>3. SeenObject(w)' = SeenObject(w)
    BY <1>2, <2>2 DEF SeenObject
  <2> QED  BY <1>3, <2>2, <2>3 DEF Copied
<1> QED  BY <1>2, <1>3

(* Every step is a step of the store, or none.                               *)
LEMMA StepRefines ==
  ASSUME WorkspaceInductive, [Next]_vars
  PROVE  [Contract!Next]_(Contract!vars)
<1>1. req \in [Workers -> Requests]
  BY DEF WorkspaceInductive, LayersSound, TypeOK
<1>2. ASSUME NEW w \in Workers, Writes(w)  PROVE Contract!Next
  BY <1>2, WriteRefines DEF Contract!Next
<1>3. ASSUME NEW w \in Workers, Asks(w)  PROVE [Contract!Next]_(Contract!vars)
  <2>1. PICK op : Sensible(op) /\ Look(w, op)
    BY <1>3, BodyOK DEF Asks
  <2> QED  BY <2>1, LookRefines DEF Contract!Next
<1>4. ASSUME NEW w \in Workers, Become(w, Idle), UNCHANGED tables  PROVE Contract!Next
  <2>1. object' = object
    BY <1>4 DEF tables
  <2>2. Contract!GiveUp(w)
    BY <1>1, <1>4, <2>1, CopyGone, StoreAlone DEF Contract!GiveUp, Copies
  <2> QED  BY <2>2 DEF Contract!Next
<1>5. ASSUME NEW w \in Workers, NEW q, Become(w, q), UNCHANGED tables, Copied(w)' = Copied(w)
      PROVE  UNCHANGED Contract!vars
  <2>1. object' = object /\ \A v \in Workers \ {w} : req'[v] = req[v]
    BY <1>1, <1>5 DEF Become, tables
  <2>2. \A v \in Workers : Copied(v)' = Copied(v)
    BY <1>5, <2>1, CopyKept
  <2>3. Copies' = Copies
    BY <2>2 DEF Copies
  <2> QED  BY <1>5, <2>3, StoreAlone DEF Contract!vars, Copies
<1>6. ASSUME NEW h \in Houses, Demolish(h)  PROVE Contract!Next
  BY <1>6, DemolishRefines DEF Contract!Next
<1>7. CASE UNCHANGED vars
  <2>1. UNCHANGED tables /\ req' = req /\ object' = object
    BY <1>7 DEF vars, tables
  <2>2. \A w \in Workers : Copied(w)' = Copied(w)
    BY <2>1, CopyKept
  <2>3. Copies' = Copies
    BY <2>2 DEF Copies
  <2> QED  BY <2>1, <2>3, StoreAlone DEF Contract!vars, Copies
<1>8. ASSUME NEW w \in Workers, Turns(w)  PROVE Contract!Next
  BY <1>4, <1>8, TurnsAway
<1>9. ASSUME NEW w \in Workers, Begin(w)  PROVE UNCHANGED Contract!vars
  BY <1>5, <1>9, BeginCopies DEF Begin
<1>10. ASSUME NEW w \in Workers, LockRows(w)  PROVE Contract!Next \/ UNCHANGED Contract!vars
  BY <1>4, <1>5, <1>10, LockRowsCopies DEF LockRows
<1> QED  BY <1>2, <1>3, <1>6, <1>7, <1>8, <1>9, <1>10, NextCases

(* MapWorkspace implements OptimisticStore: but for clients that name no     *)
(* version, nothing is saved over anything but the record the client was     *)
(* looking at, of which only the house may have gone between the check and   *)
(* the lock of its row (map_markers.py, _save_marker); and no handler        *)
(* changes what records it was not asked about say.                          *)
THEOREM KeepsStore == Spec => ImplementsStore
<1>1. Init => Contract!Init
  <2> SUFFICES ASSUME Init  PROVE Contract!Init
    OBVIOUS
  <2>1. \A w \in Workers : req[w] = Idle
    BY DEF Init
  <2>2. \A w \in Workers : Copied(w) = [record |-> None, seen |-> Empty, blind |-> FALSE]
    BY <2>1, IdleCopy
  <2> QED  BY <2>2, ContractNames DEF Contract!Init
<1> QED  BY <1>1, WorkspaceInvariant, StepRefines, PTL DEF Spec, ImplementsStore, Contract!Spec
=============================================================================
