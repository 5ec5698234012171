-------------------------- MODULE InvitationsProofs --------------------------
(* Theorems about Invitations, for any companies, users and requests. *)
EXTENDS Invitations, TLAPS

-----------------------------------------------------------------------------
(* What a request that goes on, or ends, changes *)

(* Only the request of w changes. *)
LEMMA OneRequest ==
  ASSUME TypeOK, NEW w \in Workers, NEW r \in Requests, req' = [req EXCEPT ![w] = r]
  PROVE  /\ req' \in [Workers -> Requests]
         /\ req'[w] = r
         /\ \A v \in Workers \ {w} : req'[v] = req[v]
BY DEF TypeOK

(* A request of w ends and the rows stay as they are. *)
LEMMA EndStep ==
  ASSUME InvitationsInductive, NEW w \in Workers, NEW answer \in Answers,
         End(w, answer), UNCHANGED <<rows, active, expired>>
  PROVE  InvitationsInductive'
<1> DEFINE r == [req[w] EXCEPT !.pc = "idle", !.said = answer]
<1>1. TypeOK /\ req[w] \in Requests
  BY DEF InvitationsInductive, TypeOK
<1>2. r \in Requests /\ req' = [req EXCEPT ![w] = r]
  BY <1>1 DEF Requests, Pcs, End
<1>3. r.pc = "idle" /\ r.op = req[w].op /\ r.user = req[w].user
  BY <1>1 DEF Requests
<1> HIDE DEF r
<1>4. /\ req' \in [Workers -> Requests]
      /\ req'[w] = r
      /\ \A v \in Workers \ {w} : req'[v] = req[v]
  BY <1>1, <1>2, OneRequest
<1>5. /\ locks' \in [Invitations -> Workers \cup {None}]
      /\ \A i \in Invitations : locks[i] # w => locks'[i] = locks[i]
  BY <1>1 DEF End, Released, TypeOK
<1>6. TypeOK'
  BY <1>1, <1>4, <1>5 DEF TypeOK, rows
<1>7. HolderOK(w)'
  BY <1>3, <1>4 DEF InvitationsInductive, HolderOK, Holding, At, rows
<1>8. ASSUME NEW v \in Workers \ {w}
      PROVE  HolderOK(v)'
  <2>1. HolderOK(v) /\ req'[v] = req[v]
    BY <1>4 DEF InvitationsInductive
  <2>2. \A u \in Workers : At(u, "commit")' => u # w /\ req'[u] = req[u]
    BY <1>3, <1>4 DEF At
  <2>3. Taken(v)' = Taken(v)
    BY <2>1 DEF Taken, rows
  <2>4. KeyFree(v) => KeyFree(v)'
    BY <2>1, <2>2 DEF KeyFree, Clash, At, rows
  <2>5. Holding(v) => req[v].inv \in Invitations /\ locks[req[v].inv] = v
    BY <2>1 DEF HolderOK, Holding, At
  <2>6. Holding(v) => locks'[req[v].inv] = v
    BY <1>5, <2>5
  <2> QED
    BY <2>1, <2>3, <2>4, <2>6 DEF HolderOK, Holding, At, rows
<1> QED
  BY <1>6, <1>7, <1>8 DEF InvitationsInductive, OneMembershipPerInvitation, rows

(* A request of w goes on to pc, holding its lock, and the rows stay. *)
LEMMA GotoStep ==
  ASSUME InvitationsInductive, NEW w \in Workers, NEW pc \in {"check", "insert", "commit"},
         ~At(w, "idle"), Goto(w, pc), UNCHANGED <<rows, active, expired>>,
         locks[req[w].inv] \in {None, w},
         locks' = [locks EXCEPT ![req[w].inv] = w],
         taker[req[w].inv] = None, req[w].inv \notin revoked,
         pc = "commit" => ~Taken(w) /\ KeyFree(w)
  PROVE  InvitationsInductive'
<1> DEFINE r == [req[w] EXCEPT !.pc = pc]
<1>1. TypeOK /\ req[w] \in Requests
  BY DEF InvitationsInductive, TypeOK
<1>2. r \in Requests /\ req' = [req EXCEPT ![w] = r]
  BY <1>1 DEF Requests, Pcs, Goto
<1>3. r.pc = pc /\ r.op = req[w].op /\ r.user = req[w].user /\ r.inv = req[w].inv
  BY <1>1 DEF Requests
<1> HIDE DEF r
<1>4. /\ req' \in [Workers -> Requests]
      /\ req'[w] = r
      /\ \A v \in Workers \ {w} : req'[v] = req[v]
  BY <1>1, <1>2, OneRequest
<1>5. HolderOK(w) /\ req[w].inv \in Invitations
  BY DEF InvitationsInductive, HolderOK
<1>6. /\ locks' \in [Invitations -> Workers \cup {None}]
      /\ locks'[req[w].inv] = w
      /\ \A i \in Invitations : locks[i] \notin {None, w} => locks'[i] = locks[i]
  BY <1>1, <1>5 DEF TypeOK
<1>7. TypeOK'
  BY <1>1, <1>4, <1>6 DEF TypeOK, rows
<1>8. \A v \in Workers : /\ req'[v].op = req[v].op
                         /\ req'[v].user = req[v].user
                         /\ req'[v].inv = req[v].inv
  BY <1>3, <1>4
<1>9. \A v \in Workers : Taken(v)' = Taken(v)
  BY <1>8 DEF Taken, rows
<1>10. \A v, u \in Workers : Clash(v, u)' = Clash(v, u)
  BY <1>8 DEF Clash, rows
<1>11. KeyFree(w) => KeyFree(w)'
  BY <1>4, <1>10 DEF KeyFree, At
<1>12. HolderOK(w)'
  BY <1>3, <1>4, <1>5, <1>6, <1>9, <1>11 DEF HolderOK, Holding, At, rows
<1>13. ASSUME NEW v \in Workers \ {w}
       PROVE  HolderOK(v)'
  <2>1. HolderOK(v) /\ req'[v] = req[v]
    BY <1>4 DEF InvitationsInductive
  <2>2. pc = "commit" /\ At(v, "commit") => ~Clash(v, w)
    BY DEF KeyFree, Clash
  <2>3. At(v, "commit") /\ KeyFree(v) => KeyFree(v)'
    BY <1>3, <1>4, <1>10, <2>2 DEF KeyFree, At
  <2>4. Holding(v) => req[v].inv \in Invitations /\ locks[req[v].inv] = v
    BY <2>1 DEF HolderOK, Holding, At
  <2>5. Holding(v) => locks'[req[v].inv] = v
    BY <1>6, <2>4, NoneAssumption
  <2> QED
    BY <1>9, <2>1, <2>3, <2>5 DEF HolderOK, Holding, At, rows
<1> QED
  BY <1>7, <1>12, <1>13 DEF InvitationsInductive, OneMembershipPerInvitation, rows

(* The rows, the company flags or the clock change, and no request does. *)
LEMMA OutsideStep ==
  ASSUME InvitationsInductive, UNCHANGED <<locks, req, taker, revoked, accounts>>,
         issuer' \in [Invitations -> Companies \cup {None}],
         origin' \in [Users -> [Companies -> Invitations \cup {None, Direct}]],
         active' \in SUBSET Companies, expired' \in SUBSET Invitations,
         \A i \in Invitations : issuer[i] # None => issuer'[i] = issuer[i],
         \A u \in Users, c \in Companies : origin'[u][c] # None => u \in accounts,
         OneMembershipPerInvitation',
         \A v \in Workers : At(v, "commit") => ~Taken(v)'
  PROVE  InvitationsInductive'
<1>1. TypeOK'
  BY DEF InvitationsInductive, TypeOK
<1>2. ASSUME NEW v \in Workers PROVE HolderOK(v)'
  <2>1. HolderOK(v) /\ \A u \in Workers : HolderOK(u)
    BY DEF InvitationsInductive
  <2>2. \A u \in Workers : ~At(u, "idle") =>
          req[u].inv \in Invitations /\ issuer[req[u].inv] # None
    BY <2>1 DEF HolderOK
  <2>3. At(v, "commit") /\ KeyFree(v) => KeyFree(v)'
    BY <2>2 DEF KeyFree, Clash, At
  <2> QED
    BY <2>1, <2>2, <2>3 DEF HolderOK, Holding, At
<1> QED
  BY <1>1, <1>2 DEF InvitationsInductive

-----------------------------------------------------------------------------
(* The steps that change a row *)

(* create_invitation *)
LEMMA IssueStep ==
  ASSUME InvitationsInductive, NEW i \in Invitations, NEW c \in Companies, Issue(i, c)
  PROVE  InvitationsInductive'
<1>1. TypeOK /\ OneMembershipPerInvitation /\ \A v \in Workers : HolderOK(v)
  BY DEF InvitationsInductive
<1>2. /\ issuer' \in [Invitations -> Companies \cup {None}]
      /\ issuer[i] = None /\ issuer'[i] = c
      /\ \A j \in Invitations \ {i} : issuer'[j] = issuer[j]
  BY <1>1 DEF Issue, TypeOK
<1>3. taker[i] = None
  BY <1>1, <1>2 DEF OneMembershipPerInvitation
<1>4. c # None /\ \A u \in Users : u # None
  BY NoneAssumption
<1>5. \A u \in Users, d \in Companies : origin[u][d] # i
  BY <1>1, <1>3, <1>4 DEF OneMembershipPerInvitation
<1>6. OneMembershipPerInvitation'
  BY <1>1, <1>2, <1>3, <1>4, <1>5 DEF Issue, OneMembershipPerInvitation
<1>7. ASSUME NEW v \in Workers, At(v, "commit")
      PROVE  ~Taken(v)'
  <2>1. ~Taken(v) /\ req[v].inv \in Invitations /\ issuer[req[v].inv] # None
    BY <1>1, <1>7 DEF HolderOK, At
  <2> QED
    BY <1>2, <2>1 DEF Taken, Issue
<1>8. /\ origin' \in [Users -> [Companies -> Invitations \cup {None, Direct}]]
      /\ active' \in SUBSET Companies /\ expired' \in SUBSET Invitations
  BY <1>1 DEF Issue, TypeOK
<1> QED
  BY <1>2, <1>6, <1>7, <1>8, OutsideStep DEF Issue, InvitationsInductive

(* A company adds a member itself. *)
LEMMA AddStep ==
  ASSUME InvitationsInductive, NEW u \in Users, NEW c \in Companies, Add(u, c)
  PROVE  InvitationsInductive'
<1>1. TypeOK /\ OneMembershipPerInvitation /\ \A v \in Workers : HolderOK(v)
  BY DEF InvitationsInductive
<1>2. origin[u] \in [Companies -> Invitations \cup {None, Direct}]
  BY <1>1 DEF TypeOK
<1>3. /\ origin' \in [Users -> [Companies -> Invitations \cup {None, Direct}]]
      /\ origin'[u][c] = Direct
      /\ \A v \in Users, d \in Companies : <<v, d>> # <<u, c>> => origin'[v][d] = origin[v][d]
  BY <1>1, <1>2 DEF Add, TypeOK
<1>4. \A i \in Invitations : ~(taker[i] = u /\ issuer[i] = c) /\ i # None
  BY <1>1, NoneAssumption DEF Add, OneMembershipPerInvitation
<1>5. \A i \in Invitations : i # Direct
  BY DirectAssumption
<1>6. OneMembershipPerInvitation'
  BY <1>1, <1>3, <1>4, <1>5 DEF Add, OneMembershipPerInvitation
<1>7. ASSUME NEW v \in Workers, At(v, "commit")
      PROVE  ~Taken(v)'
  <2>1. ~Taken(v) /\ req[v].inv \in Invitations /\ issuer[req[v].inv] \in Companies
        /\ (req[v].op = "existing" => req[v].user \in Users)
    BY <1>1, <1>7 DEF HolderOK, At, TypeOK
  <2>2. req[v].op = "existing" => <<req[v].user, issuer[req[v].inv]>> # <<u, c>>
    BY <1>7 DEF Add
  <2>3. req[v].op = "existing" => origin'[req[v].user][issuer[req[v].inv]] = None
    BY <1>3, <2>1, <2>2 DEF Taken
  <2> QED
    BY <2>1, <2>3 DEF Taken, Add
<1>8. \A v \in Users, d \in Companies : origin'[v][d] # None => v \in accounts
  BY <1>3 DEF Add, InvitationsInductive
<1>9. /\ issuer' \in [Invitations -> Companies \cup {None}]
      /\ active' \in SUBSET Companies /\ expired' \in SUBSET Invitations
  BY <1>1 DEF Add, TypeOK
<1> QED
  BY <1>3, <1>6, <1>7, <1>8, <1>9, OutsideStep DEF Add

(* The clock and the companies' flags. *)
LEMMA TimeStep ==
  ASSUME InvitationsInductive,
         \/ \E c \in Companies : SwitchCompany(c)
         \/ \E i \in Invitations : Expire(i)
  PROVE  InvitationsInductive'
<1>1. TypeOK /\ OneMembershipPerInvitation /\ \A v \in Workers : HolderOK(v)
  BY DEF InvitationsInductive
<1>2. UNCHANGED <<rows, locks, req>> /\ active' \in SUBSET Companies
      /\ expired' \in SUBSET Invitations
  BY <1>1 DEF SwitchCompany, Expire, TypeOK
<1>3. OneMembershipPerInvitation'
  BY <1>1, <1>2 DEF OneMembershipPerInvitation, rows
<1>4. \A v \in Workers : At(v, "commit") => ~Taken(v)'
  BY <1>1, <1>2 DEF HolderOK, Taken, rows
<1> QED
  BY <1>1, <1>2, <1>3, <1>4, OutsideStep DEF InvitationsInductive, rows, TypeOK

(* A request begins. *)
LEMMA AskStep ==
  ASSUME InvitationsInductive, NEW w \in Workers, NEW op \in Ops, NEW i \in Invitations,
         NEW u \in Users \cup {None}, op # "revoke" => u \in Users, Ask(w, op, i, u)
  PROVE  InvitationsInductive'
<1> DEFINE r == [pc |-> "lock", op |-> op, inv |-> i, user |-> u, said |-> "nothing"]
<1>1. TypeOK /\ \A v \in Workers : HolderOK(v)
  BY DEF InvitationsInductive
<1>2. r \in Requests /\ req' = [req EXCEPT ![w] = r]
  BY DEF Requests, Pcs, Answers, Ask
<1>3. r.pc = "lock" /\ r.op = op /\ r.inv = i /\ r.user = u
  OBVIOUS
<1> HIDE DEF r
<1>4. /\ req' \in [Workers -> Requests]
      /\ req'[w] = r
      /\ \A v \in Workers \ {w} : req'[v] = req[v]
  BY <1>1, <1>2, OneRequest
<1>5. TypeOK'
  BY <1>1, <1>4 DEF TypeOK, Ask, rows
<1>6. HolderOK(w)'
  BY <1>3, <1>4 DEF Ask, HolderOK, Holding, At, rows
<1>7. ASSUME NEW v \in Workers \ {w}
      PROVE  HolderOK(v)'
  <2>1. HolderOK(v) /\ req'[v] = req[v]
    BY <1>1, <1>4
  <2>2. \A x \in Workers : At(x, "commit")' => req'[x] = req[x]
    BY <1>3, <1>4 DEF At
  <2>3. Taken(v)' = Taken(v) /\ (KeyFree(v) => KeyFree(v)')
    BY <2>1, <2>2 DEF Taken, KeyFree, Clash, At, Ask, rows
  <2> QED
    BY <2>1, <2>3 DEF HolderOK, Holding, At, Ask, rows
<1> QED
  BY <1>5, <1>6, <1>7 DEF InvitationsInductive, OneMembershipPerInvitation, Ask, rows

(* What a commit knows: the invitation is open and locked, and the user of an *)
(* acceptance has no membership yet.                                          *)
LEMMA AtCommit ==
  ASSUME InvitationsInductive, NEW w \in Workers, At(w, "commit")
  PROVE  LET i == req[w].inv
             u == req[w].user
         IN  /\ i \in Invitations /\ issuer[i] \in Companies
             /\ taker[i] = None /\ i \notin revoked /\ locks[i] = w
             /\ req[w].op # "revoke" =>
                  /\ u \in Users
                  /\ origin[u][issuer[i]] = None
                  /\ req[w].op = "new" <=> u \notin accounts
<1>1. TypeOK /\ HolderOK(w) /\ req[w].op \in Ops
  BY DEF InvitationsInductive, TypeOK, Requests
<1>2. /\ req[w].inv \in Invitations /\ issuer[req[w].inv] \in Companies
      /\ taker[req[w].inv] = None /\ req[w].inv \notin revoked /\ locks[req[w].inv] = w
      /\ (req[w].op # "revoke" => req[w].user \in Users)
      /\ (req[w].op = "existing" => req[w].user \in accounts)
      /\ ~Taken(w)
  BY <1>1 DEF HolderOK, Holding, At, TypeOK
<1>3. req[w].op # "revoke" => req[w].op = "new" \/ req[w].op = "existing"
  BY <1>1 DEF Ops
<1> QED
  BY <1>2, <1>3 DEF Taken, InvitationsInductive

(* The request of w ends, with an answer: what the others see of it. *)
LEMMA Ending ==
  ASSUME TypeOK, NEW w \in Workers, NEW answer \in Answers, End(w, answer)
  PROVE  /\ req' \in [Workers -> Requests]
         /\ req'[w].pc = "idle" /\ req'[w].op = req[w].op /\ req'[w].user = req[w].user
         /\ req'[w].inv = req[w].inv /\ req'[w].said = answer
         /\ \A v \in Workers \ {w} : req'[v] = req[v]
         /\ locks' \in [Invitations -> Workers \cup {None}]
         /\ \A i \in Invitations : locks[i] # w => locks'[i] = locks[i]
<1> DEFINE r == [req[w] EXCEPT !.pc = "idle", !.said = answer]
<1>1. req[w] \in Requests
  BY DEF TypeOK
<1>2. r \in Requests /\ req' = [req EXCEPT ![w] = r]
  BY <1>1 DEF Requests, Pcs, End
<1>3. r.pc = "idle" /\ r.op = req[w].op /\ r.user = req[w].user /\ r.inv = req[w].inv
      /\ r.said = answer
  BY <1>1 DEF Requests
<1> HIDE DEF r
<1>4. /\ req' \in [Workers -> Requests]
      /\ req'[w] = r
      /\ \A v \in Workers \ {w} : req'[v] = req[v]
  BY <1>2, OneRequest
<1>5. /\ locks' \in [Invitations -> Workers \cup {None}]
      /\ \A i \in Invitations : locks[i] # w => locks'[i] = locks[i]
  BY DEF End, Released, TypeOK
<1> QED
  BY <1>3, <1>4, <1>5

(* Accepted: the account, the membership and the invitation in one commit.    *)
LEMMA AcceptStep ==
  ASSUME InvitationsInductive, NEW w \in Workers, Accept(w)
  PROVE  InvitationsInductive'
<1>1. TypeOK /\ OneMembershipPerInvitation /\ \A v \in Workers : HolderOK(v)
  BY DEF InvitationsInductive
<1>2. PICK i \in Invitations, u \in Users, c \in Companies :
        /\ i = req[w].inv /\ u = req[w].user /\ c = issuer[i]
        /\ taker[i] = None /\ i \notin revoked /\ locks[i] = w
        /\ origin[u][c] = None
        /\ req[w].op = "new" <=> u \notin accounts
  BY AtCommit DEF Accept
<1>3. PICK answer \in {"ok", "nothing"} : End(w, answer)
  BY DEF Accept
<1>4. answer \in Answers
  BY DEF Answers
<1>5. /\ req' \in [Workers -> Requests]
      /\ req'[w].pc = "idle" /\ req'[w].op = req[w].op /\ req'[w].user = req[w].user
      /\ \A v \in Workers \ {w} : req'[v] = req[v]
      /\ locks' \in [Invitations -> Workers \cup {None}]
      /\ \A j \in Invitations : locks[j] # w => locks'[j] = locks[j]
  BY <1>1, <1>3, <1>4, Ending
<1>6. /\ origin' = [origin EXCEPT ![u] = [@ EXCEPT ![c] = i]]
      /\ taker' = [taker EXCEPT ![i] = u]
      /\ accounts' = accounts \cup {u}
      /\ UNCHANGED <<issuer, revoked, active, expired>>
  BY <1>2 DEF Accept
<1>7. origin[u] \in [Companies -> Invitations \cup {None, Direct}]
  BY <1>1 DEF TypeOK
<1>8. /\ origin' \in [Users -> [Companies -> Invitations \cup {None, Direct}]]
      /\ origin'[u][c] = i
      /\ \A v \in Users, d \in Companies : <<v, d>> # <<u, c>> => origin'[v][d] = origin[v][d]
  BY <1>1, <1>6, <1>7 DEF TypeOK
<1>9. taker' \in [Invitations -> Users \cup {None}] /\ taker'[i] = u
      /\ \A j \in Invitations \ {i} : taker'[j] = taker[j]
  BY <1>1, <1>6 DEF TypeOK
<1>10. TypeOK'
  BY <1>1, <1>5, <1>6, <1>8, <1>9 DEF TypeOK
<1>11. \A v \in Users, d \in Companies : origin'[v][d] # None => v \in accounts'
  BY <1>6, <1>8 DEF InvitationsInductive
<1>12. OneMembershipPerInvitation'
  <2>1. \A v \in Users : v # None /\ i # None /\ c # None
    BY NoneAssumption
  <2>2. \A v \in Users, d \in Companies : origin[v][d] # i
    BY <1>1, <1>2, <2>1 DEF OneMembershipPerInvitation
  <2>3. \A j \in Invitations : ~(taker[j] = u /\ issuer[j] = c)
    BY <1>1, <1>2, NoneAssumption DEF OneMembershipPerInvitation
  <2> QED
    BY <1>1, <1>2, <1>6, <1>8, <1>9, <2>1, <2>2, <2>3 DEF OneMembershipPerInvitation
<1>13. HolderOK(w)'
  BY <1>1, <1>5, <1>6 DEF HolderOK, Holding, At
<1>14. ASSUME NEW v \in Workers \ {w}
       PROVE  HolderOK(v)'
  <2>1. HolderOK(v) /\ req'[v] = req[v]
    BY <1>1, <1>5
  <2>2. Holding(v) => /\ req[v].inv \in Invitations
                      /\ locks[req[v].inv] = v
    BY <2>1 DEF HolderOK, Holding, At
  <2>3. Holding(v) => /\ locks'[req[v].inv] = v
                      /\ taker'[req[v].inv] = taker[req[v].inv]
    BY <1>2, <1>5, <1>9, <2>2
  <2>4. At(v, "commit") => ~Clash(v, w)
    BY <1>1 DEF HolderOK, KeyFree, Accept
  <2>5. At(v, "commit") => ~Taken(v)'
    <3> SUFFICES ASSUME At(v, "commit")
                 PROVE  ~Taken(v)'
      OBVIOUS
    <3>1. /\ req[v].inv \in Invitations /\ issuer[req[v].inv] \in Companies
          /\ req[v].op # "revoke" =>
               /\ req[v].user \in Users
               /\ origin[req[v].user][issuer[req[v].inv]] = None
               /\ req[v].op = "new" <=> req[v].user \notin accounts
      BY AtCommit
    <3>2. req[w].op # "revoke" /\ req[w].op \in Ops
      BY <1>1 DEF Accept, TypeOK, Requests
    <3>3. CASE req[v].op = "new"
      <4>1. req[v].user # u
        BY <1>2, <2>4, <3>1, <3>2, <3>3 DEF Clash, Ops
      <4> QED
        BY <1>6, <2>1, <3>1, <3>3, <4>1 DEF Taken
    <3>4. CASE req[v].op = "existing"
      <4>1. <<req[v].user, issuer[req[v].inv]>> # <<u, c>>
        BY <1>2, <2>4, <3>1, <3>2, <3>4 DEF Clash, Ops
      <4>2. origin'[req[v].user][issuer[req[v].inv]] = None
        BY <1>8, <3>1, <3>4, <4>1
      <4> QED
        BY <1>6, <2>1, <3>4, <4>2 DEF Taken
    <3> QED
      BY <2>1, <3>3, <3>4 DEF Taken
  <2>6. KeyFree(v) => KeyFree(v)'
    BY <1>5, <1>6 DEF KeyFree, Clash, At
  <2> QED
    BY <1>6, <2>1, <2>3, <2>5, <2>6 DEF HolderOK, Holding, At
<1> QED
  BY <1>10, <1>11, <1>12, <1>13, <1>14 DEF InvitationsInductive

(* Revoked by the holder of the lock. *)
LEMMA RevokeStep ==
  ASSUME InvitationsInductive, NEW w \in Workers, Revoke(w)
  PROVE  InvitationsInductive'
<1>1. TypeOK /\ OneMembershipPerInvitation /\ \A v \in Workers : HolderOK(v)
  BY DEF InvitationsInductive
<1>2. PICK i \in Invitations : i = req[w].inv /\ taker[i] = None /\ locks[i] = w
  BY AtCommit DEF Revoke
<1>3. PICK answer \in {"ok", "nothing"} : End(w, answer)
  BY DEF Revoke
<1>4. answer \in Answers
  BY DEF Answers
<1>5. /\ req' \in [Workers -> Requests]
      /\ req'[w].pc = "idle" /\ req'[w].op = req[w].op /\ req'[w].user = req[w].user
      /\ \A v \in Workers \ {w} : req'[v] = req[v]
      /\ locks' \in [Invitations -> Workers \cup {None}]
      /\ \A j \in Invitations : locks[j] # w => locks'[j] = locks[j]
  BY <1>1, <1>3, <1>4, Ending
<1>6. revoked' = revoked \cup {i} /\ UNCHANGED <<accounts, origin, issuer, taker, active, expired>>
  BY <1>2 DEF Revoke
<1>7. TypeOK'
  BY <1>1, <1>5, <1>6 DEF TypeOK
<1>8. HolderOK(w)'
  BY <1>1, <1>5, <1>6 DEF HolderOK, Holding, At
<1>9. ASSUME NEW v \in Workers \ {w}
      PROVE  HolderOK(v)'
  <2>1. HolderOK(v) /\ req'[v] = req[v]
    BY <1>1, <1>5
  <2>2. Holding(v) => req[v].inv \in Invitations /\ locks[req[v].inv] = v
    BY <2>1 DEF HolderOK, Holding, At
  <2>3. Holding(v) => locks'[req[v].inv] = v /\ req[v].inv # i
    BY <1>2, <1>5, <2>2
  <2>4. Taken(v)' = Taken(v) /\ (KeyFree(v) => KeyFree(v)')
    BY <1>5, <1>6, <2>1 DEF Taken, KeyFree, Clash, At
  <2> QED
    BY <1>6, <2>1, <2>3, <2>4 DEF HolderOK, Holding, At
<1> QED
  BY <1>1, <1>2, <1>6, <1>7, <1>8, <1>9 DEF InvitationsInductive, OneMembershipPerInvitation

-----------------------------------------------------------------------------
(* The invariant *)

(* The steps that lock, look and decide. *)
LEMMA DecideStep ==
  ASSUME InvitationsInductive, NEW w \in Workers,
         Lock(w) \/ LockToRevoke(w) \/ Check(w) \/ Insert(w) \/ CutOff(w)
  PROVE  InvitationsInductive'
<1> DEFINE i == req[w].inv
<1>1. TypeOK /\ HolderOK(w)
  BY DEF InvitationsInductive
<1>2. ~At(w, "idle") => i \in Invitations
  BY <1>1 DEF HolderOK
<1>3. /\ Status(i) \in {"revoked", "accepted", "expired", "pending"}
      /\ Status(i) = "pending" => taker[i] = None /\ i \notin revoked
  BY DEF Status
<1>4. Holding(w) => /\ locks[i] = w /\ taker[i] = None /\ i \notin revoked
                    /\ locks = [locks EXCEPT ![i] = w]
  BY <1>1, <1>2 DEF HolderOK, Holding, At, TypeOK
<1>5. {"ok", "taken", "unavailable", "nothing", "revoked", "accepted", "expired"}
        \subseteq Answers
  BY DEF Answers
<1>6. CASE Lock(w)
  <2>1. CASE Status(i) = "pending" /\ locks' = [locks EXCEPT ![i] = w] /\ Goto(w, "check")
    <3>1. /\ ~At(w, "idle") /\ locks[i] \in {None, w}
          /\ UNCHANGED <<rows, active, expired>>
      BY <1>6 DEF Lock, Lockable, At
    <3> QED
      BY <1>3, <2>1, <3>1, GotoStep
  <2>2. CASE End(w, "unavailable")
    BY <1>5, <1>6, <2>2, EndStep DEF Lock
  <2>3. CASE Status(i) # "pending" /\ End(w, Status(i))
    <3>1. PICK answer \in Answers : End(w, answer)
      BY <1>3, <1>5, <2>3
    <3>2. UNCHANGED <<rows, active, expired>>
      BY <1>6 DEF Lock
    <3> QED
      BY <3>1, <3>2, EndStep
  <2> QED
    BY <1>6, <2>1, <2>2, <2>3 DEF Lock
<1>7. CASE LockToRevoke(w)
  <2>1. CASE Status(i) = "pending" /\ locks' = [locks EXCEPT ![i] = w] /\ Goto(w, "commit")
    <3>1. ~Taken(w) /\ KeyFree(w)
      BY <1>7 DEF LockToRevoke, Taken, KeyFree, Clash
    <3> QED
      BY <1>3, <1>7, <2>1, <3>1, GotoStep DEF LockToRevoke, Lockable, At
  <2>2. CASE End(w, "ok")
    BY <1>5, <1>7, <2>2, EndStep DEF LockToRevoke
  <2>3. CASE Status(i) \in {"accepted", "expired"} /\ End(w, Status(i))
    <3>1. Status(i) \in Answers
      BY <1>5, <2>3
    <3> QED
      BY <1>7, <2>3, <3>1, EndStep DEF LockToRevoke
  <2> QED
    BY <1>7, <2>1, <2>2, <2>3 DEF LockToRevoke
<1>8. CASE Check(w)
  <2>1. CASE End(w, "taken")
    BY <1>5, <1>8, <2>1, EndStep DEF Check
  <2>2. CASE Goto(w, "insert") /\ UNCHANGED locks
    BY <1>4, <1>8, <2>2, GotoStep DEF Check, At, Holding
  <2> QED
    BY <1>8, <2>1, <2>2 DEF Check
<1>9. CASE Insert(w)
  <2>1. CASE End(w, "taken")
    BY <1>5, <1>9, <2>1, EndStep DEF Insert
  <2>2. CASE ~Taken(w) /\ Goto(w, "commit") /\ UNCHANGED locks
    BY <1>4, <1>9, <2>2, GotoStep DEF Insert, At, Holding
  <2> QED
    BY <1>9, <2>1, <2>2 DEF Insert
<1>10. CASE CutOff(w)
  BY <1>5, <1>10, EndStep DEF CutOff
<1> QED
  BY <1>6, <1>7, <1>8, <1>9, <1>10

(* Every step keeps the invariant. *)
LEMMA NextStep ==
  ASSUME InvitationsInductive, [Next]_vars
  PROVE  InvitationsInductive'
<1>1. CASE UNCHANGED vars
  BY <1>1 DEF vars, InvitationsInductive, TypeOK, HolderOK, Holding, Taken, KeyFree,
              Clash, At, OneMembershipPerInvitation
<1>2. CASE \E i \in Invitations, c \in Companies : Issue(i, c)
  BY <1>2, IssueStep
<1>3. CASE \E w \in Workers, i \in Invitations, u \in Users :
             Ask(w, "new", i, u) \/ Ask(w, "existing", i, u)
  <2>1. "new" \in Ops /\ "existing" \in Ops
    BY DEF Ops
  <2> QED
    BY <1>3, <2>1, AskStep
<1>4. CASE \E w \in Workers, i \in Invitations : Ask(w, "revoke", i, None)
  <2>1. "revoke" \in Ops /\ None \in Users \cup {None}
    BY DEF Ops
  <2> QED
    BY <1>4, <2>1, AskStep
<1>5. CASE \E w \in Workers : \/ Lock(w) \/ LockToRevoke(w)
                              \/ Check(w) \/ Insert(w) \/ CutOff(w)
  BY <1>5, DecideStep
<1>6. CASE \E w \in Workers : Accept(w) \/ Revoke(w)
  BY <1>6, AcceptStep, RevokeStep
<1>7. CASE \E u \in Users, c \in Companies : Add(u, c)
  BY <1>7, AddStep
<1>8. CASE \/ \E c \in Companies : SwitchCompany(c)
           \/ \E i \in Invitations : Expire(i)
  BY <1>8, TimeStep
<1> QED
  BY <1>1, <1>2, <1>3, <1>4, <1>5, <1>6, <1>7, <1>8 DEF Next

(* The first state. *)
LEMMA InitHolds ==
  ASSUME Init
  PROVE  InvitationsInductive
<1>1. Idle \in Requests
  BY DEF Idle, Requests, Pcs, Ops, Answers
<1>2. TypeOK
  BY <1>1, FirstUsersAssumption DEF Init, TypeOK
<1>3. \A w \in Workers : HolderOK(w)
  BY DEF Init, HolderOK, Holding, At, Idle
<1>4. OneMembershipPerInvitation
  BY NoneAssumption DEF Init, OneMembershipPerInvitation
<1> QED
  BY <1>2, <1>3, <1>4 DEF InvitationsInductive, Init

(* The inductive invariant holds in every reachable state. *)
THEOREM InvitationsInvariant == Spec => []InvitationsInductive
BY InitHolds, NextStep, PTL DEF Spec

(* An invitation makes one membership, its taker's, and a revoked one none.   *)
THEOREM SingleMembership == Spec => []OneMembershipPerInvitation
<1>1. InvitationsInductive => OneMembershipPerInvitation
  BY DEF InvitationsInductive
<1> QED
  BY <1>1, InvitationsInvariant, PTL

-----------------------------------------------------------------------------
(* The contract *)

(* Accepting is taking, and revoking is revoking. *)
LEMMA CommitRefines ==
  ASSUME InvitationsInductive, NEW w \in Workers, Accept(w) \/ Revoke(w)
  PROVE  Contract!Next
<1>1. CASE Accept(w)
  <2>1. PICK i \in Invitations, u \in Users :
          /\ i = req[w].inv /\ u = req[w].user /\ issuer[i] \in Companies
          /\ taker[i] = None /\ i \notin revoked /\ origin[u][issuer[i]] = None
    BY <1>1, AtCommit DEF Accept
  <2>2. Contract!Take(i, u)
    BY <1>1, <2>1, NoneAssumption DEF Accept, Contract!Take, Contract!Open
  <2> QED
    BY <2>2 DEF Contract!Next
<1>2. CASE Revoke(w)
  <2>1. PICK i \in Invitations :
          /\ i = req[w].inv /\ issuer[i] \in Companies
          /\ taker[i] = None /\ i \notin revoked
    BY <1>2, AtCommit DEF Revoke
  <2>2. Contract!Revoke(i)
    BY <1>2, <2>1, NoneAssumption DEF Revoke, Contract!Revoke, Contract!Open
  <2> QED
    BY <2>2 DEF Contract!Next
<1> QED
  BY <1>1, <1>2

(* Every other step is the contract's own or leaves its variables alone.      *)
LEMMA StepRefines ==
  ASSUME InvitationsInductive, [Next]_vars
  PROVE  [Contract!Next]_Contract!vars
<1>1. CASE \E i \in Invitations, c \in Companies : Issue(i, c)
  <2>1. PICK i \in Invitations, c \in Companies : Issue(i, c)
    BY <1>1
  <2>2. Contract!Issue(i, c)
    BY <2>1 DEF Issue, Contract!Issue
  <2> QED
    BY <2>2 DEF Contract!Next
<1>2. CASE \E u \in Users, c \in Companies : Add(u, c)
  <2>1. PICK u \in Users, c \in Companies : Add(u, c)
    BY <1>2
  <2>2. Contract!Add(u, c)
    BY <2>1 DEF Add, Contract!Add
  <2> QED
    BY <2>2 DEF Contract!Next
<1>3. CASE \E w \in Workers : Accept(w) \/ Revoke(w)
  BY <1>3, CommitRefines
<1>4. CASE \/ \E w \in Workers : \/ Lock(w) \/ LockToRevoke(w)
                                 \/ Check(w) \/ Insert(w) \/ CutOff(w)
           \/ \E w \in Workers, i \in Invitations, u \in Users \cup {None}, op \in Ops :
                Ask(w, op, i, u)
           \/ \E c \in Companies : SwitchCompany(c)
           \/ \E i \in Invitations : Expire(i)
  <2>1. UNCHANGED rows
    BY <1>4 DEF Lock, LockToRevoke, Check, Insert, CutOff, Ask, SwitchCompany, Expire
  <2> QED
    BY <2>1 DEF rows, Contract!vars
<1>5. CASE UNCHANGED vars
  BY <1>5 DEF vars, Contract!vars
<1> QED
  BY <1>1, <1>2, <1>3, <1>4, <1>5 DEF Next, Ops

(* Invitations implements InvitationContract: an invitation is taken once or  *)
(* revoked once, in one step with the account and the membership.             *)
THEOREM KeepsContract == Spec => ImplementsContract
<1>1. Init => Contract!Init
  BY FirstUsersAssumption DEF Init, Contract!Init
<1> QED
  BY <1>1, InvitationsInvariant, StepRefines, PTL DEF Spec, ImplementsContract, Contract!Spec

-----------------------------------------------------------------------------
(* The answers *)

(* What can still change under an answer, and what cannot. *)
LEMMA NothingUndone ==
  ASSUME InvitationsInductive, [Next]_vars
  PROVE  /\ accounts \subseteq accounts' /\ revoked \subseteq revoked'
         /\ expired \subseteq expired'
         /\ \A i \in Invitations :
              /\ issuer[i] # None => issuer'[i] = issuer[i]
              /\ taker[i] # None => taker'[i] = taker[i]
         /\ \A u \in Users, c \in Companies : origin[u][c] # None => origin'[u][c] = origin[u][c]
<1>1. TypeOK
  BY DEF InvitationsInductive
<1>2. CASE \E i \in Invitations, c \in Companies : Issue(i, c)
  BY <1>1, <1>2 DEF Issue, TypeOK
<1>3. CASE \E u \in Users, c \in Companies : Add(u, c)
  <2>1. PICK u \in Users, c \in Companies : Add(u, c)
    BY <1>3
  <2>2. origin[u] \in [Companies -> Invitations \cup {None, Direct}]
    BY <1>1 DEF TypeOK
  <2>3. \A v \in Users, d \in Companies : <<v, d>> # <<u, c>> => origin'[v][d] = origin[v][d]
    BY <1>1, <2>1, <2>2 DEF Add, TypeOK
  <2> QED
    BY <2>1, <2>3 DEF Add
<1>4. CASE \E w \in Workers : Accept(w)
  <2>1. PICK w \in Workers : Accept(w)
    BY <1>4
  <2>2. PICK i \in Invitations, u \in Users, c \in Companies :
          /\ i = req[w].inv /\ u = req[w].user /\ c = issuer[i]
          /\ taker[i] = None /\ origin[u][c] = None
    BY <2>1, AtCommit DEF Accept
  <2>3. origin[u] \in [Companies -> Invitations \cup {None, Direct}]
    BY <1>1 DEF TypeOK
  <2>4. /\ \A j \in Invitations \ {i} : taker'[j] = taker[j]
        /\ \A v \in Users, d \in Companies : <<v, d>> # <<u, c>> => origin'[v][d] = origin[v][d]
    BY <1>1, <2>1, <2>2, <2>3 DEF Accept, TypeOK
  <2> QED
    BY <2>1, <2>2, <2>4 DEF Accept
<1>5. CASE \E w \in Workers : Revoke(w)
  BY <1>5 DEF Revoke
<1>6. CASE \/ \E w \in Workers : \/ Lock(w) \/ LockToRevoke(w)
                                 \/ Check(w) \/ Insert(w) \/ CutOff(w)
           \/ \E w \in Workers, i \in Invitations, u \in Users \cup {None}, op \in Ops :
                Ask(w, op, i, u)
           \/ \E c \in Companies : SwitchCompany(c)
           \/ \E i \in Invitations : Expire(i)
  <2>1. UNCHANGED rows /\ expired \subseteq expired'
    BY <1>6 DEF Lock, LockToRevoke, Check, Insert, CutOff, Ask, SwitchCompany, Expire
  <2> QED
    BY <2>1 DEF rows
<1>7. CASE UNCHANGED vars
  BY <1>7 DEF vars
<1> QED
  BY <1>2, <1>3, <1>4, <1>5, <1>6, <1>7 DEF Next, Ops

(* An invitation that is expired and not locked stays as it is. *)
LEMMA ExpiredForGood ==
  ASSUME InvitationsInductive, [Next]_vars, NEW i \in Invitations,
         i \in expired, locks[i] = None
  PROVE  taker'[i] = taker[i] /\ (i \in revoked' => i \in revoked) /\ locks'[i] = None
<1>1. TypeOK /\ \A w \in Workers : w # None
  BY NoneAssumption DEF InvitationsInductive
<1>2. ASSUME NEW w \in Workers, Accept(w) \/ Revoke(w)
      PROVE  /\ taker'[i] = taker[i] /\ (i \in revoked' => i \in revoked)
             /\ locks' = Released(w)
  <2>1. locks[req[w].inv] = w /\ req[w].inv \in Invitations
    BY <1>2, AtCommit DEF Accept, Revoke
  <2>2. req[w].inv # i
    BY <1>1, <2>1
  <2> QED
    BY <1>1, <1>2, <2>1, <2>2 DEF Accept, Revoke, End, TypeOK
<1>3. ASSUME NEW w \in Workers, Lock(w) \/ LockToRevoke(w)
      PROVE  locks' = Released(w) \/ \E j \in Invitations \ {i} : locks' = [locks EXCEPT ![j] = w]
  <2>1. req[w].inv \in Invitations
    BY <1>3 DEF InvitationsInductive, HolderOK, At, Lock, LockToRevoke
  <2>2. Status(i) # "pending"
    BY DEF Status
  <2> QED
    BY <1>3, <2>1, <2>2 DEF Lock, LockToRevoke, End
<1>4. ASSUME NEW w \in Workers, locks' = Released(w)
      PROVE  locks'[i] = None
  BY <1>1, <1>4 DEF Released
<1>5. CASE \E w \in Workers : Accept(w) \/ Revoke(w)
  BY <1>2, <1>4, <1>5
<1>6. CASE \E w \in Workers : Lock(w) \/ LockToRevoke(w)
  <2>1. locks'[i] = None
    BY <1>1, <1>3, <1>4, <1>6 DEF TypeOK
  <2>2. UNCHANGED rows
    BY <1>6 DEF Lock, LockToRevoke
  <2> QED
    BY <2>1, <2>2 DEF rows
<1>7. CASE \E w \in Workers : Check(w) \/ Insert(w) \/ CutOff(w)
  <2>1. UNCHANGED rows /\ \E w \in Workers : locks' = Released(w) \/ UNCHANGED locks
    BY <1>7 DEF Check, Insert, CutOff, End
  <2> QED
    BY <1>4, <2>1 DEF rows
<1>8. CASE \/ \E w \in Workers, j \in Invitations, u \in Users \cup {None}, op \in Ops :
                Ask(w, op, j, u)
           \/ \E j \in Invitations, c \in Companies : Issue(j, c)
           \/ \E u \in Users, c \in Companies : Add(u, c)
           \/ \E c \in Companies : SwitchCompany(c)
           \/ \E j \in Invitations : Expire(j)
           \/ UNCHANGED vars
  <2>1. UNCHANGED <<locks, taker, revoked>>
    BY <1>8 DEF Ask, Issue, Add, SwitchCompany, Expire, vars, rows
  <2> QED
    BY <2>1
<1> QED
  BY <1>5, <1>6, <1>7, <1>8 DEF Next, Ops

(* An answer that was given before the step stays true. *)
LEMMA OldAnswer ==
  ASSUME InvitationsInductive, [Next]_vars, NEW w \in Workers, AnswerOK(w), req'[w] = req[w]
  PROVE  AnswerOK(w)'
<1> DEFINE i == req[w].inv
           u == req[w].user
<1>1. CASE req[w].said = "nothing"
  BY <1>1 DEF AnswerOK, SaidOK, At
<1>2. CASE req[w].said # "nothing"
  <2>1. /\ i \in Invitations /\ issuer[i] # None /\ At(w, "idle")
        /\ req[w].op # "revoke" => u \in Users
        /\ req[w].said = "taken" => req[w].op # "revoke"
        /\ req[w].said = "expired" => locks[i] = None
        /\ SaidOK(w)
    BY <1>2 DEF AnswerOK
  <2>2. /\ issuer'[i] = issuer[i] /\ issuer[i] \in Companies
        /\ taker[i] # None => taker'[i] = taker[i]
        /\ accounts \subseteq accounts' /\ revoked \subseteq revoked' /\ expired \subseteq expired'
        /\ u \in Users /\ origin[u][issuer[i]] # None =>
             origin'[u][issuer[i]] = origin[u][issuer[i]]
    BY <2>1, NothingUndone DEF InvitationsInductive, TypeOK
  <2>3. req[w].said = "expired" =>
          taker'[i] = taker[i] /\ (i \in revoked' => i \in revoked) /\ locks'[i] = None
    BY <2>1, ExpiredForGood DEF SaidOK
  <2>4. u \in Users => u # None
    BY NoneAssumption
  <2>5. i # None
    BY <2>1, NoneAssumption
  <2>6. SaidOK(w)'
    BY <2>1, <2>2, <2>3, <2>4, <2>5 DEF SaidOK
  <2> QED
    BY <2>1, <2>2, <2>3, <2>6 DEF AnswerOK, At
<1> QED
  BY <1>1, <1>2

(* A request that goes on, or ends without an answer, says nothing. *)
LEMMA Silent ==
  ASSUME NEW w \in Workers, req'[w].said = "nothing"
  PROVE  AnswerOK(w)'
BY DEF AnswerOK, SaidOK

(* A request that decides has a reason for its answer. *)
LEMMA NewAnswer ==
  ASSUME InvitationsInductive, NEW w \in Workers, AnswerOK(w),
         \/ Lock(w) \/ LockToRevoke(w) \/ Check(w) \/ Insert(w)
         \/ Accept(w) \/ Revoke(w) \/ CutOff(w)
  PROVE  AnswerOK(w)'
<1> DEFINE i == req[w].inv
           u == req[w].user
<1>1. TypeOK /\ HolderOK(w) /\ req[w] \in Requests /\ ~At(w, "idle")
  BY DEF InvitationsInductive, TypeOK, Lock, LockToRevoke, Check, Insert, Accept, Revoke,
         CutOff, At
<1>2. /\ i \in Invitations /\ issuer[i] # None
      /\ req[w].op # "revoke" => u \in Users
      /\ req[w].op = "existing" => u \in accounts
      /\ req[w].said = "nothing"
  BY <1>1 DEF HolderOK, AnswerOK
<1>3. ASSUME NEW pc, Goto(w, pc)
      PROVE  req'[w].said = "nothing"
  BY <1>1, <1>2, <1>3 DEF Goto, Requests, TypeOK
<1>4. ASSUME NEW answer \in Answers, End(w, answer)
      PROVE  /\ req'[w].pc = "idle" /\ req'[w].op = req[w].op /\ req'[w].user = u
             /\ req'[w].inv = i /\ req'[w].said = answer
  BY <1>1, <1>4, Ending
<1>5. {"ok", "taken", "unavailable", "nothing", "revoked", "accepted", "expired"}
        \subseteq Answers
  BY DEF Answers
<1>6. CASE Lock(w) \/ LockToRevoke(w)
  <2>1. UNCHANGED rows /\ UNCHANGED expired /\ locks[i] = None
    BY <1>6 DEF Lock, LockToRevoke, Lockable
  <2>2. CASE \E pc \in Pcs : Goto(w, pc)
    BY <1>3, <2>2, Silent
  <2>3. CASE End(w, "unavailable")
    <3>1. /\ req'[w].pc = "idle" /\ req'[w].op = req[w].op /\ req'[w].user = u
          /\ req'[w].inv = i /\ req'[w].said = "unavailable"
      BY <1>4, <1>5, <2>3
    <3> QED
      BY <1>2, <2>1, <3>1 DEF AnswerOK, SaidOK, At, rows
  <2>4. CASE /\ Status(i) \in {"revoked", "accepted", "expired"}
             /\ End(w, Status(i))
    <3>1. PICK answer \in {"revoked", "accepted", "expired"} :
            answer = Status(i) /\ End(w, answer)
      BY <2>4
    <3>2. /\ answer = "revoked" => i \in revoked
          /\ answer = "accepted" => taker[i] # None
          /\ answer = "expired" => i \in expired /\ taker[i] = None /\ i \notin revoked
      BY <3>1 DEF Status
    <3>3. /\ req'[w].pc = "idle" /\ req'[w].op = req[w].op /\ req'[w].user = u
          /\ req'[w].inv = i /\ req'[w].said = answer
      BY <1>4, <1>5, <3>1
    <3>4. locks'[i] = None
      BY <1>1, <1>2, <2>1, <3>1 DEF End, Released, TypeOK
    <3>5. SaidOK(w)'
      BY <2>1, <3>1, <3>2, <3>3 DEF SaidOK, rows
    <3> QED
      BY <1>2, <2>1, <3>1, <3>3, <3>4, <3>5 DEF AnswerOK, At, rows
  <2>5. CASE LockToRevoke(w) /\ Status(i) = "revoked" /\ End(w, "ok")
    <3>1. /\ req'[w].pc = "idle" /\ req'[w].op = "revoke" /\ req'[w].user = u
          /\ req'[w].inv = i /\ req'[w].said = "ok"
      BY <1>4, <1>5, <2>5 DEF LockToRevoke
    <3>2. i \in revoked
      BY <2>5 DEF Status
    <3> QED
      BY <1>2, <2>1, <3>1, <3>2 DEF AnswerOK, SaidOK, At, rows
  <2>6. Status(i) \in {"pending", "revoked", "accepted", "expired"}
    BY DEF Status
  <2> QED
    BY <1>6, <2>2, <2>3, <2>4, <2>5, <2>6 DEF Lock, LockToRevoke, Pcs
<1>7. CASE Check(w) \/ Insert(w)
  <2>1. UNCHANGED rows
    BY <1>7 DEF Check, Insert
  <2>2. CASE \E pc \in Pcs : Goto(w, pc)
    BY <1>3, <2>2, Silent
  <2>3. CASE Taken(w) /\ End(w, "taken")
    <3>1. /\ req'[w].pc = "idle" /\ req'[w].op = req[w].op /\ req'[w].user = u
          /\ req'[w].inv = i /\ req'[w].said = "taken"
      BY <1>4, <1>5, <2>3
    <3>2. req[w].op # "revoke"
      BY <2>3 DEF Taken
    <3> QED
      BY <1>2, <2>1, <2>3, <3>1, <3>2 DEF AnswerOK, SaidOK, Taken, At, rows
  <2> QED
    BY <1>7, <2>2, <2>3 DEF Check, Insert, Pcs
<1>8. CASE Accept(w)
  <2>1. PICK answer \in {"ok", "nothing"} : End(w, answer)
    BY <1>8 DEF Accept
  <2>2. /\ req'[w].pc = "idle" /\ req'[w].op = req[w].op /\ req'[w].user = u
        /\ req'[w].inv = i /\ req'[w].said = answer
    BY <1>4, <1>5, <2>1
  <2>3. issuer[i] \in Companies /\ u \in Users /\ req[w].op # "revoke"
    BY <1>8, AtCommit DEF Accept
  <2>4. origin[u] \in [Companies -> Invitations \cup {None, Direct}]
    BY <1>1, <2>3 DEF TypeOK
  <2>5. /\ u \in accounts' /\ taker'[i] = u /\ origin'[u][issuer[i]] = i
        /\ issuer' = issuer
    BY <1>1, <1>2, <1>8, <2>3, <2>4 DEF Accept, TypeOK
  <2> QED
    BY <1>2, <2>1, <2>2, <2>3, <2>5 DEF AnswerOK, SaidOK, At
<1>9. CASE Revoke(w)
  <2>1. PICK answer \in {"ok", "nothing"} : End(w, answer)
    BY <1>9 DEF Revoke
  <2>2. /\ req'[w].pc = "idle" /\ req'[w].op = "revoke" /\ req'[w].user = u
        /\ req'[w].inv = i /\ req'[w].said = answer
    BY <1>4, <1>5, <1>9, <2>1 DEF Revoke
  <2>3. i \in revoked' /\ issuer' = issuer
    BY <1>9 DEF Revoke
  <2> QED
    BY <1>2, <2>1, <2>2, <2>3 DEF AnswerOK, SaidOK, At
<1>10. CASE CutOff(w)
  BY <1>4, <1>5, <1>10, Silent DEF CutOff
<1> QED
  BY <1>6, <1>7, <1>8, <1>9, <1>10

(* Every answer keeps its reason through every step. *)
LEMMA AnswerStep ==
  ASSUME AnswersInductive, [Next]_vars
  PROVE  AnswersInductive'
<1>1. InvitationsInductive /\ InvitationsInductive' /\ TypeOK
  BY NextStep DEF AnswersInductive, InvitationsInductive
<1> SUFFICES ASSUME NEW v \in Workers
             PROVE  AnswerOK(v)'
  BY <1>1 DEF AnswersInductive
<1>2. AnswerOK(v)
  BY DEF AnswersInductive
<1>3. CASE req'[v] = req[v]
  BY <1>1, <1>2, <1>3, OldAnswer
<1>4. ASSUME NEW w \in Workers, NEW op \in Ops, NEW i \in Invitations,
             NEW u \in Users \cup {None}, Ask(w, op, i, u), req'[v] # req[v]
      PROVE  AnswerOK(v)'
  BY <1>1, <1>4, Silent DEF Ask, TypeOK
<1>5. ASSUME NEW w \in Workers, w # v,
             \/ Lock(w) \/ LockToRevoke(w) \/ Check(w) \/ Insert(w)
             \/ Accept(w) \/ Revoke(w) \/ CutOff(w)
      PROVE  req'[v] = req[v]
  BY <1>1, <1>5 DEF Lock, LockToRevoke, Check, Insert, Accept, Revoke, CutOff, Goto, End, TypeOK
<1>6. CASE \E w \in Workers : \/ Lock(w) \/ LockToRevoke(w) \/ Check(w) \/ Insert(w)
                              \/ Accept(w) \/ Revoke(w) \/ CutOff(w)
  BY <1>1, <1>2, <1>3, <1>5, <1>6, NewAnswer
<1>7. CASE UNCHANGED req
  BY <1>3, <1>7
<1>8. CASE \/ \E i \in Invitations, c \in Companies : Issue(i, c)
           \/ \E u \in Users, c \in Companies : Add(u, c)
           \/ \E c \in Companies : SwitchCompany(c)
           \/ \E i \in Invitations : Expire(i)
           \/ UNCHANGED vars
  BY <1>7, <1>8 DEF Issue, Add, SwitchCompany, Expire, vars
<1>9. {"new", "existing", "revoke"} = Ops
  BY DEF Ops
<1> QED
  BY <1>3, <1>4, <1>6, <1>8, <1>9 DEF Next

(* Whatever a client was told about an invitation stays true.                 *)
THEOREM AnswersAreFinal == Spec => []AnswersStayTrue
<1>1. Init => AnswersInductive
  BY InitHolds DEF Init, AnswersInductive, AnswerOK, SaidOK, Idle
<1>2. AnswersInductive => AnswersStayTrue
  BY DEF AnswersInductive, AnswersStayTrue, AnswerOK
<1> QED
  BY <1>1, <1>2, AnswerStep, PTL DEF Spec
=============================================================================
