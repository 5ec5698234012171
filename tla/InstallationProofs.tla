------------------------- MODULE InstallationProofs -------------------------
(***************************************************************************)
(* For any number of users, companies and requests: installers never       *)
(* collide, a status is one the installation was in during the request,    *)
(* and access lost outside the handlers is back after startup. The         *)
(* argument: rows of the first three tables are never deleted, so what a   *)
(* request found is still there (ReadOK), and an installer that found      *)
(* nothing holds the lock without which nobody adds the first user.        *)
(***************************************************************************)
EXTENDS Installation, TLAPS

(* A worker without a request. *)
LEMMA IdleRequest == Idle \in Requests
  BY DEF Idle, Requests, Pcs, Answers

(* The administrator is looked for last, and only last. *)
LEMMA OrderFacts ==
  ASSUME NEW i \in 1 .. 4
  PROVE  Order[i] \in Tables /\ (i = 1 => Order[i] = "users")
         /\ (i < 4 <=> Order[i] # "administrator")
  BY DEF Order, Tables

(* A status is one of the three. *)
LEMMA StateTypes == (\A found : StateFrom(found) \in States) /\ State \in States
  BY DEF StateFrom, States, State

(* Types after a step, from the parts it changes. *)
LEMMA DuringTypes ==
  ASSUME TypeOK, Watch
  PROVE  during' \in [Workers -> SUBSET States]
<1>1. State' \in States
  BY DEF StateFrom, States, State
<1> QED
  BY <1>1 DEF TypeOK, Watch

(* The state is watched. *)
LEMMA Watched ==
  ASSUME TypeOK, Watch, NEW w \in Workers, req'[w].pc # "idle"
  PROVE  during'[w] = during[w] \cup {State'}
  BY DEF Watch, At

(* Rows of users, companies and members stay. *)
LEMMA PresentGrows ==
  ASSUME users \subseteq users', companies \subseteq companies', members \subseteq members'
  PROVE  Present \ {"administrator"} \subseteq Present' \ {"administrator"}
  BY DEF Present

(* A step of one request in tables that stay as they are. *)
LEMMA BecomeStep ==
  ASSUME InstallationInductive, NEW w \in Workers, NEW r \in Requests, Become(w, r),
         lock' \in {None} \cup Workers,
         \A v \in Workers \ {w} : lock = v => lock' = v,
         r.answer # "failed", r.answer \in States => r.answer \in during'[w],
         ReadOK(w)'
  PROVE  InstallationInductive'
<1>1. TypeOK /\ UNCHANGED <<up, db, changes, taken>> /\ req' = [req EXCEPT ![w] = r] /\ Watch
  BY DEF InstallationInductive, Become
<1>2. UNCHANGED <<users, companies, top, active, members, on, admins>>
  BY <1>1 DEF db
<1>3. req' \in [Workers -> Requests] /\ req'[w] = r /\ \A v \in Workers : v # w => req'[v] = req[v]
  BY <1>1 DEF TypeOK
<1>4. TypeOK'
  BY <1>1, <1>2, <1>3, DuringTypes DEF TypeOK
<1>5. State' = State /\ Present' = Present
  BY <1>2 DEF State, StateFrom, Present
<1>6. ASSUME NEW v \in Workers, v # w
      PROVE  ReadOK(v)' /\ req'[v].answer # "failed"
             /\ (req'[v].answer \in States => req'[v].answer \in during'[v])
  <2>1. ReadOK(v) /\ req'[v] = req[v] /\ req[v].answer # "failed"
        /\ (req[v].answer \in States => req[v].answer \in during[v])
    BY <1>3, <1>6 DEF InstallationInductive, InstallersNeverCollide, AnswersOfSomeMoment
  <2>2. req[v].pc # "idle" => during'[v] = during[v] \cup {State'}
    BY <1>1, <2>1, Watched
  <2>3. req[v].answer \in States => req[v].pc = "answered"
    BY <2>1 DEF ReadOK, States
  <2>4. ReadOK(v)'
    BY <1>2, <1>5, <1>6, <2>1, <2>2 DEF ReadOK
  <2> QED
    BY <2>1, <2>2, <2>3, <2>4
<1>7. InstallersNeverCollide' /\ AnswersOfSomeMoment' /\ \A v \in Workers : ReadOK(v)'
  BY <1>3, <1>6 DEF InstallersNeverCollide, AnswersOfSomeMoment
<1>8. AdministratorHasAccess'
  BY <1>1, <1>2 DEF InstallationInductive, AdministratorHasAccess
<1> QED
  BY <1>2, <1>4, <1>7, <1>8 DEF InstallationInductive

(* A step of the tables: requests notice only what they watch.               *)
LEMMA TablesStep ==
  ASSUME InstallationInductive, Watch, UNCHANGED <<lock, req>>,
         users \subseteq users', companies \subseteq companies', members \subseteq members',
         users = {} => users' = {},
         up' \in BOOLEAN, changes' \in 0 .. MaxChanges, taken' \in SUBSET Companies,
         users' \in SUBSET Users, companies' \in SUBSET Companies,
         top' \in SUBSET companies', active' \in SUBSET companies',
         members' \in SUBSET (companies' \X users'), on' \in SUBSET members',
         admins' \in SUBSET members', top \subseteq top', top' \subseteq active',
         users' = {} => companies' = {}, AdministratorHasAccess'
  PROVE  InstallationInductive'
<1>1. TypeOK /\ Present \ {"administrator"} \subseteq Present' \ {"administrator"}
  BY PresentGrows DEF InstallationInductive
<1>2. TypeOK'
  BY <1>1, DuringTypes DEF TypeOK
<1>3. ASSUME NEW v \in Workers
      PROVE  ReadOK(v)' /\ req'[v].answer # "failed"
             /\ (req'[v].answer \in States => req'[v].answer \in during'[v])
  <2>1. ReadOK(v) /\ req'[v] = req[v] /\ req[v].answer # "failed"
        /\ (req[v].answer \in States => req[v].answer \in during[v])
    BY <1>3 DEF InstallationInductive, InstallersNeverCollide, AnswersOfSomeMoment
  <2>2. req[v].pc # "idle" => during'[v] = during[v] \cup {State'}
    BY <1>1, <2>1, Watched
  <2>3. req[v].answer \in States => req[v].pc = "answered"
    BY <2>1 DEF ReadOK, States
  <2>4. ReadOK(v)'
    BY <1>1, <1>3, <2>1, <2>2 DEF ReadOK
  <2> QED
    BY <2>1, <2>2, <2>3, <2>4
<1>4. InstallersNeverCollide' /\ AnswersOfSomeMoment' /\ \A v \in Workers : ReadOK(v)'
  BY <1>3 DEF InstallersNeverCollide, AnswersOfSomeMoment
<1>5. Root \in users' => Root \in users
  BY DEF InstallationInductive
<1>6. (Root \notin users' => users' = {}) /\ (Root \in users' => top' # {})
  BY <1>5 DEF InstallationInductive
<1> QED
  BY <1>2, <1>4, <1>6 DEF InstallationInductive

(* The requests up to the decision, and their end.                           *)
LEMMA RequestStep ==
  ASSUME InstallationInductive, NEW w \in Workers,
         AskStatus(w) \/ AskInstall(w) \/ Lock(w) \/ Done(w) \/ CutOff(w)
  PROVE  InstallationInductive'
<1>1. TypeOK /\ ReadOK(w) /\ req[w] \in Requests /\ w # None
  BY NoneAssumption DEF InstallationInductive, TypeOK
<1>2. ASSUME NEW r, Become(w, r)
      PROVE  /\ req'[w] = r
             /\ UNCHANGED <<users, companies, top, active, members, on, admins>>
             /\ r.pc # "idle" => during'[w] = during[w] \cup {State'}
  <2>1. req'[w] = r /\ Watch
    BY <1>1, <1>2 DEF Become, TypeOK
  <2>2. r.pc # "idle" => during'[w] = during[w] \cup {State'}
    BY <1>1, <2>1, Watched
  <2> QED
    BY <1>2, <2>1, <2>2 DEF Become, db
<1>3. ASSUME NEW r \in Requests, Become(w, r), UNCHANGED lock, r.answer = "nothing",
             r.next = 1, r.found = {},
             r.pc \in {"read", "lock"}, r.install <=> r.pc = "lock"
      PROVE  InstallationInductive'
  <2>1. ReadOK(w)'
    BY <1>2, <1>3 DEF ReadOK
  <2>2. lock' \in {None} \cup Workers
    BY <1>1, <1>3 DEF TypeOK
  <2> QED
    BY <1>3, <2>1, <2>2, BecomeStep DEF States
<1>4. ASSUME AskStatus(w)
      PROVE  InstallationInductive'
  <2> DEFINE r == [Idle EXCEPT !.pc = "read"]
  <2>1. r \in Requests
    BY IdleRequest DEF Requests, Pcs
  <2>2. r.answer = "nothing" /\ r.pc = "read" /\ r.install = FALSE /\ r.next = 1 /\ r.found = {}
    BY DEF Idle
  <2>3. Become(w, r) /\ UNCHANGED lock
    BY <1>4 DEF AskStatus
  <2> HIDE DEF r
  <2> QED
    BY <1>3, <2>1, <2>2, <2>3
<1>5. ASSUME AskInstall(w)
      PROVE  InstallationInductive'
  <2> DEFINE r == [Idle EXCEPT !.pc = "lock", !.install = TRUE]
  <2>1. r \in Requests
    BY IdleRequest DEF Requests, Pcs
  <2>2. r.answer = "nothing" /\ r.pc = "lock" /\ r.install = TRUE /\ r.next = 1 /\ r.found = {}
    <3>1. Idle.answer = "nothing" /\ Idle.next = 1 /\ Idle.found = {}
      BY DEF Idle
    <3> QED
      BY <3>1, IdleRequest DEF Requests
  <2>3. Become(w, r) /\ UNCHANGED lock
    BY <1>5 DEF AskInstall
  <2> HIDE DEF r
  <2> QED
    BY <1>3, <2>1, <2>2, <2>3
<1>6. ASSUME Lock(w)
      PROVE  InstallationInductive'
  <2> DEFINE r == [req[w] EXCEPT !.pc = "read"]
  <2>1. req[w].pc = "lock" /\ lock = None /\ lock' = w /\ Become(w, r)
    BY <1>6 DEF Lock, At, Free
  <2>2. r \in Requests /\ r.pc = "read" /\ r.install = req[w].install /\ r.next = req[w].next
        /\ r.found = req[w].found /\ r.answer = req[w].answer
    BY <1>1 DEF Requests, Pcs
  <2> HIDE DEF r
  <2>3. req[w].answer = "nothing" /\ r.next = 1 /\ r.found = {}
    BY <1>1, <2>1, <2>2 DEF ReadOK
  <2>4. ReadOK(w)'
    BY <1>2, <2>1, <2>2, <2>3 DEF ReadOK
  <2>5. \A v \in Workers \ {w} : lock = v => lock' = v
    BY <2>1, NoneAssumption
  <2> QED
    BY <2>1, <2>2, <2>3, <2>4, <2>5, BecomeStep DEF States
<1>7. ASSUME Become(w, Idle), lock' = Released(w) \/ UNCHANGED lock
      PROVE  InstallationInductive'
  <2>1. ReadOK(w)'
    BY <1>2, <1>7 DEF ReadOK, Idle
  <2>2. lock' \in {None} \cup Workers /\ \A v \in Workers \ {w} : lock = v => lock' = v
    BY <1>1, <1>7 DEF Released, TypeOK
  <2>3. Idle.answer = "nothing"
    BY DEF Idle
  <2> QED
    BY <1>7, <2>1, <2>2, <2>3, IdleRequest, BecomeStep DEF States
<1> QED
  BY <1>4, <1>5, <1>6, <1>7 DEF Done, CutOff

(* A SELECT of the status, and the decision after the last.                  *)
LEMMA ReadStep ==
  ASSUME InstallationInductive, NEW w \in Workers, Read(w)
  PROVE  InstallationInductive'
<1>1. TypeOK /\ ReadOK(w) /\ req[w] \in Requests /\ w # None /\ req[w].pc = "read"
  BY NoneAssumption DEF InstallationInductive, TypeOK, Read, At
<1>2. PICK i \in 1 .. 4 : i = req[w].next
  BY <1>1 DEF Requests
<1>3. PICK found : found = req[w].found \cup ({Order[i]} \cap Present)
  OBVIOUS
<1>4. PICK state : state = StateFrom(found)
  OBVIOUS
<1>5. found \in SUBSET Tables /\ req[w].found \subseteq found /\ state \in States
  BY <1>1, <1>3, <1>4, OrderFacts, StateTypes DEF Requests
<1>6. \A r : Become(w, r) =>
        /\ req'[w] = r
        /\ UNCHANGED <<users, companies, top, active, members, on, admins>>
        /\ r.pc # "idle" => during'[w] = during[w] \cup {State'}
  <2> SUFFICES ASSUME NEW r, Become(w, r)
               PROVE  /\ req'[w] = r
                      /\ UNCHANGED <<users, companies, top, active, members, on, admins>>
                      /\ r.pc # "idle" => during'[w] = during[w] \cup {State'}
    OBVIOUS
  <2>1. req'[w] = r /\ Watch
    BY <1>1 DEF Become, TypeOK
  <2>2. r.pc # "idle" => during'[w] = during[w] \cup {State'}
    BY <1>1, <2>1, Watched
  <2> QED
    BY <2>1, <2>2 DEF Become, db
<1>7. State \in during[w] /\ req[w].answer = "nothing"
      /\ (i # 1 /\ req[w].found = {} => "ready" \in during[w] /\ (req[w].install => users = {}))
  <2>1. State \in during[w] /\ req[w].answer = "nothing"
    BY <1>1 DEF ReadOK, Requests
  <2>2. i # 1 => req[w].next > 1
    BY <1>2
  <2>3. req[w].next > 1 /\ req[w].found = {} =>
          "ready" \in during[w] /\ (req[w].install => users = {})
    BY <1>1, Zenon DEF ReadOK
  <2> QED
    BY <2>1, <2>2, <2>3
<1>8. users = {} => companies = {} /\ members = {}
  BY <1>1 DEF InstallationInductive, TypeOK
<1>9. CASE i < 4
  <2> DEFINE r == [req[w] EXCEPT !.next = i + 1, !.found = found]
  <2>1. Become(w, r) /\ UNCHANGED lock
    BY <1>2, <1>3, <1>4, <1>9 DEF Read
  <2>2. r \in Requests
    <3>1. i + 1 \in 1 .. 4
      BY <1>9
    <3> QED
      BY <1>1, <1>5, <3>1 DEF Requests
  <2>3. r.pc = "read" /\ r.install = req[w].install /\ r.next = i + 1 /\ r.found = found
        /\ r.answer = "nothing"
    BY <1>1, <1>7 DEF Requests
  <2> HIDE DEF r
  <2>4. Present' = Present /\ State' = State
    BY <1>6, <2>1 DEF Present, State, StateFrom
  <2>5. found \subseteq Present \ {"administrator"}
    BY <1>1, <1>3, <1>9, OrderFacts DEF ReadOK
  <2>6. found = {} => "ready" \in during[w] /\ (r.install => users = {})
    <3>1. CASE i = 1 /\ found = {}
      <4>1. "users" \notin Present
        BY <1>3, <3>1, OrderFacts
      <4>2. users = {} /\ companies = {} /\ members = {}
        BY <1>8, <4>1 DEF Present, Tables
      <4>3. State = "ready"
        BY <4>2 DEF State, StateFrom, Present
      <4> QED
        BY <1>7, <4>2, <4>3
    <3>2. CASE i # 1 /\ found = {}
      BY <1>5, <1>7, <2>3, <3>2
    <3> QED
      BY <3>1, <3>2
  <2>7. ReadOK(w)'
    BY <1>1, <1>6, <2>1, <2>3, <2>4, <2>5, <2>6 DEF ReadOK
  <2>8. lock' \in {None} \cup Workers
    BY <1>1, <2>1 DEF TypeOK
  <2> QED
    BY <2>1, <2>2, <2>3, <2>7, <2>8, BecomeStep DEF States
<1>10. CASE i = 4 /\ req[w].install /\ state = "ready"
  <2> DEFINE r == [req[w] EXCEPT !.pc = "create", !.found = found]
  <2>1. Become(w, r) /\ UNCHANGED lock
    BY <1>2, <1>3, <1>4, <1>10 DEF Read
  <2>2. r \in Requests
    BY <1>1, <1>5 DEF Requests, Pcs
  <2>3. r.pc = "create" /\ r.install = req[w].install /\ r.answer = "nothing"
    BY <1>1, <1>7 DEF Requests
  <2> HIDE DEF r
  <2>4. found \cap {"users", "companies", "memberships"} = {}
    BY <1>4, <1>10 DEF StateFrom
  <2>5. req[w].found = {}
    BY <1>1, <1>5, <2>4 DEF ReadOK, Present, Tables
  <2>6. users = {}
    BY <1>7, <1>10, <2>5
  <2>7. ReadOK(w)'
    BY <1>1, <1>6, <1>10, <2>1, <2>3, <2>6 DEF ReadOK
  <2>8. lock' \in {None} \cup Workers
    BY <1>1, <2>1 DEF TypeOK
  <2> QED
    BY <2>1, <2>2, <2>3, <2>7, <2>8, BecomeStep DEF States
<1>11. CASE i = 4 /\ ~(req[w].install /\ state = "ready")
  <2> DEFINE r == [req[w] EXCEPT !.pc = "answered", !.found = found, !.answer = state]
  <2>1. Become(w, r) /\ lock' = Released(w)
    BY <1>2, <1>3, <1>4, <1>11 DEF Read
  <2>2. r \in Requests
    BY <1>1, <1>5 DEF Requests, Pcs, Answers
  <2>3. r.pc = "answered" /\ r.answer = state
    BY <1>1 DEF Requests
  <2> HIDE DEF r
  <2>4. Present' = Present /\ State' = State /\ during'[w] = during[w] \cup {State'}
    BY <1>6, <2>1, <2>3 DEF Present, State, StateFrom
  <2>5. Order[i] = "administrator"
    BY <1>11, OrderFacts
  <2>6. ASSUME req[w].found = {}
        PROVE  state \in during[w]
    <3>1. found \cap {"users", "companies", "memberships"} = {}
      BY <1>3, <2>5, <2>6
    <3>2. state = "ready"
      BY <1>4, <3>1 DEF StateFrom
    <3> QED
      BY <1>7, <1>11, <2>6, <3>2
  <2>7. ASSUME req[w].found # {}
        PROVE  state = State
    <3>1. req[w].found \subseteq Present \ {"administrator"}
          /\ Present \subseteq Tables
      BY <1>1 DEF ReadOK, Present
    <3>2. found \cap {"users", "companies", "memberships"} # {}
          /\ Present \cap {"users", "companies", "memberships"} # {}
      BY <1>5, <2>7, <3>1 DEF Tables
    <3>3. "administrator" \in found <=> "administrator" \in Present
      BY <1>3, <2>5, <3>1
    <3> QED
      BY <1>4, <3>2, <3>3 DEF State, StateFrom
  <2>8. state \in during'[w] /\ State' \in during'[w]
    BY <2>4, <2>6, <2>7
  <2>9. ReadOK(w)'
    BY <1>6, <2>1, <2>3, <2>8 DEF ReadOK
  <2>10. lock' \in {None} \cup Workers /\ \A v \in Workers \ {w} : lock = v => lock' = v
    BY <1>1, <2>1 DEF Released, TypeOK
  <2> QED
    BY <1>5, <2>1, <2>2, <2>3, <2>8, <2>9, <2>10, BecomeStep DEF States
<1> QED
  BY <1>2, <1>9, <1>10, <1>11

(* The installation: its installer holds the lock, so that no other one is   *)
(* past the status, and finds nothing.                                       *)
LEMMA InstallStep ==
  ASSUME InstallationInductive, NEW w \in Workers, NEW c \in Companies, Install(w, c)
  PROVE  InstallationInductive'
<1> DEFINE r == [req[w] EXCEPT !.pc = "answered", !.answer = "created"]
<1>1. TypeOK /\ ReadOK(w) /\ req[w] \in Requests /\ w # None /\ req[w].pc = "create" /\ Watch
  BY NoneAssumption DEF InstallationInductive, TypeOK, Install, At
<1>2. users = {} /\ companies = {} /\ top = {} /\ active = {}
      /\ members = {} /\ on = {} /\ admins = {} /\ lock = w
  BY <1>1 DEF InstallationInductive, TypeOK, ReadOK
<1>3. {Root} \ users = {Root} /\ {Root} # {}
  BY <1>2
<1>4. /\ users' = {Root} /\ companies' = {c} /\ top' = {c} /\ active' = {c}
      /\ members' = {<<c, Root>>} /\ on' = {<<c, Root>>} /\ admins' = {<<c, Root>>}
      /\ UNCHANGED <<up, changes, taken>>
  BY <1>2, <1>3 DEF Install
<1>5. req' = [req EXCEPT ![w] = r]
  BY <1>3, Zenon DEF Install
<1>6. r \in Requests
  BY <1>1 DEF Requests, Pcs, Answers
<1>7. r.pc = "answered" /\ r.answer = "created"
  BY <1>1 DEF Requests
<1> HIDE DEF r
<1>8. lock' = None
  BY <1>2 DEF Install, Released
<1>9. req' \in [Workers -> Requests] /\ req'[w] = r /\ \A v \in Workers : v # w => req'[v] = req[v]
  BY <1>1, <1>5, <1>6 DEF TypeOK
<1>10. TypeOK'
  BY <1>1, <1>4, <1>8, <1>9, DuringTypes, RootAssumption DEF TypeOK
<1>11. Present \ {"administrator"} \subseteq Present' \ {"administrator"}
  BY <1>2, <1>4, PresentGrows
<1>12. ASSUME NEW v \in Workers, v # w
       PROVE  ReadOK(v)' /\ req'[v].answer # "failed"
              /\ (req'[v].answer \in States => req'[v].answer \in during'[v])
  <2>1. ReadOK(v) /\ req'[v] = req[v] /\ req[v].answer # "failed"
        /\ (req[v].answer \in States => req[v].answer \in during[v])
    BY <1>9, <1>12 DEF InstallationInductive, InstallersNeverCollide, AnswersOfSomeMoment
  <2>2. req[v].pc # "idle" => during'[v] = during[v] \cup {State'}
    BY <1>1, <2>1, Watched
  <2>3. req[v].answer \in States => req[v].pc = "answered"
    BY <2>1 DEF ReadOK, States
  <2>4. ~(req[v].install /\ req[v].pc \in {"read", "create"}) /\ req[v].pc # "create"
    BY <1>2, <1>12, <2>1 DEF ReadOK
  <2>5. ReadOK(v)'
    BY <1>11, <1>12, <2>1, <2>2, <2>4 DEF ReadOK
  <2> QED
    BY <2>1, <2>2, <2>3, <2>5
<1>13. ReadOK(w)'
  <2>1. during'[w] = during[w] \cup {State'}
    BY <1>1, <1>7, <1>9, Watched
  <2> QED
    BY <1>7, <1>9, <2>1 DEF ReadOK
<1>14. InstallersNeverCollide' /\ AnswersOfSomeMoment' /\ \A v \in Workers : ReadOK(v)'
  BY <1>7, <1>9, <1>12, <1>13 DEF InstallersNeverCollide, AnswersOfSomeMoment, States
<1>15. AdministratorHasAccess'
  BY <1>4 DEF AdministratorHasAccess
<1> QED
  BY <1>4, <1>10, <1>14, <1>15 DEF InstallationInductive

(* Startup gives Root access to every company there is. *)
LEMMA StartupStep ==
  ASSUME InstallationInductive, Startup
  PROVE  InstallationInductive'
<1>1. TypeOK /\ Watch /\ UNCHANGED <<users, companies, top, active, lock, req, changes>>
      /\ up' = TRUE /\ taken' = {}
  BY DEF InstallationInductive, Startup
<1>2. /\ members' = members \cup Rooted(companies)
      /\ on' = on \cup Rooted(companies)
      /\ admins' = admins \cup Rooted(companies)
  BY DEF Startup, Ensure
<1>3. Rooted(companies) \subseteq companies \X users
  BY DEF Rooted
<1>4. /\ members' \in SUBSET (companies' \X users')
      /\ on' \in SUBSET members' /\ admins' \in SUBSET members'
      /\ users' \in SUBSET Users /\ companies' \in SUBSET Companies
      /\ top' \in SUBSET companies' /\ active' \in SUBSET companies'
      /\ changes' \in 0 .. MaxChanges
  BY <1>1, <1>2, <1>3 DEF TypeOK
<1>5. AdministratorHasAccess'
  BY <1>1, <1>2 DEF AdministratorHasAccess, Rooted
<1>6. top' \subseteq active' /\ (users' = {} => companies' = {})
  BY <1>1 DEF InstallationInductive
<1> QED
  BY <1>1, <1>2, <1>4, <1>5, <1>6, TablesStep

(* The end of the process: every request is gone. *)
LEMMA StopStep ==
  ASSUME InstallationInductive, Stop
  PROVE  InstallationInductive'
<1>1. TypeOK /\ Watch /\ up' = FALSE /\ lock' = None /\ UNCHANGED <<db, changes, taken>>
      /\ req' = [w \in Workers |-> Idle]
  BY DEF InstallationInductive, Stop
<1>2. UNCHANGED <<users, companies, top, active, members, on, admins>>
  BY <1>1 DEF db
<1>3. req' \in [Workers -> Requests] /\ \A w \in Workers : req'[w] = Idle
  BY <1>1, IdleRequest
<1>4. TypeOK'
  BY <1>1, <1>2, <1>3, DuringTypes DEF TypeOK
<1>5. InstallersNeverCollide' /\ AnswersOfSomeMoment' /\ \A v \in Workers : ReadOK(v)'
  BY <1>3 DEF InstallersNeverCollide, AnswersOfSomeMoment, ReadOK, States, Idle
<1>6. AdministratorHasAccess'
  BY <1>1 DEF AdministratorHasAccess
<1> QED
  BY <1>2, <1>4, <1>5, <1>6 DEF InstallationInductive

(* The handlers of the administration. There is a company, so there is Root. *)
LEMMA AdministerStep ==
  ASSUME InstallationInductive, Administer
  PROVE  InstallationInductive'
<1>1. TypeOK /\ top \subseteq active /\ AdministratorHasAccess
      /\ (companies # {} => Root \in users /\ users # {})
  BY DEF InstallationInductive
<1>2. Change => UNCHANGED <<up, lock, req>> /\ changes' \in 0 .. MaxChanges /\ up' \in BOOLEAN
  <2> SUFFICES ASSUME Change
               PROVE  UNCHANGED <<up, lock, req>> /\ changes' \in 0 .. MaxChanges /\ up' \in BOOLEAN
    OBVIOUS
  <2>1. changes \in Nat /\ changes < MaxChanges /\ changes' = changes + 1
    BY <1>1 DEF Change, TypeOK
  <2> QED
    BY <1>1, <2>1, MaxChangesAssumption DEF Change, TypeOK
<1>3. ASSUME NEW u \in users, NEW c \in Companies, NEW isTop \in BOOLEAN,
             CreateCompany(u, c, isTop)
      PROVE  InstallationInductive'
  <2>1. Change /\ Watch /\ UNCHANGED <<users, taken>> /\ Root \in users /\ users # {}
    <3>1. members # {}
      BY <1>3 DEF CreateCompany
    <3>2. companies # {}
      BY <1>1, <3>1 DEF TypeOK
    <3> QED
      BY <1>1, <1>3, <3>2 DEF CreateCompany
  <2>2. /\ companies' = companies \cup {c} /\ active' = active \cup {c}
        /\ top \subseteq top' /\ top' \subseteq top \cup {c}
    BY <1>3 DEF CreateCompany
  <2>3. Rooted({c}) = {<<c, Root>>}
    BY <2>1 DEF Rooted
  <2>4. /\ members' = members \cup {<<c, u>>, <<c, Root>>}
        /\ on' = on \cup {<<c, u>>, <<c, Root>>}
        /\ admins' = admins \cup {<<c, u>>, <<c, Root>>}
    BY <1>3, <2>3 DEF CreateCompany, Ensure
  <2>5. /\ members' \in SUBSET (companies' \X users')
        /\ on' \in SUBSET members' /\ admins' \in SUBSET members'
        /\ users' \in SUBSET Users /\ companies' \in SUBSET Companies
        /\ top' \in SUBSET companies' /\ active' \in SUBSET companies'
        /\ taken' \in SUBSET Companies
    BY <1>1, <2>1, <2>2, <2>4 DEF TypeOK
  <2>6. AdministratorHasAccess'
    BY <1>1, <1>2, <2>1, <2>2, <2>4 DEF AdministratorHasAccess
  <2> QED
    BY <1>1, <1>2, <2>1, <2>2, <2>4, <2>5, <2>6, TablesStep
<1>4. ASSUME NEW c \in companies, SwitchCompany(c)
      PROVE  InstallationInductive'
  <2>1. Change /\ Watch /\ UNCHANGED <<users, companies, top, members, on, admins, taken>>
        /\ active' \in SUBSET companies /\ top \subseteq active'
    BY <1>1, <1>4 DEF SwitchCompany, TypeOK
  <2>2. AdministratorHasAccess'
    BY <1>1, <1>2, <2>1 DEF AdministratorHasAccess
  <2> QED
    BY <1>1, <1>2, <2>1, <2>2, TablesStep DEF TypeOK
<1>5. ASSUME NEW c \in companies, NEW u \in Users, Join(c, u)
      PROVE  InstallationInductive'
  <2>1. Change /\ Watch /\ UNCHANGED <<companies, top, active, admins, taken>>
        /\ Root \in users /\ users # {}
        /\ users' = users \cup {u} /\ members' = members \cup {<<c, u>>} /\ on' = on \cup {<<c, u>>}
    BY <1>1, <1>5 DEF Join
  <2>2. AdministratorHasAccess'
    BY <1>1, <1>2, <2>1 DEF AdministratorHasAccess
  <2>3. /\ members' \in SUBSET (companies' \X users')
        /\ on' \in SUBSET members' /\ admins' \in SUBSET members'
    BY <1>1, <2>1 DEF TypeOK
  <2> QED
    BY <1>1, <1>2, <2>1, <2>2, <2>3, TablesStep DEF TypeOK
<1>6. ASSUME NEW m \in members, SwitchMembership(m) \/ ReplaceRoles(m)
      PROVE  InstallationInductive'
  <2>1. PICK c \in companies, u \in users : m = <<c, u>>
    BY <1>1 DEF TypeOK
  <2>2. Change /\ Watch /\ UNCHANGED <<users, companies, top, active, members>>
    BY <1>6 DEF SwitchMembership, ReplaceRoles
  <2>3. /\ on' \in SUBSET members /\ admins' \in SUBSET members
        /\ on \ {m} \subseteq on' /\ admins \ {m} \subseteq admins'
        /\ taken' \in SUBSET Companies /\ taken \subseteq taken'
        /\ (u = Root /\ m \in on \cap admins => m \in on' \cap admins' \/ c \in taken')
    BY <1>1, <1>6, <2>1 DEF SwitchMembership, ReplaceRoles, TypeOK
  <2>4. AdministratorHasAccess'
    BY <1>1, <1>2, <2>1, <2>2, <2>3 DEF AdministratorHasAccess
  <2> QED
    BY <1>1, <1>2, <2>2, <2>3, <2>4, TablesStep DEF TypeOK
<1> QED
  BY <1>3, <1>4, <1>5, <1>6 DEF Administer

(* The inductive invariant, for any number of users, companies and requests. *)
THEOREM InstallationInvariant == Spec => []InstallationInductive
<1>1. Init => InstallationInductive
  <2> SUFFICES ASSUME Init
               PROVE  InstallationInductive
    OBVIOUS
  <2>1. TypeOK
    <3>1. req \in [Workers -> Requests] /\ during \in [Workers -> SUBSET States]
      BY IdleRequest DEF Init
    <3>2. changes \in 0 .. MaxChanges /\ members \in SUBSET (companies \X users)
      BY MaxChangesAssumption DEF Init
    <3> QED
      BY <3>1, <3>2 DEF Init, TypeOK
  <2>2. InstallersNeverCollide /\ AnswersOfSomeMoment /\ \A w \in Workers : ReadOK(w)
    BY DEF Init, InstallersNeverCollide, AnswersOfSomeMoment, ReadOK, Idle, States
  <2> QED
    BY <2>1, <2>2 DEF Init, InstallationInductive, AdministratorHasAccess
<1>2. InstallationInductive /\ [Next]_vars => InstallationInductive'
  <2> SUFFICES ASSUME InstallationInductive, [Next]_vars
               PROVE  InstallationInductive'
    OBVIOUS
  <2>1. ASSUME NEW w \in Workers, Setup(w)
        PROVE  InstallationInductive'
    BY <2>1, RequestStep, ReadStep, InstallStep DEF Setup
  <2>2. CASE UNCHANGED vars
    <3>1. UNCHANGED <<up, users, companies, top, active, members, on, admins,
                      lock, req, changes, during, taken>>
      BY <2>2 DEF vars, db
    <3>2. State' = State /\ Present' = Present
      BY <3>1 DEF State, StateFrom, Present
    <3>3. TypeOK' /\ AdministratorHasAccess'
      BY <3>1 DEF InstallationInductive, TypeOK, AdministratorHasAccess
    <3>4. InstallersNeverCollide' /\ AnswersOfSomeMoment'
      BY <3>1 DEF InstallationInductive, InstallersNeverCollide, AnswersOfSomeMoment
    <3>5. \A w \in Workers : ReadOK(w)'
      BY <3>1, <3>2 DEF InstallationInductive, ReadOK
    <3> QED
      BY <3>1, <3>3, <3>4, <3>5 DEF InstallationInductive
  <2> QED
    BY <2>1, <2>2, StartupStep, StopStep, AdministerStep DEF Next
<1> QED
  BY <1>1, <1>2, PTL DEF Spec

(* Overlapping installers never run into each other's rows.                  *)
THEOREM NoCollision == Spec => []InstallersNeverCollide
<1>1. InstallationInductive => InstallersNeverCollide
  BY DEF InstallationInductive
<1> QED
  BY <1>1, InstallationInvariant, PTL

(* Four SELECTs give a state the installation was in.                        *)
THEOREM StatusOfSomeMoment == Spec => []AnswersOfSomeMoment
<1>1. InstallationInductive => AnswersOfSomeMoment
  BY DEF InstallationInductive
<1> QED
  BY <1>1, InstallationInvariant, PTL

(* What startup restores stays until a handler takes it away.                *)
THEOREM AccessKept == Spec => []AdministratorHasAccess
<1>1. InstallationInductive => AdministratorHasAccess
  BY DEF InstallationInductive
<1> QED
  BY <1>1, InstallationInvariant, PTL

(* "inconsistent" has one cause in an installed system.                      *)
THEOREM InconsistentIfTaken == Spec => []InconsistentOnlyIfTaken
<1>1. InstallationInductive => InconsistentOnlyIfTaken
  <2> SUFFICES ASSUME InstallationInductive, up, State = "inconsistent",
                      NEW c \in top, c \notin taken
               PROVE  FALSE
    BY DEF InconsistentOnlyIfTaken
  <2>1. c \in companies /\ c \in active /\ users # {} /\ Root \in users
    BY DEF InstallationInductive, TypeOK
  <2>2. <<c, Root>> \in admins \cap on
    BY <2>1 DEF InstallationInductive, AdministratorHasAccess
  <2>3. \E m \in admins \cap on : m[1] \in active
    BY <2>1, <2>2
  <2>4. "administrator" \in Present /\ "users" \in Present
    BY <2>1, <2>3 DEF Present, Tables
  <2> QED
    BY <2>4 DEF State, StateFrom
<1> QED
  BY <1>1, InstallationInvariant, PTL
=============================================================================
